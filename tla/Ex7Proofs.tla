------------------------------ MODULE Ex7Proofs ------------------------------
(***************************************************************************)
(* Safety of the programs of Ex7, for any other programs and objects       *)
(* beside them, any tick and any latency not excluded below.  The first    *)
(* part is what the rest needs of the kernel: a waiting task is at its     *)
(* call, and the running task is a most urgent one of those ready.  The    *)
(* second part is about task E's ceiling, the third about the barrier, the *)
(* resource and the time of tasks B and C, the fourth about task A's       *)
(* barrier.                                                                *)
(***************************************************************************)
EXTENDS Ex7, TLAPS

(* A task that is waiting is at the call it waits in.                      *)
Waiting ==
  \A t \in Tasks : on[t] # None =>
    /\ status[t] = "waiting"
    /\ pc[t] <= Len(Prog[t])
    /\ Prog[t][pc[t]].obj = on[t]

(* The CPU is with a most urgent ready task, or idle for want of one.      *)
Scheduled ==
  IF Ready = {} THEN cpu = Idle ELSE cpu \in Highest(Ready)

IInv == TypeOK /\ Waiting /\ Scheduled

-----------------------------------------------------------------------------
(* The invariant holds when main starts.                                   *)
LEMMA InitIInv == Init => IInv
<1> SUFFICES ASSUME Init PROVE IInv
  OBVIOUS
<1> USE KernelAssumption
<1>1. TypeOK
  BY DEF Init, TypeOK, Status, None, Idle
<1>2. Waiting
  BY DEF Init, Waiting
<1>3. Scheduled
  <2>1. Ready = {cpu} /\ cpu \in Tasks
    BY DEF Init, Ready
  <2>2. AtLeast(cpu, cpu)
    <3>1. Prios(cpu) = {Priority[cpu]}
      BY <2>1 DEF Init, Prios, Objects, None
    <3> QED
      BY <3>1, <2>1 DEF AtLeast
  <2> QED
    BY <2>1, <2>2 DEF Scheduled, Highest
<1> QED
  BY <1>1, <1>2, <1>3 DEF IInv

(* Rescheduling establishes Scheduled whatever else a step does.           *)
LEMMA RescheduleSchedules == Reschedule => Scheduled'
BY DEF Reschedule, Scheduled

(* The running task is a task, or the CPU is idle.                         *)
LEMMA ScheduledTypeNext ==
  ASSUME Scheduled' PROVE cpu' \in Tasks \cup {Idle}
BY DEF Scheduled, Highest, Ready

(* The running task is ready.                                              *)
LEMMA RunningIsReady ==
  ASSUME Scheduled, cpu \in Tasks PROVE status[cpu] = "ready"
BY KernelAssumption DEF Scheduled, Highest, Ready

-----------------------------------------------------------------------------
(* A call that lets the tasks of W past o: it keeps the types and the      *)
(* waiting tasks at their calls.                                           *)
LEMMA PassKeeps ==
  ASSUME IInv, NEW t \in Tasks, NEW o \in Objects,
         NEW W \in SUBSET (Waiters(o) \cup {t}),
         cpu = t, pc[t] <= Len(Prog[t]), Pass(t, W, o)
  PROVE  /\ pc' \in [Tasks -> Nat]
         /\ \A u \in Tasks : pc'[u] \in 1 .. Len(Prog[u]) + 1
         /\ status' \in [Tasks -> Status]
         /\ on' \in [Tasks -> Objects \cup {None}]
         /\ left' \in [Tasks -> Int]
         /\ bprio' \in [Tasks -> Nat]
         /\ inside' \in [Tasks -> SUBSET Objects]
         /\ kept' \in [Tasks -> Nat]
         /\ Waiting'
         /\ Scheduled'
         /\ cpu' \in Tasks \cup {Idle}
<1> USE KernelAssumption
<1>0. TypeOK /\ Waiting /\ Scheduled
  BY DEF IInv
<1>1. status[t] = "ready" /\ on[t] = None
  BY <1>0, RunningIsReady DEF Waiting
<1>2. \A u \in W : pc[u] <= Len(Prog[u])
  BY <1>0 DEF Waiters, Waiting, Objects
<1>3. \A u \in Tasks : Len(Prog[u]) \in Nat
  BY DEF Calls
<1>4. /\ pc' \in [Tasks -> Nat]
      /\ \A u \in Tasks : pc'[u] \in 1 .. Len(Prog[u]) + 1
  <2>1. pc' = [u \in Tasks |-> IF u \in W \cup {t} THEN pc[u] + 1 ELSE pc[u]]
    BY DEF Pass
  <2>2. ASSUME NEW u \in Tasks
        PROVE  pc'[u] \in Nat /\ pc'[u] \in 1 .. Len(Prog[u]) + 1
    <3>1. pc[u] \in Nat /\ pc[u] \in 1 .. Len(Prog[u]) + 1 /\ Len(Prog[u]) \in Nat
      BY <1>0, <1>3 DEF TypeOK
    <3>2. CASE u \in W \cup {t}
      <4>1. pc'[u] = pc[u] + 1 /\ pc[u] <= Len(Prog[u])
        BY <2>1, <1>2, <3>2
      <4> QED
        BY <3>1, <4>1
    <3>3. CASE u \notin W \cup {t}
      BY <2>1, <3>1, <3>3
    <3> QED
      BY <3>2, <3>3
  <2> QED
    BY <2>1, <2>2
<1>5. /\ status' \in [Tasks -> Status]
      /\ on' \in [Tasks -> Objects \cup {None}]
      /\ left' \in [Tasks -> Int]
      /\ bprio' \in [Tasks -> Nat]
      /\ inside' \in [Tasks -> SUBSET Objects]
      /\ kept' \in [Tasks -> Nat]
  BY <1>0 DEF Pass, TypeOK, Status
<1>7. Waiting'
  BY <1>0, <1>1 DEF Pass, Waiting, TypeOK
<1>8. Scheduled'
  BY RescheduleSchedules DEF Pass
<1>9. cpu' \in Tasks \cup {Idle}
  BY <1>8 DEF Scheduled, Highest, Ready
<1> QED
  BY <1>4, <1>5, <1>7, <1>8, <1>9

(* What a call knows of the task that makes it.                            *)
LEMMA CallerFacts ==
  ASSUME IInv, NEW t \in Tasks, NEW op, Calling(t, op)
  PROVE  /\ cpu = t /\ status[t] = "ready" /\ on[t] = None
         /\ pc[t] \in 1 .. Len(Prog[t]) /\ Len(Prog[t]) \in Nat
         /\ Obj(t) \in Objects \cup Tasks \cup {None} /\ Num(t) \in Nat
<1>1. cpu = t /\ pc[t] <= Len(Prog[t])
  BY DEF Calling
<1>2. TypeOK /\ Waiting /\ Scheduled
  BY DEF IInv
<1>3. status[t] = "ready" /\ on[t] = None
  BY <1>1, <1>2, RunningIsReady DEF Waiting
<1>4. Prog[t] \in Seq(Calls)
  BY KernelAssumption
<1>5. pc[t] \in 1 .. Len(Prog[t]) /\ Len(Prog[t]) \in Nat
  BY <1>1, <1>2, <1>4 DEF TypeOK
<1>6. Prog[t][pc[t]] \in Calls
  BY <1>4, <1>5
<1>7. Obj(t) \in Objects \cup Tasks \cup {None} /\ Num(t) \in Nat
  BY <1>6 DEF Calls, Obj, Num
<1> QED
  BY <1>1, <1>3, <1>5, <1>7

(* A call that has to wait keeps the invariant.                            *)
LEMMA BlockKeeps ==
  ASSUME IInv, NEW t \in Tasks, NEW op, Calling(t, op), Obj(t) \in Objects,
         Block(t, Obj(t)), deleted' = deleted
  PROVE  IInv'
<1> DEFINE o == Obj(t)
<1> USE KernelAssumption
<1>0. TypeOK /\ Waiting
  BY DEF IInv
<1>1. Scheduled'
  BY RescheduleSchedules DEF Block
<1>2. cpu' \in Tasks \cup {Idle}
  BY <1>1 DEF Scheduled, Highest, Ready
<1>3. TypeOK'
  BY <1>0, <1>2 DEF Block, TypeOK, Status
<1>4. Waiting'
  <2>1. /\ on' = [on EXCEPT ![t] = o] /\ status' = [status EXCEPT ![t] = "waiting"]
        /\ pc' = pc
    BY DEF Block
  <2>2. pc[t] <= Len(Prog[t])
    BY DEF Calling
  <2>3. ASSUME NEW u \in Tasks, on'[u] # None
        PROVE  status'[u] = "waiting" /\ pc'[u] <= Len(Prog[u]) /\ Prog[u][pc'[u]].obj = on'[u]
    BY <1>0, <2>1, <2>2, <2>3 DEF TypeOK, Waiting, Obj
  <2> QED
    BY <2>3 DEF Waiting
<1> QED
  BY <1>1, <1>3, <1>4 DEF IInv

(* So does one that lets tasks past its object.                            *)
LEMMA CallPasses ==
  ASSUME IInv, NEW t \in Tasks, NEW op, Calling(t, op), Obj(t) \in Objects,
         NEW W \in SUBSET (Waiters(Obj(t)) \cup {t}), Pass(t, W, Obj(t)),
         semVal' \in [Sems -> Nat], owner' \in [Mutexes -> Tasks \cup {None}],
         deleted' \in SUBSET Objects
  PROVE  IInv'
<1>1. cpu = t /\ pc[t] <= Len(Prog[t])
  BY DEF Calling
<1>2. TypeOK' /\ Waiting' /\ Scheduled'
  BY <1>1, PassKeeps DEF TypeOK
<1> QED
  BY <1>2 DEF IInv

(* The calls on semaphores keep it.                                        *)
LEMMA SemKeeps ==
  ASSUME IInv, NEW t \in Tasks, SemP(t) \/ SemV(t) \/ SemBroadcast(t) PROVE IInv'
<1> DEFINE s == Obj(t)
<1>0. /\ semVal \in [Sems -> Nat] /\ owner \in [Mutexes -> Tasks \cup {None}]
      /\ deleted \in SUBSET Objects
  BY DEF IInv, TypeOK
<1>1. CASE SemP(t)
  <2>1. /\ Calling(t, "sem_p") /\ s \in Objects /\ UNCHANGED <<owner, deleted>>
        /\ \/ Block(t, s)
           \/ Pass(t, {t}, s) /\ semVal' \in [Sems -> Nat]
    BY <1>0, <1>1 DEF SemP, Objects
  <2> QED
    BY <1>0, <2>1, BlockKeeps, CallPasses
<1>2. CASE SemV(t)
  <2>1. Calling(t, "sem_v") /\ s \in Objects /\ UNCHANGED <<owner, deleted>>
    BY <1>2 DEF SemV, Objects
  <2>2. semVal' \in [Sems -> Nat]
    BY <1>0, <1>2 DEF SemV
  <2>3. \E W \in SUBSET Waiters(s) : Pass(t, W, s)
    BY <1>2 DEF SemV, Highest
  <2> QED
    BY <1>0, <2>1, <2>2, <2>3, CallPasses
<1>3. CASE SemBroadcast(t)
  <2>1. /\ Calling(t, "sem_broadcast") /\ s \in Objects /\ UNCHANGED <<owner, deleted>>
        /\ semVal' \in [Sems -> Nat] /\ Pass(t, Waiters(s), s)
    BY <1>0, <1>3 DEF SemBroadcast, Objects
  <2> QED
    BY <1>0, <2>1, CallPasses
<1> QED
  BY <1>1, <1>2, <1>3

(* The deletion of a semaphore or a mutex keeps it.                        *)
LEMMA DeleteKeeps ==
  ASSUME IInv, NEW t \in Tasks, NEW op, NEW S \in SUBSET Objects, Delete(t, op, S)
  PROVE  IInv'
<1>1. /\ Calling(t, op) /\ Obj(t) \in Objects /\ deleted' \in SUBSET Objects
      /\ semVal' \in [Sems -> Nat] /\ owner' \in [Mutexes -> Tasks \cup {None}]
      /\ Pass(t, Waiters(Obj(t)), Obj(t))
  BY DEF Delete, IInv, TypeOK
<1> QED
  BY <1>1, CallPasses

(* The calls on mutexes keep it.                                           *)
LEMMA MutexKeeps ==
  ASSUME IInv, NEW t \in Tasks, MutexAcquire(t) \/ MutexRelease(t) PROVE IInv'
<1> DEFINE m == Obj(t)
<1>0. /\ semVal \in [Sems -> Nat] /\ owner \in [Mutexes -> Tasks \cup {None}]
      /\ deleted \in SUBSET Objects
  BY DEF IInv, TypeOK
<1>1. CASE MutexAcquire(t)
  <2>1. /\ Calling(t, "mutex_acquire") /\ m \in Objects /\ UNCHANGED <<semVal, deleted>>
        /\ \/ Block(t, m)
           \/ Pass(t, {t}, m) /\ owner' \in [Mutexes -> Tasks \cup {None}]
    BY <1>0, <1>1 DEF MutexAcquire, Objects
  <2> QED
    BY <1>0, <2>1, BlockKeeps, CallPasses
<1>2. CASE MutexRelease(t)
  <2>1. /\ Calling(t, "mutex_release") /\ m \in Objects /\ UNCHANGED <<semVal, deleted>>
        /\ owner' \in [Mutexes -> Tasks \cup {None}]
        /\ \E W \in SUBSET Waiters(m) : Pass(t, W, m)
    BY <1>0, <1>2 DEF MutexRelease, Highest, Waiters, Objects
  <2> QED
    BY <1>0, <2>1, CallPasses
<1> QED
  BY <1>1, <1>2

(* A step that touches nothing the scheduler looks at.                     *)
LEMMA ScheduleStands ==
  ASSUME Scheduled, UNCHANGED <<status, on, bprio, owner, cpu>> PROVE Scheduled'
<1>1. Ready' = Ready
  BY DEF Ready
<1>2. \A t \in Tasks : Prios(t)' = Prios(t)
  BY DEF Prios
<1>3. \A t, u \in Tasks : AtLeast(t, u)' <=> AtLeast(t, u)
  BY <1>2 DEF AtLeast
<1>4. Ready \subseteq Tasks
  BY DEF Ready
<1>5. Highest(Ready)' = Highest(Ready)
  BY <1>1, <1>3, <1>4 DEF Highest
<1> QED
  BY <1>1, <1>5 DEF Scheduled

(* Going on to the next call keeps the index in the program.               *)
LEMMA AdvanceType ==
  ASSUME TypeOK, NEW t \in Tasks, pc[t] \in 1 .. Len(Prog[t]), Advance(t)
  PROVE  /\ pc' \in [Tasks -> Nat]
         /\ \A u \in Tasks : pc'[u] \in 1 .. Len(Prog[u]) + 1
<1>1. Len(Prog[t]) \in Nat
  BY KernelAssumption DEF Calls
<1>2. pc[t] + 1 \in Nat /\ pc[t] + 1 \in 1 .. Len(Prog[t]) + 1
  BY <1>1, SMT
<1>3. /\ pc \in [Tasks -> Nat] /\ pc' = [pc EXCEPT ![t] = pc[t] + 1]
      /\ \A u \in Tasks : pc[u] \in 1 .. Len(Prog[u]) + 1
  BY DEF TypeOK, Advance
<1>4. ASSUME NEW u \in Tasks PROVE pc'[u] \in 1 .. Len(Prog[u]) + 1
  <2>1. CASE u = t
    BY <1>2, <1>3, <2>1, Zenon
  <2>2. CASE u # t
    BY <1>3, <2>2, Zenon
  <2> QED
    BY <2>1, <2>2
<1>5. pc' \in [Tasks -> Nat]
  BY <1>2, <1>3
<1> QED
  BY <1>4, <1>5

(* The steps that concern the task alone: no object changes hands.         *)
LEMMA SleepKeeps ==
  ASSUME IInv, NEW t \in Tasks, Sleep(t) PROVE IInv'
<1> USE KernelAssumption
<1>0. /\ cpu = t /\ status[t] = "ready" /\ on[t] = None
      /\ pc[t] \in 1 .. Len(Prog[t]) /\ Len(Prog[t]) \in Nat /\ Num(t) \in Nat
  BY CallerFacts DEF Sleep
<1>1. Scheduled'
  BY RescheduleSchedules DEF Sleep
<1>2. TypeOK'
  <2>1. TypeOK /\ Advance(t) /\ cpu' \in Tasks \cup {Idle}
    BY <1>1, ScheduledTypeNext DEF IInv, Sleep
  <2>2. /\ pc' \in [Tasks -> Nat]
        /\ \A u \in Tasks : pc'[u] \in 1 .. Len(Prog[u]) + 1
    BY <1>0, <2>1, AdvanceType
  <2>3. Num(t) * Unit \in Int
    BY <1>0
  <2> QED
    BY <2>1, <2>2, <2>3 DEF TypeOK, Sleep, Status
<1>3. Waiting'
  BY <1>0 DEF IInv, TypeOK, Waiting, Sleep, Advance
<1> QED
  BY <1>1, <1>2, <1>3 DEF IInv

(* busy_wait_us keeps the invariant.                                       *)
LEMMA SpinKeeps ==
  ASSUME IInv, NEW t \in Tasks, Spin(t) PROVE IInv'
<1> USE KernelAssumption
<1>0. /\ cpu = t /\ status[t] = "ready" /\ on[t] = None
      /\ pc[t] \in 1 .. Len(Prog[t]) /\ Len(Prog[t]) \in Nat /\ Num(t) \in Nat
  BY CallerFacts DEF Spin
<1>1. Scheduled'
  BY ScheduleStands DEF IInv, Spin
<1>2. TypeOK'
  <2>1. TypeOK /\ Advance(t)
    BY DEF IInv, Spin
  <2>2. /\ pc' \in [Tasks -> Nat]
        /\ \A u \in Tasks : pc'[u] \in 1 .. Len(Prog[u]) + 1
    BY <1>0, <2>1, AdvanceType
  <2>3. Num(t) * Unit \in Int
    BY <1>0
  <2> QED
    BY <2>1, <2>2, <2>3 DEF TypeOK, Spin
<1>3. Waiting'
  BY <1>0 DEF IInv, TypeOK, Waiting, Spin, Advance
<1> QED
  BY <1>1, <1>2, <1>3 DEF IInv

(* rt_task_set_priority keeps it.                                          *)
LEMMA SetPriorityKeeps ==
  ASSUME IInv, NEW t \in Tasks, SetPriority(t) PROVE IInv'
<1> USE KernelAssumption
<1>0. /\ cpu = t /\ status[t] = "ready" /\ on[t] = None
      /\ pc[t] \in 1 .. Len(Prog[t]) /\ Len(Prog[t]) \in Nat /\ Num(t) \in Nat
  BY CallerFacts DEF SetPriority
<1>1. Scheduled'
  BY RescheduleSchedules DEF SetPriority
<1>2. TypeOK'
  <2>1. TypeOK /\ Advance(t) /\ cpu' \in Tasks \cup {Idle}
    BY <1>1, ScheduledTypeNext DEF IInv, SetPriority
  <2>2. /\ pc' \in [Tasks -> Nat]
        /\ \A u \in Tasks : pc'[u] \in 1 .. Len(Prog[u]) + 1
    BY <1>0, <2>1, AdvanceType
  <2> QED
    BY <1>0, <2>1, <2>2 DEF TypeOK, SetPriority, Status
<1>3. Waiting'
  BY <1>0 DEF IInv, TypeOK, Waiting, SetPriority, Advance
<1> QED
  BY <1>1, <1>2, <1>3 DEF IInv

(* rt_task_start keeps it.                                                 *)
LEMMA TaskStartKeeps ==
  ASSUME IInv, NEW t \in Tasks, TaskStart(t) PROVE IInv'
<1> USE KernelAssumption
<1>0. /\ cpu = t /\ status[t] = "ready" /\ on[t] = None
      /\ pc[t] \in 1 .. Len(Prog[t]) /\ Len(Prog[t]) \in Nat
  BY CallerFacts DEF TaskStart
<1>1. Scheduled'
  BY RescheduleSchedules DEF TaskStart
<1>2. TypeOK'
  <2>1. TypeOK /\ Advance(t) /\ cpu' \in Tasks \cup {Idle}
    BY <1>1, ScheduledTypeNext DEF IInv, TaskStart
  <2>2. /\ pc' \in [Tasks -> Nat]
        /\ \A u \in Tasks : pc'[u] \in 1 .. Len(Prog[u]) + 1
    BY <1>0, <2>1, AdvanceType
  <2> QED
    BY <2>1, <2>2 DEF TypeOK, TaskStart, Status
<1>3. Waiting'
  BY <1>0 DEF IInv, TypeOK, Waiting, TaskStart, Advance
<1> QED
  BY <1>1, <1>2, <1>3 DEF IInv

(* rt_task_delete keeps it.                                                *)
LEMMA TaskDeleteKeeps ==
  ASSUME IInv, NEW t \in Tasks, TaskDelete(t) PROVE IInv'
<1> USE KernelAssumption
<1>0. /\ cpu = t /\ status[t] = "ready" /\ on[t] = None
      /\ pc[t] \in 1 .. Len(Prog[t]) /\ Len(Prog[t]) \in Nat
  BY CallerFacts DEF TaskDelete
<1>1. Scheduled'
  BY RescheduleSchedules DEF TaskDelete
<1>2. TypeOK'
  <2>1. TypeOK /\ Advance(t) /\ cpu' \in Tasks \cup {Idle}
    BY <1>1, ScheduledTypeNext DEF IInv, TaskDelete
  <2>2. /\ pc' \in [Tasks -> Nat]
        /\ \A u \in Tasks : pc'[u] \in 1 .. Len(Prog[u]) + 1
    BY <1>0, <2>1, AdvanceType
  <2> QED
    BY <2>1, <2>2 DEF TypeOK, TaskDelete, Status
<1>3. Waiting'
  BY <1>0 DEF IInv, TypeOK, Waiting, TaskDelete, Advance
<1> QED
  BY <1>1, <1>2, <1>3 DEF IInv

(* while(1) sleep(-1) keeps it.                                            *)
LEMMA PauseKeeps ==
  ASSUME IInv, NEW t \in Tasks, Pause(t) PROVE IInv'
<1> USE KernelAssumption
<1>0. status[t] = "ready" /\ on[t] = None
  BY CallerFacts DEF Pause
<1>1. Scheduled'
  BY RescheduleSchedules DEF Pause
<1>2. TypeOK'
  BY <1>1, ScheduledTypeNext DEF IInv, TypeOK, Pause, Status
<1>3. Waiting'
  BY <1>0 DEF IInv, TypeOK, Waiting, Pause
<1> QED
  BY <1>1, <1>2, <1>3 DEF IInv

(* The return of a task, and the exit of the process, keep it.             *)
LEMMA ReturnKeeps ==
  ASSUME IInv, NEW t \in Tasks, Return(t) PROVE IInv'
<1> USE KernelAssumption
<1>0. status[t] = "ready" /\ on[t] = None
  BY RunningIsReady DEF Return, IInv, Waiting
<1>1. Scheduled'
  BY RescheduleSchedules DEF Return
<1>2. TypeOK'
  BY <1>1, ScheduledTypeNext DEF IInv, TypeOK, Return, Status
<1>3. Waiting'
  BY <1>0 DEF IInv, TypeOK, Waiting, Return
<1> QED
  BY <1>1, <1>2, <1>3 DEF IInv

(* The end of a sleep keeps it.                                            *)
LEMMA ExpireKeeps ==
  ASSUME IInv, NEW t \in Tasks, Expire(t) PROVE IInv'
<1> USE KernelAssumption
<1>0. status[t] = "asleep" /\ on[t] = None
  BY DEF Expire, IInv, Waiting
<1>1. Scheduled'
  BY RescheduleSchedules DEF Expire
<1>2. TypeOK'
  BY <1>1, ScheduledTypeNext DEF IInv, TypeOK, Expire, Status
<1>3. Waiting'
  BY <1>0 DEF IInv, TypeOK, Waiting, Expire
<1> QED
  BY <1>1, <1>2, <1>3 DEF IInv

(* The passing of a tick keeps it.                                         *)
LEMMA TickKeeps ==
  ASSUME IInv, Tick PROVE IInv'
<1> USE KernelAssumption
<1>1. Scheduled'
  BY ScheduleStands DEF IInv, Tick
<1>2. TypeOK'
  <2>1. TypeOK
    BY DEF IInv
  <2>2. left' \in [Tasks -> Int]
    BY <2>1 DEF TypeOK, Tick
  <2>3. kept' \in [Tasks -> Nat]
    <3>1. kept \in [Tasks -> Nat]
      BY <2>1 DEF TypeOK
    <3>2. kept' = [t \in Tasks |->
            IF t # cpu /\ status[t] \in {"ready", "waiting"} THEN kept[t] + 1 ELSE 0]
      BY DEF Tick
    <3> QED
      BY <3>1, <3>2
  <2> QED
    BY <2>1, <2>2, <2>3 DEF TypeOK, Tick
<1>3. Waiting'
  BY DEF IInv, Waiting, Tick
<1> QED
  BY <1>1, <1>2, <1>3 DEF IInv

(* A step that changes nothing keeps it.                                   *)
LEMMA StutterKeeps ==
  ASSUME IInv, UNCHANGED vars PROVE IInv'
<1>1. TypeOK' /\ Waiting'
  BY DEF vars, IInv, TypeOK, Waiting
<1>2. Scheduled'
  BY ScheduleStands DEF vars, IInv
<1> QED
  BY <1>1, <1>2 DEF IInv

-----------------------------------------------------------------------------
(* The invariant is inductive.                                             *)
LEMMA Inductive == IInv /\ [Next]_vars => IInv'
<1> SUFFICES ASSUME IInv, [Next]_vars PROVE IInv'
  OBVIOUS
<1>1. ASSUME NEW t \in Tasks, Step(t) PROVE IInv'
  <2>1. CASE SemP(t) \/ SemV(t) \/ SemBroadcast(t)
    BY <2>1, SemKeeps
  <2>2. CASE SemDelete(t) \/ MutexDelete(t)
    BY <2>2, DeleteKeeps DEF SemDelete, MutexDelete, Objects
  <2>3. CASE MutexAcquire(t) \/ MutexRelease(t)
    BY <2>3, MutexKeeps
  <2>4. CASE Sleep(t) \/ Spin(t) \/ SetPriority(t)
    BY <2>4, SleepKeeps, SpinKeeps, SetPriorityKeeps
  <2>5. CASE TaskStart(t) \/ TaskDelete(t) \/ Pause(t) \/ Return(t)
    BY <2>5, TaskStartKeeps, TaskDeleteKeeps, PauseKeeps, ReturnKeeps
  <2> QED
    BY <1>1, <2>1, <2>2, <2>3, <2>4, <2>5 DEF Step
<1>2. ASSUME NEW t \in Tasks, Expire(t) PROVE IInv'
  BY <1>2, ExpireKeeps
<1>3. CASE Tick
  BY <1>3, TickKeeps
<1>4. CASE UNCHANGED vars
  BY <1>4, StutterKeeps
<1> QED
  BY <1>1, <1>2, <1>3, <1>4 DEF Next

(* The invariant holds in every state of every program.                    *)
LEMMA Invariance == Spec => []IInv
BY InitIInv, Inductive, PTL DEF Spec

-----------------------------------------------------------------------------
(* The only tasks a step readies are sleepers, waiters and those that it   *)
(* starts.                                                                 *)
LEMMA OnlyStarted ==
  ASSUME IInv, NEW t \in Tasks, Step(t), NEW u \in Tasks,
         u # t, status[u] \in {"dormant", "gone"},
         ~(Calling(t, "task_start") /\ u = Obj(t))
  PROVE  status'[u] \in {status[u], "gone"}
<1>1. on[u] = None /\ status \in [Tasks -> Status]
  BY DEF IInv, TypeOK, Waiting
<1>2. ASSUME NEW o \in Objects, NEW W \in SUBSET (Waiters(o) \cup {t}), Pass(t, W, o)
      PROVE  status'[u] = status[u]
  <2>1. u \notin W
    BY <1>1, <1>2, KernelAssumption DEF Waiters, Objects
  <2> QED
    BY <1>2, <2>1 DEF Pass
<1>3. ASSUME NEW o, Block(t, o) PROVE status'[u] = status[u]
  BY <1>1, <1>3 DEF Block
<1>4. CASE SemP(t)
  <2>1. Obj(t) \in Objects /\ (Block(t, Obj(t)) \/ Pass(t, {t}, Obj(t)))
    BY <1>4 DEF SemP, Objects
  <2> QED
    BY <1>2, <1>3, <2>1
<1>5. CASE SemV(t)
  <2>1. Obj(t) \in Objects /\ \E W \in SUBSET Waiters(Obj(t)) : Pass(t, W, Obj(t))
    BY <1>5 DEF SemV, Highest, Objects
  <2> QED
    BY <1>2, <2>1
<1>6. CASE SemBroadcast(t) \/ SemDelete(t) \/ MutexDelete(t)
  <2>1. Obj(t) \in Objects /\ Pass(t, Waiters(Obj(t)), Obj(t))
    BY <1>6 DEF SemBroadcast, SemDelete, MutexDelete, Delete, Objects
  <2> QED
    BY <1>2, <2>1
<1>7. CASE MutexAcquire(t)
  <2>1. Obj(t) \in Objects /\ (Block(t, Obj(t)) \/ Pass(t, {t}, Obj(t)))
    BY <1>7 DEF MutexAcquire, Objects
  <2> QED
    BY <1>2, <1>3, <2>1
<1>8. CASE MutexRelease(t)
  <2>1. Obj(t) \in Objects /\ \E W \in SUBSET Waiters(Obj(t)) : Pass(t, W, Obj(t))
    BY <1>8 DEF MutexRelease, Highest, Objects
  <2> QED
    BY <1>2, <2>1
<1>9. CASE Sleep(t) \/ Spin(t) \/ SetPriority(t) \/ Pause(t)
  BY <1>1, <1>9 DEF Sleep, Spin, SetPriority, Pause
<1>10. CASE TaskStart(t) \/ TaskDelete(t) \/ Return(t)
  BY <1>1, <1>10 DEF TaskStart, TaskDelete, Return
<1> QED
  BY <1>4, <1>5, <1>6, <1>7, <1>8, <1>9, <1>10 DEF Step

(* A task that makes a step is the running one, and it is ready.           *)
LEMMA StepperRuns ==
  ASSUME IInv, NEW t \in Tasks, Step(t)
  PROVE  cpu = t /\ status[t] = "ready" /\ on[t] = None /\ left[t] = 0
<1>1. cpu = t /\ left[t] = 0
  BY DEF Step, SemP, SemV, SemBroadcast, SemDelete, MutexDelete, Delete, MutexAcquire,
         MutexRelease, Sleep, Spin, SetPriority, TaskStart, TaskDelete, Pause, Return,
         Calling
<1> QED
  BY <1>1, RunningIsReady DEF IInv, Waiting

(* What one step does to what is deleted, to the tasks' places in their    *)
(* programs and to what they are inside of.                                *)
Moves(t) ==
  LET o == Obj(t) IN
  /\ \E op \in Ops : Calling(t, op)
  /\ \A d \in deleted' : d \in deleted \/ d = o
  /\ \A u \in Tasks \ {t} :
       \/ pc'[u] = pc[u] /\ inside'[u] = inside[u]
       \/ /\ on[u] = o /\ o \in Objects
          /\ pc'[u] = pc[u] + 1 /\ inside'[u] = inside[u] \cup {o}
  /\ pc'[t] \in {pc[t], pc[t] + 1}
  /\ \/ inside'[t] \subseteq inside[t]
     \/ inside'[t] = inside[t] \cup {o} /\ pc'[t] = pc[t] + 1
  /\ SemV(t) \/ MutexRelease(t) => o \notin inside'[t]

(* A call that lets tasks past an object moves them and its caller on.     *)
LEMMA PassMoves ==
  ASSUME IInv, NEW t \in Tasks, NEW op \in Ops, Calling(t, op),
         NEW W \in SUBSET (Waiters(Obj(t)) \cup {t}), Pass(t, W, Obj(t)), Obj(t) \in Objects,
         \A d \in deleted' : d \in deleted \/ d = Obj(t),
         t \in W <=> SemP(t) \/ MutexAcquire(t)
  PROVE  Moves(t)
<1> DEFINE o == Obj(t)
<1>1. /\ pc' = [u \in Tasks |-> IF u \in W \cup {t} THEN pc[u] + 1 ELSE pc[u]]
      /\ inside' = [u \in Tasks |-> IF u \in W THEN inside[u] \cup {o}
                                    ELSE IF u = t THEN inside[u] \ {o} ELSE inside[u]]
  BY DEF Pass
<1>2. \A u \in Tasks \ {t} :
        \/ pc'[u] = pc[u] /\ inside'[u] = inside[u]
        \/ /\ on[u] = o /\ o \in Objects
           /\ pc'[u] = pc[u] + 1 /\ inside'[u] = inside[u] \cup {o}
  BY <1>1 DEF Waiters
<1>3. pc'[t] = pc[t] + 1 /\ (t \notin W => inside'[t] = inside[t] \ {o})
      /\ (t \in W => inside'[t] = inside[t] \cup {o})
  BY <1>1
<1>4. SemV(t) \/ MutexRelease(t) => t \notin W
  <2>1. \A a, b : Calling(t, a) /\ Calling(t, b) => a = b
    BY DEF Calling
  <2> QED
    BY <2>1 DEF SemV, MutexRelease, SemP, MutexAcquire
<1>5. /\ \/ inside'[t] \subseteq inside[t]
         \/ inside'[t] = inside[t] \cup {o} /\ pc'[t] = pc[t] + 1
      /\ SemV(t) \/ MutexRelease(t) => o \notin inside'[t]
  BY <1>3, <1>4
<1>6. (\E x \in Ops : Calling(t, x)) /\ pc'[t] \in {pc[t], pc[t] + 1}
  BY <1>3
<1> QED
  BY <1>2, <1>5, <1>6 DEF Moves

(* Every step of a task is one of these, or moves nothing.                 *)
LEMMA StepMoves ==
  ASSUME IInv, NEW t \in Tasks, Step(t)
  PROVE  UNCHANGED <<pc, inside, deleted>> \/ Moves(t)
<1>0. /\ on[t] = None /\ None \notin Objects
      /\ pc \in [Tasks -> Nat] /\ inside \in [Tasks -> SUBSET Objects]
  BY StepperRuns, KernelAssumption DEF IInv, TypeOK
<1>1. \A a, b : Calling(t, a) /\ Calling(t, b) => a = b
  BY DEF Calling
<1>2. ASSUME NEW op \in {"sem_v", "sem_broadcast", "sem_delete", "mutex_release",
                         "mutex_delete"},
             Calling(t, op), NEW W \in SUBSET Waiters(Obj(t)), Pass(t, W, Obj(t)),
             Obj(t) \in Objects, \A d \in deleted' : d \in deleted \/ d = Obj(t)
      PROVE  Moves(t)
  <2>1. t \notin W
    BY <1>0, <1>2 DEF Waiters
  <2>2. ~SemP(t) /\ ~MutexAcquire(t)
    BY <1>1, <1>2 DEF SemP, MutexAcquire
  <2> QED
    BY <1>2, <2>1, <2>2, PassMoves DEF Ops
<1>3. CASE SemP(t)
  <2>1. Calling(t, "sem_p") /\ Obj(t) \in Objects /\ deleted' = deleted
        /\ (Block(t, Obj(t)) \/ Pass(t, {t}, Obj(t)))
    BY <1>3 DEF SemP, Objects
  <2>2. CASE Block(t, Obj(t))
    BY <2>1, <2>2 DEF Block
  <2>3. CASE Pass(t, {t}, Obj(t))
    BY <1>3, <2>1, <2>3, PassMoves DEF Ops
  <2> QED
    BY <2>1, <2>2, <2>3
<1>4. CASE MutexAcquire(t)
  <2>1. Calling(t, "mutex_acquire") /\ Obj(t) \in Objects /\ deleted' = deleted
        /\ (Block(t, Obj(t)) \/ Pass(t, {t}, Obj(t)))
    BY <1>4 DEF MutexAcquire, Objects
  <2>2. CASE Block(t, Obj(t))
    BY <2>1, <2>2 DEF Block
  <2>3. CASE Pass(t, {t}, Obj(t))
    BY <1>4, <2>1, <2>3, PassMoves DEF Ops
  <2> QED
    BY <2>1, <2>2, <2>3
<1>5. CASE SemV(t)
  <2>1. Calling(t, "sem_v") /\ Obj(t) \in Objects /\ deleted' = deleted
        /\ \E W \in SUBSET Waiters(Obj(t)) : Pass(t, W, Obj(t))
    BY <1>5 DEF SemV, Highest, Objects
  <2> QED
    BY <1>2, <2>1
<1>6. CASE SemBroadcast(t)
  <2>1. Calling(t, "sem_broadcast") /\ Obj(t) \in Objects /\ deleted' = deleted
        /\ Pass(t, Waiters(Obj(t)), Obj(t))
    BY <1>6 DEF SemBroadcast, Objects
  <2> QED
    BY <1>2, <2>1
<1>7. CASE SemDelete(t) \/ MutexDelete(t)
  <2>1. PICK op \in {"sem_delete", "mutex_delete"} : \E S \in SUBSET Objects : Delete(t, op, S)
    BY <1>7 DEF SemDelete, MutexDelete, Objects
  <2>2. /\ Calling(t, op) /\ Obj(t) \in Objects /\ deleted' = deleted \cup {Obj(t)}
        /\ Pass(t, Waiters(Obj(t)), Obj(t))
    BY <2>1 DEF Delete
  <2> QED
    BY <1>2, <2>2
<1>8. CASE MutexRelease(t)
  <2>1. Calling(t, "mutex_release") /\ Obj(t) \in Objects /\ deleted' = deleted
        /\ \E W \in SUBSET Waiters(Obj(t)) : Pass(t, W, Obj(t))
    BY <1>8 DEF MutexRelease, Highest, Objects
  <2> QED
    BY <1>2, <2>1
<1>9. CASE Sleep(t) \/ Spin(t) \/ SetPriority(t) \/ TaskStart(t) \/ TaskDelete(t)
  <2>1. PICK op \in {"sleep", "spin", "set_priority", "task_start", "task_delete"} :
          Calling(t, op) /\ Advance(t) /\ UNCHANGED <<inside, deleted>>
    BY <1>9 DEF Sleep, Spin, SetPriority, TaskStart, TaskDelete
  <2>2. \A u \in Tasks : pc'[u] = IF u = t THEN pc[u] + 1 ELSE pc[u]
    BY <1>0, <2>1 DEF Advance
  <2>3. ~SemV(t) /\ ~MutexRelease(t) /\ op \in Ops
    BY <1>1, <2>1 DEF SemV, MutexRelease, Ops
  <2> QED
    BY <2>1, <2>2, <2>3 DEF Moves
<1>10. CASE Pause(t) \/ Return(t)
  BY <1>10 DEF Pause, Return
<1> QED
  BY <1>3, <1>4, <1>5, <1>6, <1>7, <1>8, <1>9, <1>10 DEF Step

(* The step of a task that has not returned yet is the call its program    *)
(* has next.                                                               *)
LEMMA TheCall ==
  ASSUME NEW t \in Tasks, Step(t), pc[t] <= Len(Prog[t]), pc[t] # Len(Prog[t]) + 1,
         NEW op, op = Prog[t][pc[t]].op
  PROVE  /\ Calling(t, op)
         /\ op = "mutex_acquire" => MutexAcquire(t)
         /\ op = "mutex_release" => MutexRelease(t)
         /\ op = "sem_p" => SemP(t)
         /\ op = "sem_v" => SemV(t)
         /\ op = "sem_delete" => SemDelete(t)
         /\ op = "mutex_delete" => MutexDelete(t)
         /\ op = "task_delete" => TaskDelete(t)
         /\ op = "sem_broadcast" => SemBroadcast(t)
         /\ op = "sleep" => Sleep(t)
         /\ op = "spin" => Spin(t)
         /\ op = "set_priority" => SetPriority(t)
         /\ op = "task_start" => TaskStart(t)
         /\ op = "pause" => Pause(t)
BY DEF Step, SemP, SemV, SemBroadcast, SemDelete, MutexDelete, Delete, MutexAcquire,
       MutexRelease, Sleep, Spin, SetPriority, TaskStart, TaskDelete, Pause, Return,
       Calling

-----------------------------------------------------------------------------
(* The three tasks of task E and their calls.                              *)
TasksE == DOMAIN ProgE

(* Their programs and priorities; no other program starts them.            *)
LEMMA ProgramE ==
  /\ TasksE = {"mainE", "HIGHE", "LOWE"} /\ TasksE \subseteq Tasks
  /\ TasksE \cap Mains = {"mainE"}
  /\ Prog["mainE"] = MainDE("HIGHE", "LOWE")
  /\ Prog["HIGHE"] = HighE /\ Prog["LOWE"] = LowE
  /\ Priority["HIGHE"] = 30 /\ Priority["LOWE"] = 20
  /\ "A" \in Mutexes /\ "B" \in Mutexes /\ MutexesDE = {"A", "B"}
  /\ None \notin TasksE
  /\ \A t \in Tasks \ TasksE : \A i \in 1 .. Len(Prog[t]) :
       Prog[t][i].op = "task_start" => Prog[t][i].obj \notin TasksE
<1>1. TasksE = {"mainE", "HIGHE", "LOWE"}
  BY DEF TasksE, ProgE
<1>2. /\ ProgE["mainE"] = MainDE("HIGHE", "LOWE")
      /\ ProgE["HIGHE"] = HighE /\ ProgE["LOWE"] = LowE
  BY DEF ProgE
<1>3. PriorityE["HIGHE"] = 30 /\ PriorityE["LOWE"] = 20
  BY DEF PriorityE
<1>4. \A t \in Tasks : DOMAIN Prog[t] = 1 .. Len(Prog[t])
  BY KernelAssumption
<1>5. "A" \in Mutexes /\ "B" \in Mutexes /\ MutexesDE = {"A", "B"}
  BY TaskEAssumption DEF MutexesDE
<1>6. None \notin TasksE
  BY <1>1 DEF None
<1> QED
  BY <1>1, <1>2, <1>3, <1>4, <1>5, <1>6, TaskEAssumption DEF TasksE

(* The calls of LOW, in source order.                                      *)
LEMMA LowCalls ==
  /\ Len(LowE) = 9
  /\ LowE[1] = rt_task_set_priority(40) /\ LowE[2] = rt_mutex_acquire("A")
  /\ LowE[3] = busy_wait_us(3)          /\ LowE[4] = rt_mutex_acquire("B")
  /\ LowE[5] = busy_wait_us(3)          /\ LowE[6] = rt_mutex_release("B")
  /\ LowE[7] = rt_mutex_release("A")    /\ LowE[8] = rt_task_set_priority(20)
  /\ LowE[9] = busy_wait_us(1)
BY DEF LowE, icpp_lock, icpp_unlock

(* The calls of HIGH.                                                      *)
LEMMA HighCalls ==
  /\ Len(HighE) = 10
  /\ HighE[1] = rt_task_sleep(1)
  /\ HighE[2] = rt_task_set_priority(40) /\ HighE[3] = rt_mutex_acquire("B")
  /\ HighE[4] = busy_wait_us(1)          /\ HighE[5] = rt_mutex_acquire("A")
  /\ HighE[6] = busy_wait_us(2)          /\ HighE[7] = rt_mutex_release("A")
  /\ HighE[8] = rt_mutex_release("B")    /\ HighE[9] = rt_task_set_priority(30)
  /\ HighE[10] = busy_wait_us(1)
BY DEF HighE, icpp_lock, icpp_unlock

(* The calls of main.                                                      *)
LEMMA MainCalls ==
  LET M == MainDE("HIGHE", "LOWE") IN
  /\ Len(M) = 6
  /\ M[1] = rt_task_start("HIGHE") /\ M[2] = rt_task_start("LOWE")
  /\ M[3] = rt_task_sleep(1)       /\ M[4] = rt_sem_broadcast("semaDE")
  /\ M[5] = rt_task_sleep(20)      /\ M[6] = pause
BY DEF MainDE

(* Where each of the two tasks is raised to the ceiling, and where it      *)
(* holds each mutex.                                                       *)
Raised(t) == pc[t] \in IF t = "LOWE" THEN 2 .. 8 ELSE 3 .. 9

Holds(t, m) ==
  pc[t] \in IF t = "LOWE" THEN IF m = "A" THEN 3 .. 7 ELSE 5 .. 6
            ELSE IF m = "A" THEN 6 .. 7 ELSE 4 .. 8

(* Another program runs: the tasks of task E never do.                     *)
OtherThanE == \A t \in TasksE : status[t] \in {"dormant", "gone"}

(* Task E runs, and nothing else does.                                     *)
OnlyE == \A t \in Tasks \ TasksE : status[t] \in {"dormant", "gone"}

(* Nobody waits; a raised task is ready to run, at priority 40, and is the *)
(* only one; a mutex is held by nobody or by a task in its section; and    *)
(* main does not return.                                                   *)
Ceiling ==
  /\ \A t \in Tasks : on[t] = None
  /\ \A t \in WorkersE :
       /\ status[t] # "waiting"
       /\ Raised(t) => status[t] = "ready"
       /\ bprio[t] = IF Raised(t) THEN 40 ELSE Priority[t]
  /\ \A t, u \in WorkersE : Raised(t) /\ Raised(u) => t = u
  /\ \A m \in MutexesDE :
       /\ m \notin deleted
       /\ owner[m] \in WorkersE \cup {None}
       /\ \A t \in WorkersE : owner[m] = t => Holds(t, m)
  /\ pc["mainE"] <= 6

IInvE == OtherThanE \/ (OnlyE /\ Ceiling)

(* A step of another program leaves the tasks of E where they are.         *)
LEMMA OtherThanEKeeps == IInv /\ OtherThanE /\ Next => OtherThanE'
<1> SUFFICES ASSUME IInv, OtherThanE, Next PROVE OtherThanE'
  OBVIOUS
<1>1. ASSUME NEW t \in Tasks, Step(t), NEW u \in TasksE
      PROVE  status'[u] \in {"dormant", "gone"}
  <2>1. u \in Tasks /\ status[u] \in {"dormant", "gone"}
    BY ProgramE DEF OtherThanE
  <2>2. t \notin TasksE /\ u # t
    BY <1>1, <2>1, StepperRuns DEF OtherThanE
  <2>3. ~(Calling(t, "task_start") /\ u = Obj(t))
    <3> SUFFICES ASSUME Calling(t, "task_start") PROVE u # Obj(t)
      OBVIOUS
    <3>1. pc[t] \in 1 .. Len(Prog[t])
      BY CallerFacts
    <3> QED
      BY <2>2, <3>1, ProgramE DEF Calling, Obj
  <2> QED
    BY <1>1, <2>1, <2>2, <2>3, OnlyStarted
<1>2. ASSUME NEW t \in Tasks, Expire(t) PROVE OtherThanE'
  <2>1. status \in [Tasks -> Status]
    BY DEF IInv, TypeOK
  <2> QED
    BY <1>2, <2>1, ProgramE DEF Expire, OtherThanE
<1>3. CASE Tick
  BY <1>3 DEF Tick, OtherThanE
<1> QED
  BY <1>1, <1>2, <1>3 DEF Next, OtherThanE

(* Only E's tasks make steps when task E runs, and they start each other.  *)
LEMMA OnlyESteps ==
  ASSUME IInv, OnlyE, Ceiling, NEW t \in Tasks, Step(t)
  PROVE  t \in TasksE /\ OnlyE'
<1>1. t \in TasksE
  BY StepperRuns DEF OnlyE
<1>2. ASSUME NEW u \in Tasks \ TasksE PROVE status'[u] \in {"dormant", "gone"}
  <2>1. u # t /\ status[u] \in {"dormant", "gone"}
    BY <1>1 DEF OnlyE
  <2>2. ~(Calling(t, "task_start") /\ u = Obj(t))
    <3> SUFFICES ASSUME Calling(t, "task_start") PROVE Obj(t) \in TasksE
      BY <1>2
    <3>1. pc[t] \in 1 .. Len(Prog[t]) /\ Prog[t][pc[t]].op = "task_start"
      BY CallerFacts DEF Calling
    <3>2. CASE t = "LOWE"
      BY <3>1, <3>2, ProgramE, LowCalls
         DEF rt_task_set_priority, rt_mutex_acquire, rt_mutex_release, busy_wait_us, Call
    <3>3. CASE t = "HIGHE"
      BY <3>1, <3>3, ProgramE, HighCalls
         DEF rt_task_set_priority, rt_mutex_acquire, rt_mutex_release, busy_wait_us,
             rt_task_sleep, Call
    <3>4. CASE t = "mainE"
      <4> DEFINE M == MainDE("HIGHE", "LOWE")
      <4>1. Prog[t] = M /\ Len(M) = 6 /\ TasksE = {"mainE", "HIGHE", "LOWE"}
        BY <3>4, ProgramE, MainCalls
      <4>2. pc[t] \in {1, 2, 3, 4, 5, 6}
        BY <3>1, <4>1
      <4>3. /\ M[1] = rt_task_start("HIGHE") /\ M[2] = rt_task_start("LOWE")
            /\ M[3].op # "task_start" /\ M[4].op # "task_start"
            /\ M[5].op # "task_start" /\ M[6].op # "task_start"
        BY MainCalls DEF rt_sem_broadcast, rt_task_sleep, pause, Call
      <4> HIDE DEF M
      <4> QED
        BY <3>1, <4>1, <4>2, <4>3
         DEF rt_task_start, rt_sem_broadcast, rt_task_sleep, pause, Call, Obj
    <3> QED
      BY <1>1, <3>2, <3>3, <3>4, ProgramE
  <2> QED
    BY <2>1, <2>2, OnlyStarted
<1> QED
  BY <1>1, <1>2 DEF OnlyE

(* What a call of one of the two tasks does when nobody waits.             *)
Plain(t) == pc' = [pc EXCEPT ![t] = pc[t] + 1] /\ on' = on /\ deleted' = deleted

(* icpp_lock on a free mutex.                                              *)
LEMMA LockOfE ==
  ASSUME IInv, Ceiling, NEW t \in WorkersE, NEW m \in MutexesDE,
         MutexAcquire(t), Obj(t) = m, owner[m] = None \/ owner[m] = t
  PROVE  /\ Plain(t) /\ owner' = [owner EXCEPT ![m] = t]
         /\ UNCHANGED <<status, left, bprio, kept>>
<1>1. /\ t \in Tasks /\ t # None /\ m \notin deleted
      /\ status \in [Tasks -> Status] /\ on \in [Tasks -> Objects \cup {None}]
      /\ pc \in [Tasks -> Nat]
  BY ProgramE DEF WorkersE, Ceiling, IInv, TypeOK
<1>2. cpu = t /\ status[t] = "ready" /\ on[t] = None
  BY <1>1, CallerFacts DEF MutexAcquire
<1>3. owner' = [owner EXCEPT ![m] = t] /\ Pass(t, {t}, m) /\ deleted' = deleted
  BY <1>1 DEF MutexAcquire
<1>4. status' = status /\ on' = on
  BY <1>1, <1>2, <1>3 DEF Pass
<1>5. pc' = [pc EXCEPT ![t] = pc[t] + 1]
  BY <1>1, <1>3 DEF Pass
<1> QED
  BY <1>3, <1>4, <1>5 DEF Pass, Plain

(* icpp_unlock when nobody waits for the mutex.                            *)
LEMMA UnlockOfE ==
  ASSUME IInv, Ceiling, NEW t \in WorkersE, NEW m \in MutexesDE,
         MutexRelease(t), Obj(t) = m
  PROVE  /\ Plain(t) /\ owner' = [owner EXCEPT ![m] = IF owner[m] = t THEN None ELSE @]
         /\ UNCHANGED <<status, left, bprio, kept>>
<1>1. /\ t \in Tasks /\ t # None /\ m \notin deleted
      /\ status \in [Tasks -> Status] /\ on \in [Tasks -> Objects \cup {None}]
      /\ pc \in [Tasks -> Nat] /\ owner \in [Mutexes -> Tasks \cup {None}]
      /\ m \in Mutexes /\ m # None
  <2>1. t \in TasksE /\ m \in Mutexes
    BY ProgramE DEF WorkersE
  <2>2. m # None
    BY <2>1, KernelAssumption DEF Objects
  <2>3. m \notin deleted
    BY DEF Ceiling
  <2> QED
    BY <2>1, <2>2, <2>3, ProgramE DEF IInv, TypeOK
<1>2. Waiters(m) = {}
  BY <1>1 DEF Ceiling, Waiters
<1>3. /\ Pass(t, {}, m) /\ deleted' = deleted
      /\ owner' = [owner EXCEPT ![m] = IF owner[m] = t THEN None ELSE @]
  BY <1>1, <1>2 DEF MutexRelease, Highest
<1>4. status' = status /\ on' = on
  BY <1>1, <1>3 DEF Pass
<1>5. pc' = [pc EXCEPT ![t] = pc[t] + 1]
  BY <1>1, <1>3 DEF Pass
<1> QED
  BY <1>3, <1>4, <1>5 DEF Pass, Plain

(* The effect of each call of one of the two tasks, and of its return.     *)
Sets(t, n) ==
  Plain(t) /\ bprio' = [bprio EXCEPT ![t] = n] /\ UNCHANGED <<status, left, owner>>
Locks(t, m) ==
  Plain(t) /\ owner' = [owner EXCEPT ![m] = t] /\ UNCHANGED <<status, left, bprio>>
Unlocks(t, m) ==
  /\ Plain(t) /\ owner' = [owner EXCEPT ![m] = IF owner[m] = t THEN None ELSE @]
  /\ UNCHANGED <<status, left, bprio>>
Spins(t, n) ==
  Plain(t) /\ left' = [left EXCEPT ![t] = n * Unit] /\ UNCHANGED <<status, bprio, owner, cpu>>
Sleeps(t, n) ==
  /\ Plain(t) /\ left' = [left EXCEPT ![t] = n * Unit]
  /\ status' = [status EXCEPT ![t] = "asleep"] /\ UNCHANGED <<bprio, owner>>
Returns(t) ==
  /\ status' = [status EXCEPT ![t] = "gone"]
  /\ UNCHANGED <<pc, on, deleted, left, bprio, owner>>

(* The steps of LOW.  No acquire finds its mutex with the other task.         *)
LowStep ==
  \/ pc["LOWE"] = 1 /\ Sets("LOWE", 40)
  \/ pc["LOWE"] = 2 /\ Locks("LOWE", "A")
  \/ pc["LOWE"] = 3 /\ Spins("LOWE", 3)
  \/ pc["LOWE"] = 4 /\ Locks("LOWE", "B")
  \/ pc["LOWE"] = 5 /\ Spins("LOWE", 3)
  \/ pc["LOWE"] = 6 /\ Unlocks("LOWE", "B")
  \/ pc["LOWE"] = 7 /\ Unlocks("LOWE", "A")
  \/ pc["LOWE"] = 8 /\ Sets("LOWE", 20)
  \/ pc["LOWE"] = 9 /\ Spins("LOWE", 1)
  \/ pc["LOWE"] = 10 /\ Returns("LOWE")

(* Every step of LOW is one of these.                                      *)
LEMMA StepOfLow ==
  ASSUME IInv, OnlyE, Ceiling, Step("LOWE")
  PROVE  cpu = "LOWE" /\ left["LOWE"] = 0 /\ kept' = kept /\ LowStep
<1> DEFINE t == "LOWE"
<1> DEFINE k == pc[t]
<1>1. /\ t \in Tasks /\ t \in WorkersE /\ t \notin Mains /\ Prog[t] = LowE /\ Len(LowE) = 9
      /\ "A" \in MutexesDE /\ "B" \in MutexesDE
  BY ProgramE, LowCalls DEF WorkersE
<1>2. /\ k \in 1 .. 10 /\ pc \in [Tasks -> Nat] /\ status \in [Tasks -> Status]
      /\ on \in [Tasks -> Objects \cup {None}]
  <2>1. TypeOK
    BY DEF IInv
  <2>2. pc[t] \in 1 .. Len(Prog[t]) + 1
    BY <1>1, <2>1 DEF TypeOK
  <2>3. k \in 1 .. 10
    BY <1>1, <2>2
  <2> QED
    BY <2>1, <2>3 DEF TypeOK
<1>3. cpu = t /\ left[t] = 0 /\ on[t] = None /\ status[t] = "ready"
  BY <1>1, StepperRuns
<1>4. kept' = kept
  BY <1>1 DEF Step, SemP, SemV, SemBroadcast, SemDelete, MutexDelete, Delete, MutexAcquire,
         MutexRelease, Sleep, Spin, SetPriority, TaskStart, TaskDelete, Pause, Return, Pass, Block
<1>5. CASE k = 10
  <2>1. Return(t)
    BY <1>1, <1>5 DEF Step, SemP, SemV, SemBroadcast, SemDelete, MutexDelete, Delete,
         MutexAcquire, MutexRelease, Sleep, Spin, SetPriority, TaskStart, TaskDelete, Pause,
         Calling
  <2>2. status' = [status EXCEPT ![t] = "gone"] /\ on' = on
    BY <1>1, <1>2, <2>1 DEF Return
  <2> QED
    BY <1>5, <2>1, <2>2 DEF LowStep, Returns, Return
<1>6. ASSUME k # 10, NEW op, op = LowE[k].op
      PROVE  /\ Calling(t, op)
             /\ Obj(t) = LowE[k].obj /\ Num(t) = LowE[k].n
             /\ op = "mutex_acquire" => MutexAcquire(t)
             /\ op = "mutex_release" => MutexRelease(t)
             /\ op = "sleep" => Sleep(t)
             /\ op = "spin" => Spin(t)
             /\ op = "set_priority" => SetPriority(t)
  <2>1. k <= 9 /\ k # 10
    BY <1>2, <1>6
  <2>2. op = Prog[t][pc[t]].op /\ pc[t] <= Len(Prog[t]) /\ pc[t] # Len(Prog[t]) + 1
    BY <1>1, <1>6, <2>1
  <2>3. /\ Calling(t, op)
        /\ op = "mutex_acquire" => MutexAcquire(t)
        /\ op = "mutex_release" => MutexRelease(t)
        /\ op = "sleep" => Sleep(t)
        /\ op = "spin" => Spin(t)
        /\ op = "set_priority" => SetPriority(t)
    BY <1>1, <2>2, TheCall
  <2> QED
    BY <1>1, <2>3 DEF Obj, Num
<1>7. ASSUME NEW m \in MutexesDE, MutexAcquire(t), Obj(t) = m,
             pc[t] \in {2, 4}
      PROVE  owner[m] = None \/ owner[m] = t
  <2>1. CASE owner[m] # None /\ owner[m] # t
    <3>1. owner[m] = "HIGHE" /\ Holds("HIGHE", m)
      BY <2>1 DEF Ceiling, WorkersE
    <3>2. Raised("HIGHE") /\ Raised("LOWE")
      BY <1>7, <3>1, ProgramE DEF Holds, Raised
    <3> QED
      BY <3>2 DEF Ceiling, WorkersE
  <2> QED
    BY <2>1
<1>8. CASE k = 1
  <2>1. SetPriority(t) /\ Num(t) = 40
    BY <1>6, <1>8, LowCalls DEF rt_task_set_priority, Call
  <2>3. Sets(t, 40)
    BY <2>1 DEF SetPriority, Sets, Plain, Advance
  <2> QED
    BY <1>3, <1>4, <1>8, <2>3 DEF LowStep
<1>9. CASE k = 2
  <2>1. MutexAcquire(t) /\ Obj(t) = "A"
    BY <1>6, <1>9, LowCalls DEF rt_mutex_acquire, Call
  <2>2. owner["A"] = None \/ owner["A"] = t
    BY <1>1, <1>7, <1>9, <2>1
  <2>3. Locks(t, "A")
    BY <1>1, <2>1, <2>2, LockOfE DEF Locks
  <2> QED
    BY <1>3, <1>4, <1>9, <2>3 DEF LowStep
<1>10. CASE k = 3
  <2>1. Spin(t) /\ Num(t) = 3
    BY <1>6, <1>10, LowCalls DEF busy_wait_us, Call
  <2>3. Spins(t, 3)
    BY <2>1 DEF Spin, Spins, Plain, Advance
  <2> QED
    BY <1>3, <1>4, <1>10, <2>3 DEF LowStep
<1>11. CASE k = 4
  <2>1. MutexAcquire(t) /\ Obj(t) = "B"
    BY <1>6, <1>11, LowCalls DEF rt_mutex_acquire, Call
  <2>2. owner["B"] = None \/ owner["B"] = t
    BY <1>1, <1>7, <1>11, <2>1
  <2>3. Locks(t, "B")
    BY <1>1, <2>1, <2>2, LockOfE DEF Locks
  <2> QED
    BY <1>3, <1>4, <1>11, <2>3 DEF LowStep
<1>12. CASE k = 5
  <2>1. Spin(t) /\ Num(t) = 3
    BY <1>6, <1>12, LowCalls DEF busy_wait_us, Call
  <2>3. Spins(t, 3)
    BY <2>1 DEF Spin, Spins, Plain, Advance
  <2> QED
    BY <1>3, <1>4, <1>12, <2>3 DEF LowStep
<1>13. CASE k = 6
  <2>1. MutexRelease(t) /\ Obj(t) = "B"
    BY <1>6, <1>13, LowCalls DEF rt_mutex_release, Call
  <2>3. Unlocks(t, "B")
    BY <1>1, <2>1, UnlockOfE DEF Unlocks
  <2> QED
    BY <1>3, <1>4, <1>13, <2>3 DEF LowStep
<1>14. CASE k = 7
  <2>1. MutexRelease(t) /\ Obj(t) = "A"
    BY <1>6, <1>14, LowCalls DEF rt_mutex_release, Call
  <2>3. Unlocks(t, "A")
    BY <1>1, <2>1, UnlockOfE DEF Unlocks
  <2> QED
    BY <1>3, <1>4, <1>14, <2>3 DEF LowStep
<1>15. CASE k = 8
  <2>1. SetPriority(t) /\ Num(t) = 20
    BY <1>6, <1>15, LowCalls DEF rt_task_set_priority, Call
  <2>3. Sets(t, 20)
    BY <2>1 DEF SetPriority, Sets, Plain, Advance
  <2> QED
    BY <1>3, <1>4, <1>15, <2>3 DEF LowStep
<1>16. CASE k = 9
  <2>1. Spin(t) /\ Num(t) = 1
    BY <1>6, <1>16, LowCalls DEF busy_wait_us, Call
  <2>3. Spins(t, 1)
    BY <2>1 DEF Spin, Spins, Plain, Advance
  <2> QED
    BY <1>3, <1>4, <1>16, <2>3 DEF LowStep
<1>17. k \in {1, 2, 3, 4, 5, 6, 7, 8, 9, 10}
  BY <1>2
<1> HIDE DEF k
<1> QED
  BY <1>3, <1>4, <1>5, <1>8, <1>9, <1>10, <1>11, <1>12, <1>13, <1>14, <1>15, <1>16, <1>17

(* The steps of HIGH.  No acquire finds its mutex with the other task.        *)
HighStep ==
  \/ pc["HIGHE"] = 1 /\ Sleeps("HIGHE", 1)
  \/ pc["HIGHE"] = 2 /\ Sets("HIGHE", 40)
  \/ pc["HIGHE"] = 3 /\ Locks("HIGHE", "B")
  \/ pc["HIGHE"] = 4 /\ Spins("HIGHE", 1)
  \/ pc["HIGHE"] = 5 /\ Locks("HIGHE", "A")
  \/ pc["HIGHE"] = 6 /\ Spins("HIGHE", 2)
  \/ pc["HIGHE"] = 7 /\ Unlocks("HIGHE", "A")
  \/ pc["HIGHE"] = 8 /\ Unlocks("HIGHE", "B")
  \/ pc["HIGHE"] = 9 /\ Sets("HIGHE", 30)
  \/ pc["HIGHE"] = 10 /\ Spins("HIGHE", 1)
  \/ pc["HIGHE"] = 11 /\ Returns("HIGHE")

(* Every step of HIGH is one of these.                                     *)
LEMMA StepOfHigh ==
  ASSUME IInv, OnlyE, Ceiling, Step("HIGHE")
  PROVE  cpu = "HIGHE" /\ left["HIGHE"] = 0 /\ kept' = kept /\ HighStep
<1> DEFINE t == "HIGHE"
<1> DEFINE k == pc[t]
<1>1. /\ t \in Tasks /\ t \in WorkersE /\ t \notin Mains /\ Prog[t] = HighE /\ Len(HighE) = 10
      /\ "A" \in MutexesDE /\ "B" \in MutexesDE
  BY ProgramE, HighCalls DEF WorkersE
<1>2. /\ k \in 1 .. 11 /\ pc \in [Tasks -> Nat] /\ status \in [Tasks -> Status]
      /\ on \in [Tasks -> Objects \cup {None}]
  <2>1. TypeOK
    BY DEF IInv
  <2>2. pc[t] \in 1 .. Len(Prog[t]) + 1
    BY <1>1, <2>1 DEF TypeOK
  <2>3. k \in 1 .. 11
    BY <1>1, <2>2
  <2> QED
    BY <2>1, <2>3 DEF TypeOK
<1>3. cpu = t /\ left[t] = 0 /\ on[t] = None /\ status[t] = "ready"
  BY <1>1, StepperRuns
<1>4. kept' = kept
  BY <1>1 DEF Step, SemP, SemV, SemBroadcast, SemDelete, MutexDelete, Delete, MutexAcquire,
         MutexRelease, Sleep, Spin, SetPriority, TaskStart, TaskDelete, Pause, Return, Pass, Block
<1>5. CASE k = 11
  <2>1. Return(t)
    BY <1>1, <1>5 DEF Step, SemP, SemV, SemBroadcast, SemDelete, MutexDelete, Delete,
         MutexAcquire, MutexRelease, Sleep, Spin, SetPriority, TaskStart, TaskDelete, Pause,
         Calling
  <2>2. status' = [status EXCEPT ![t] = "gone"] /\ on' = on
    BY <1>1, <1>2, <2>1 DEF Return
  <2> QED
    BY <1>5, <2>1, <2>2 DEF HighStep, Returns, Return
<1>6. ASSUME k # 11, NEW op, op = HighE[k].op
      PROVE  /\ Calling(t, op)
             /\ Obj(t) = HighE[k].obj /\ Num(t) = HighE[k].n
             /\ op = "mutex_acquire" => MutexAcquire(t)
             /\ op = "mutex_release" => MutexRelease(t)
             /\ op = "sleep" => Sleep(t)
             /\ op = "spin" => Spin(t)
             /\ op = "set_priority" => SetPriority(t)
  <2>1. k <= 10 /\ k # 11
    BY <1>2, <1>6
  <2>2. op = Prog[t][pc[t]].op /\ pc[t] <= Len(Prog[t]) /\ pc[t] # Len(Prog[t]) + 1
    BY <1>1, <1>6, <2>1
  <2>3. /\ Calling(t, op)
        /\ op = "mutex_acquire" => MutexAcquire(t)
        /\ op = "mutex_release" => MutexRelease(t)
        /\ op = "sleep" => Sleep(t)
        /\ op = "spin" => Spin(t)
        /\ op = "set_priority" => SetPriority(t)
    BY <1>1, <2>2, TheCall
  <2> QED
    BY <1>1, <2>3 DEF Obj, Num
<1>7. ASSUME NEW m \in MutexesDE, MutexAcquire(t), Obj(t) = m,
             pc[t] \in {3, 5}
      PROVE  owner[m] = None \/ owner[m] = t
  <2>1. CASE owner[m] # None /\ owner[m] # t
    <3>1. owner[m] = "LOWE" /\ Holds("LOWE", m)
      BY <2>1 DEF Ceiling, WorkersE
    <3>2. Raised("LOWE") /\ Raised("HIGHE")
      BY <1>7, <3>1, ProgramE DEF Holds, Raised
    <3> QED
      BY <3>2 DEF Ceiling, WorkersE
  <2> QED
    BY <2>1
<1>8. CASE k = 1
  <2>1. Sleep(t) /\ Num(t) = 1
    BY <1>6, <1>8, HighCalls DEF rt_task_sleep, Call
  <2>3. Sleeps(t, 1)
    BY <2>1 DEF Sleep, Sleeps, Plain, Advance
  <2> QED
    BY <1>3, <1>4, <1>8, <2>3 DEF HighStep
<1>9. CASE k = 2
  <2>1. SetPriority(t) /\ Num(t) = 40
    BY <1>6, <1>9, HighCalls DEF rt_task_set_priority, Call
  <2>3. Sets(t, 40)
    BY <2>1 DEF SetPriority, Sets, Plain, Advance
  <2> QED
    BY <1>3, <1>4, <1>9, <2>3 DEF HighStep
<1>10. CASE k = 3
  <2>1. MutexAcquire(t) /\ Obj(t) = "B"
    BY <1>6, <1>10, HighCalls DEF rt_mutex_acquire, Call
  <2>2. owner["B"] = None \/ owner["B"] = t
    BY <1>1, <1>7, <1>10, <2>1
  <2>3. Locks(t, "B")
    BY <1>1, <2>1, <2>2, LockOfE DEF Locks
  <2> QED
    BY <1>3, <1>4, <1>10, <2>3 DEF HighStep
<1>11. CASE k = 4
  <2>1. Spin(t) /\ Num(t) = 1
    BY <1>6, <1>11, HighCalls DEF busy_wait_us, Call
  <2>3. Spins(t, 1)
    BY <2>1 DEF Spin, Spins, Plain, Advance
  <2> QED
    BY <1>3, <1>4, <1>11, <2>3 DEF HighStep
<1>12. CASE k = 5
  <2>1. MutexAcquire(t) /\ Obj(t) = "A"
    BY <1>6, <1>12, HighCalls DEF rt_mutex_acquire, Call
  <2>2. owner["A"] = None \/ owner["A"] = t
    BY <1>1, <1>7, <1>12, <2>1
  <2>3. Locks(t, "A")
    BY <1>1, <2>1, <2>2, LockOfE DEF Locks
  <2> QED
    BY <1>3, <1>4, <1>12, <2>3 DEF HighStep
<1>13. CASE k = 6
  <2>1. Spin(t) /\ Num(t) = 2
    BY <1>6, <1>13, HighCalls DEF busy_wait_us, Call
  <2>3. Spins(t, 2)
    BY <2>1 DEF Spin, Spins, Plain, Advance
  <2> QED
    BY <1>3, <1>4, <1>13, <2>3 DEF HighStep
<1>14. CASE k = 7
  <2>1. MutexRelease(t) /\ Obj(t) = "A"
    BY <1>6, <1>14, HighCalls DEF rt_mutex_release, Call
  <2>3. Unlocks(t, "A")
    BY <1>1, <2>1, UnlockOfE DEF Unlocks
  <2> QED
    BY <1>3, <1>4, <1>14, <2>3 DEF HighStep
<1>15. CASE k = 8
  <2>1. MutexRelease(t) /\ Obj(t) = "B"
    BY <1>6, <1>15, HighCalls DEF rt_mutex_release, Call
  <2>3. Unlocks(t, "B")
    BY <1>1, <2>1, UnlockOfE DEF Unlocks
  <2> QED
    BY <1>3, <1>4, <1>15, <2>3 DEF HighStep
<1>16. CASE k = 9
  <2>1. SetPriority(t) /\ Num(t) = 30
    BY <1>6, <1>16, HighCalls DEF rt_task_set_priority, Call
  <2>3. Sets(t, 30)
    BY <2>1 DEF SetPriority, Sets, Plain, Advance
  <2> QED
    BY <1>3, <1>4, <1>16, <2>3 DEF HighStep
<1>17. CASE k = 10
  <2>1. Spin(t) /\ Num(t) = 1
    BY <1>6, <1>17, HighCalls DEF busy_wait_us, Call
  <2>3. Spins(t, 1)
    BY <2>1 DEF Spin, Spins, Plain, Advance
  <2> QED
    BY <1>3, <1>4, <1>17, <2>3 DEF HighStep
<1>18. k \in {1, 2, 3, 4, 5, 6, 7, 8, 9, 10, 11}
  BY <1>2
<1> HIDE DEF k
<1> QED
  BY <1>3, <1>4, <1>5, <1>8, <1>9, <1>10, <1>11, <1>12, <1>13, <1>14, <1>15, <1>16, <1>17, <1>18

(* The steps of main.                                                      *)
Starts(t, u) ==
  /\ Plain(t) /\ status' = [status EXCEPT ![u] = IF @ = "dormant" THEN "ready" ELSE @]
  /\ UNCHANGED <<left, bprio, owner>>
Pauses(t) ==
  /\ status' = [status EXCEPT ![t] = "paused"]
  /\ UNCHANGED <<pc, on, deleted, left, bprio, owner>>

MainStep ==
  \/ pc["mainE"] = 1 /\ Starts("mainE", "HIGHE")
  \/ pc["mainE"] = 2 /\ Starts("mainE", "LOWE")
  \/ pc["mainE"] = 3 /\ Sleeps("mainE", 1)
  \/ pc["mainE"] = 4 /\ Plain("mainE") /\ UNCHANGED <<status, left, bprio, owner>>
  \/ pc["mainE"] = 5 /\ Sleeps("mainE", 20)
  \/ pc["mainE"] = 6 /\ Pauses("mainE")

(* Every step of main is one of these.                                     *)
LEMMA StepOfMain ==
  ASSUME IInv, OnlyE, Ceiling, Step("mainE")
  PROVE  cpu = "mainE" /\ left["mainE"] = 0 /\ kept' = kept /\ MainStep
<1> DEFINE t == "mainE"
<1> DEFINE k == pc[t]
<1> DEFINE M == MainDE("HIGHE", "LOWE")
<1>1. t \in Tasks /\ Prog[t] = M /\ Len(M) = 6
  BY ProgramE, MainCalls
<1>2. /\ k \in 1 .. 6 /\ pc \in [Tasks -> Nat] /\ status \in [Tasks -> Status]
      /\ on \in [Tasks -> Objects \cup {None}]
  <2>1. TypeOK
    BY DEF IInv
  <2>2. pc[t] \in 1 .. Len(Prog[t]) + 1 /\ pc[t] <= 6
    BY <1>1, <2>1 DEF TypeOK, Ceiling
  <2>3. k \in 1 .. 6
    BY <1>1, <2>2
  <2> QED
    BY <2>1, <2>3 DEF TypeOK
<1>3. cpu = t /\ left[t] = 0 /\ on[t] = None /\ status[t] = "ready"
  BY <1>1, StepperRuns
<1>4. kept' = kept
  BY <1>1 DEF Step, SemP, SemV, SemBroadcast, SemDelete, MutexDelete, Delete, MutexAcquire,
         MutexRelease, Sleep, Spin, SetPriority, TaskStart, TaskDelete, Pause, Return, Pass, Block
<1>5. ASSUME NEW op, op = M[k].op
      PROVE  /\ Obj(t) = M[k].obj /\ Num(t) = M[k].n
             /\ op = "sem_broadcast" => SemBroadcast(t)
             /\ op = "sleep" => Sleep(t)
             /\ op = "task_start" => TaskStart(t)
             /\ op = "pause" => Pause(t)
  <2>1. k <= 6 /\ k # 6 + 1
    BY <1>2
  <2>2. op = Prog[t][pc[t]].op /\ pc[t] <= Len(Prog[t]) /\ pc[t] # Len(Prog[t]) + 1
    BY <1>1, <1>5, <2>1
  <2>3. /\ op = "sem_broadcast" => SemBroadcast(t)
        /\ op = "sleep" => Sleep(t)
        /\ op = "task_start" => TaskStart(t)
        /\ op = "pause" => Pause(t)
    BY <1>1, <2>2, TheCall
  <2> QED
    BY <1>1, <2>3 DEF Obj, Num
<1>6. /\ M[1] = rt_task_start("HIGHE") /\ M[2] = rt_task_start("LOWE")
      /\ M[3] = rt_task_sleep(1)       /\ M[4] = rt_sem_broadcast("semaDE")
      /\ M[5] = rt_task_sleep(20)      /\ M[6] = pause
  BY MainCalls
<1> HIDE DEF M
<1>7. ASSUME NEW u, TaskStart(t), Obj(t) = u PROVE Starts(t, u)
  BY <1>7 DEF TaskStart, Starts, Plain, Advance
<1>8. ASSUME NEW n, Sleep(t), Num(t) = n PROVE Sleeps(t, n)
  BY <1>8 DEF Sleep, Sleeps, Plain, Advance
<1>9. CASE k = 1
  <2>1. TaskStart(t) /\ Obj(t) = "HIGHE"
    BY <1>5, <1>6, <1>9 DEF rt_task_start, Call
  <2> QED
    BY <1>3, <1>4, <1>7, <1>9, <2>1 DEF MainStep
<1>10. CASE k = 2
  <2>1. TaskStart(t) /\ Obj(t) = "LOWE"
    BY <1>5, <1>6, <1>10 DEF rt_task_start, Call
  <2> QED
    BY <1>3, <1>4, <1>7, <1>10, <2>1 DEF MainStep
<1>11. CASE k = 3
  <2>1. Sleep(t) /\ Num(t) = 1
    BY <1>5, <1>6, <1>11 DEF rt_task_sleep, Call
  <2> QED
    BY <1>3, <1>4, <1>8, <1>11, <2>1 DEF MainStep
<1>12. CASE k = 4
  <2>1. SemBroadcast(t)
    BY <1>5, <1>6, <1>12 DEF rt_sem_broadcast, Call
  <2>2. Waiters(Obj(t)) = {}
    <3>1. Obj(t) # None
      BY <2>1, KernelAssumption DEF SemBroadcast, Objects
    <3> QED
      BY <3>1 DEF Ceiling, Waiters
  <2>3. Pass(t, {}, Obj(t)) /\ UNCHANGED <<owner, deleted>>
    BY <2>1, <2>2 DEF SemBroadcast
  <2>4. status' = status /\ on' = on
    BY <1>2, <2>3 DEF Pass
  <2>5. pc' = [pc EXCEPT ![t] = pc[t] + 1] /\ UNCHANGED <<left, bprio>>
    BY <1>2, <2>3 DEF Pass
  <2> QED
    BY <1>3, <1>4, <1>12, <2>3, <2>4, <2>5 DEF MainStep, Plain
<1>13. CASE k = 5
  <2>1. Sleep(t) /\ Num(t) = 20
    BY <1>5, <1>6, <1>13 DEF rt_task_sleep, Call
  <2> QED
    BY <1>3, <1>4, <1>8, <1>13, <2>1 DEF MainStep
<1>14. CASE k = 6
  <2>1. Pause(t)
    BY <1>5, <1>6, <1>14 DEF pause, Call
  <2> QED
    BY <1>3, <1>4, <1>14, <2>1 DEF MainStep, Pauses, Pause
<1>15. k \in {1, 2, 3, 4, 5, 6}
  BY <1>2
<1> HIDE DEF k
<1> QED
  BY <1>9, <1>10, <1>11, <1>12, <1>13, <1>14, <1>15

(* Nobody waits, so nobody inherits: the running task is the most urgent   *)
(* by the priorities the tasks have set.                                   *)
LEMMA RunsFirst ==
  ASSUME IInv, Ceiling, cpu \in Tasks, NEW u \in Tasks, status[u] = "ready"
  PROVE  bprio[u] <= bprio[cpu]
<1>1. \A x \in Tasks : Prios(x) = {bprio[x]}
  BY KernelAssumption DEF Ceiling, Prios, Objects
<1>2. u \in Ready /\ cpu \in Highest(Ready)
  BY DEF Ready, IInv, Scheduled
<1>3. AtLeast(cpu, u)
  BY <1>2 DEF Highest
<1> QED
  BY <1>1, <1>3 DEF AtLeast

(* A step of one of the two tasks keeps Ceiling if the task is all right   *)
(* after it and was right to raise itself.                                 *)
LEMMA OneKeepsCeiling ==
  ASSUME Ceiling, NEW t \in WorkersE,
         on' = on, deleted' = deleted, pc'["mainE"] = pc["mainE"],
         \A u \in WorkersE \ {t} :
           pc'[u] = pc[u] /\ status'[u] = status[u] /\ bprio'[u] = bprio[u],
         status'[t] # "waiting", Raised(t)' => status'[t] = "ready",
         bprio'[t] = IF Raised(t)' THEN 40 ELSE Priority[t],
         Raised(t)' => \A u \in WorkersE : Raised(u) => u = t,
         \A m \in MutexesDE : /\ owner'[m] \in {owner[m], t, None}
                              /\ owner'[m] = t => Holds(t, m)'
  PROVE  Ceiling'
<1>1. \A u \in WorkersE \ {t} : Raised(u)' = Raised(u)
  BY DEF Raised
<1>2. \A u \in WorkersE \ {t} : \A m \in MutexesDE : Holds(u, m)' = Holds(u, m)
  BY DEF Holds
<1>3. \A u \in Tasks : on'[u] = None
  BY DEF Ceiling
<1>4. ASSUME NEW u \in WorkersE
      PROVE  /\ status'[u] # "waiting" /\ (Raised(u)' => status'[u] = "ready")
             /\ bprio'[u] = IF Raised(u)' THEN 40 ELSE Priority[u]
  BY <1>1 DEF Ceiling
<1>5. ASSUME NEW u \in WorkersE, NEW v \in WorkersE, Raised(u)', Raised(v)' PROVE u = v
  BY <1>1, <1>5 DEF Ceiling
<1>6. ASSUME NEW m \in MutexesDE
      PROVE  /\ m \notin deleted' /\ owner'[m] \in WorkersE \cup {None}
             /\ \A u \in WorkersE : owner'[m] = u => Holds(u, m)'
  <2>1. m \notin deleted' /\ owner'[m] \in WorkersE \cup {None}
    BY DEF Ceiling
  <2>2. ASSUME NEW u \in WorkersE, owner'[m] = u PROVE Holds(u, m)'
    <3>1. CASE u = t
      BY <2>2, <3>1
    <3>2. CASE u # t
      <4>1. u # None
        BY ProgramE DEF WorkersE
      <4>2. owner[m] = u
        BY <2>2, <3>2, <4>1
      <4> QED
        BY <1>2, <3>2, <4>2 DEF Ceiling
    <3> QED
      BY <3>1, <3>2
  <2> QED
    BY <2>1, <2>2
<1> QED
  BY <1>3, <1>4, <1>5, <1>6 DEF Ceiling

(* LOW's steps keep Ceiling.                                               *)
LEMMA LowKeepsCeiling ==
  ASSUME IInv, OnlyE, Ceiling, Step("LOWE") PROVE Ceiling'
<1> DEFINE t == "LOWE"
<1> DEFINE u == "HIGHE"
<1>1. /\ pc \in [Tasks -> Nat] /\ status \in [Tasks -> Status] /\ bprio \in [Tasks -> Nat]
      /\ owner \in [Mutexes -> Tasks \cup {None}] /\ left \in [Tasks -> Int]
  BY DEF IInv, TypeOK
<1>2. /\ t \in Tasks /\ u \in Tasks /\ "mainE" \in Tasks /\ t # u /\ t # "mainE"
      /\ WorkersE = {t, u} /\ MutexesDE = {"A", "B"} /\ {"A", "B"} \subseteq Mutexes
      /\ t # None /\ Priority["HIGHE"] = 30 /\ Priority["LOWE"] = 20
  BY ProgramE DEF WorkersE
<1>3. cpu = t /\ status[t] = "ready" /\ LowStep
  BY <1>2, StepOfLow, StepperRuns
<1>4. /\ Raised(u) => bprio[u] = 40 /\ status[u] = "ready"
      /\ bprio[t] = IF Raised(t) THEN 40 ELSE Priority[t]
      /\ Raised(t) => ~Raised(u)
      /\ \A m \in {"A", "B"} : owner[m] = t => Holds(t, m)
  BY <1>2 DEF Ceiling
<1>5. ~Raised(t) => ~Raised(u)
  BY <1>1, <1>2, <1>3, <1>4, RunsFirst
<1>6. \A x \in WorkersE : Raised(x) => x = t
  BY <1>2, <1>4, <1>5
<1>7. ASSUME Plain(t), NEW k \in Nat, pc[t] = k
      PROVE  /\ pc'[t] = k + 1 /\ pc'[u] = pc[u] /\ pc'["mainE"] = pc["mainE"]
             /\ on' = on /\ deleted' = deleted
  BY <1>1, <1>2, <1>7 DEF Plain
<1>8. CASE pc[t] = 1 /\ Sets(t, 40)
  <2>1. /\ pc'[t] = 2 /\ pc'[u] = pc[u] /\ pc'["mainE"] = pc["mainE"]
        /\ on' = on /\ deleted' = deleted
    BY <1>7, <1>8 DEF Sets
  <2>2. status'[t] = "ready" /\ status'[u] = status[u]
    BY <1>3, <1>8 DEF Sets
  <2>3. bprio'[t] = 40 /\ bprio'[u] = bprio[u] /\ owner' = owner
    BY <1>1, <1>2, <1>8 DEF Sets
  <2>5. bprio'[t] = (IF Raised(t)' THEN 40 ELSE Priority[t]) /\ (Raised(t)' => status'[t] = "ready")
    BY <1>2, <1>8, <2>1, <2>2, <2>3 DEF Raised
  <2>6. \A m \in {"A", "B"} : /\ owner'[m] \in {owner[m], t, None}
                              /\ owner'[m] = t => Holds(t, m)'
    BY <1>2, <1>4, <1>8, <2>1, <2>3 DEF Holds
  <2> QED
    BY <1>2, <1>6, <2>1, <2>2, <2>3, <2>5, <2>6, OneKeepsCeiling
<1>9. CASE pc[t] = 2 /\ Locks(t, "A")
  <2>1. /\ pc'[t] = 3 /\ pc'[u] = pc[u] /\ pc'["mainE"] = pc["mainE"]
        /\ on' = on /\ deleted' = deleted
    BY <1>7, <1>9 DEF Locks
  <2>2. status'[t] = "ready" /\ status'[u] = status[u]
    BY <1>3, <1>9 DEF Locks
  <2>3. bprio' = bprio /\ bprio[t] = IF Raised(t) THEN 40 ELSE Priority[t]
    BY <1>4, <1>9 DEF Locks
  <2>4. \A m \in {"A", "B"} : owner'[m] = IF m = "A" THEN t ELSE owner[m]
    BY <1>1, <1>2, <1>9 DEF Locks
  <2>5. bprio'[t] = (IF Raised(t)' THEN 40 ELSE Priority[t]) /\ (Raised(t)' => status'[t] = "ready")
    BY <1>2, <1>9, <2>1, <2>2, <2>3 DEF Raised
  <2>6. \A m \in {"A", "B"} : /\ owner'[m] \in {owner[m], t, None}
                              /\ owner'[m] = t => Holds(t, m)'
    BY <1>2, <1>4, <1>9, <2>1, <2>3, <2>4 DEF Holds
  <2> QED
    BY <1>2, <1>6, <2>1, <2>2, <2>3, <2>5, <2>6, OneKeepsCeiling
<1>10. CASE pc[t] = 3 /\ Spins(t, 3)
  <2>1. /\ pc'[t] = 4 /\ pc'[u] = pc[u] /\ pc'["mainE"] = pc["mainE"]
        /\ on' = on /\ deleted' = deleted
    BY <1>7, <1>10 DEF Spins
  <2>2. status'[t] = "ready" /\ status'[u] = status[u]
    BY <1>3, <1>10 DEF Spins
  <2>3. bprio' = bprio /\ owner' = owner /\ bprio[t] = IF Raised(t) THEN 40 ELSE Priority[t]
    BY <1>4, <1>10 DEF Spins
  <2>5. bprio'[t] = (IF Raised(t)' THEN 40 ELSE Priority[t]) /\ (Raised(t)' => status'[t] = "ready")
    BY <1>2, <1>10, <2>1, <2>2, <2>3 DEF Raised
  <2>6. \A m \in {"A", "B"} : /\ owner'[m] \in {owner[m], t, None}
                              /\ owner'[m] = t => Holds(t, m)'
    BY <1>2, <1>4, <1>10, <2>1, <2>3 DEF Holds
  <2> QED
    BY <1>2, <1>6, <2>1, <2>2, <2>3, <2>5, <2>6, OneKeepsCeiling
<1>11. CASE pc[t] = 4 /\ Locks(t, "B")
  <2>1. /\ pc'[t] = 5 /\ pc'[u] = pc[u] /\ pc'["mainE"] = pc["mainE"]
        /\ on' = on /\ deleted' = deleted
    BY <1>7, <1>11 DEF Locks
  <2>2. status'[t] = "ready" /\ status'[u] = status[u]
    BY <1>3, <1>11 DEF Locks
  <2>3. bprio' = bprio /\ bprio[t] = IF Raised(t) THEN 40 ELSE Priority[t]
    BY <1>4, <1>11 DEF Locks
  <2>4. \A m \in {"A", "B"} : owner'[m] = IF m = "B" THEN t ELSE owner[m]
    BY <1>1, <1>2, <1>11 DEF Locks
  <2>5. bprio'[t] = (IF Raised(t)' THEN 40 ELSE Priority[t]) /\ (Raised(t)' => status'[t] = "ready")
    BY <1>2, <1>11, <2>1, <2>2, <2>3 DEF Raised
  <2>6. \A m \in {"A", "B"} : /\ owner'[m] \in {owner[m], t, None}
                              /\ owner'[m] = t => Holds(t, m)'
    BY <1>2, <1>4, <1>11, <2>1, <2>3, <2>4 DEF Holds
  <2> QED
    BY <1>2, <1>6, <2>1, <2>2, <2>3, <2>5, <2>6, OneKeepsCeiling
<1>12. CASE pc[t] = 5 /\ Spins(t, 3)
  <2>1. /\ pc'[t] = 6 /\ pc'[u] = pc[u] /\ pc'["mainE"] = pc["mainE"]
        /\ on' = on /\ deleted' = deleted
    BY <1>7, <1>12 DEF Spins
  <2>2. status'[t] = "ready" /\ status'[u] = status[u]
    BY <1>3, <1>12 DEF Spins
  <2>3. bprio' = bprio /\ owner' = owner /\ bprio[t] = IF Raised(t) THEN 40 ELSE Priority[t]
    BY <1>4, <1>12 DEF Spins
  <2>5. bprio'[t] = (IF Raised(t)' THEN 40 ELSE Priority[t]) /\ (Raised(t)' => status'[t] = "ready")
    BY <1>2, <1>12, <2>1, <2>2, <2>3 DEF Raised
  <2>6. \A m \in {"A", "B"} : /\ owner'[m] \in {owner[m], t, None}
                              /\ owner'[m] = t => Holds(t, m)'
    BY <1>2, <1>4, <1>12, <2>1, <2>3 DEF Holds
  <2> QED
    BY <1>2, <1>6, <2>1, <2>2, <2>3, <2>5, <2>6, OneKeepsCeiling
<1>13. CASE pc[t] = 6 /\ Unlocks(t, "B")
  <2>1. /\ pc'[t] = 7 /\ pc'[u] = pc[u] /\ pc'["mainE"] = pc["mainE"]
        /\ on' = on /\ deleted' = deleted
    BY <1>7, <1>13 DEF Unlocks
  <2>2. status'[t] = "ready" /\ status'[u] = status[u]
    BY <1>3, <1>13 DEF Unlocks
  <2>3. bprio' = bprio /\ bprio[t] = IF Raised(t) THEN 40 ELSE Priority[t]
    BY <1>4, <1>13 DEF Unlocks
  <2>4. \A m \in {"A", "B"} :
          owner'[m] = IF m = "B" /\ owner[m] = t THEN None ELSE owner[m]
    BY <1>1, <1>2, <1>13 DEF Unlocks
  <2>5. bprio'[t] = (IF Raised(t)' THEN 40 ELSE Priority[t]) /\ (Raised(t)' => status'[t] = "ready")
    BY <1>2, <1>13, <2>1, <2>2, <2>3 DEF Raised
  <2>6. \A m \in {"A", "B"} : /\ owner'[m] \in {owner[m], t, None}
                              /\ owner'[m] = t => Holds(t, m)'
    BY <1>2, <1>4, <1>13, <2>1, <2>3, <2>4 DEF Holds
  <2> QED
    BY <1>2, <1>6, <2>1, <2>2, <2>3, <2>5, <2>6, OneKeepsCeiling
<1>14. CASE pc[t] = 7 /\ Unlocks(t, "A")
  <2>1. /\ pc'[t] = 8 /\ pc'[u] = pc[u] /\ pc'["mainE"] = pc["mainE"]
        /\ on' = on /\ deleted' = deleted
    BY <1>7, <1>14 DEF Unlocks
  <2>2. status'[t] = "ready" /\ status'[u] = status[u]
    BY <1>3, <1>14 DEF Unlocks
  <2>3. bprio' = bprio /\ bprio[t] = IF Raised(t) THEN 40 ELSE Priority[t]
    BY <1>4, <1>14 DEF Unlocks
  <2>4. \A m \in {"A", "B"} :
          owner'[m] = IF m = "A" /\ owner[m] = t THEN None ELSE owner[m]
    BY <1>1, <1>2, <1>14 DEF Unlocks
  <2>5. bprio'[t] = (IF Raised(t)' THEN 40 ELSE Priority[t]) /\ (Raised(t)' => status'[t] = "ready")
    BY <1>2, <1>14, <2>1, <2>2, <2>3 DEF Raised
  <2>6. \A m \in {"A", "B"} : /\ owner'[m] \in {owner[m], t, None}
                              /\ owner'[m] = t => Holds(t, m)'
    BY <1>2, <1>4, <1>14, <2>1, <2>3, <2>4 DEF Holds
  <2> QED
    BY <1>2, <1>6, <2>1, <2>2, <2>3, <2>5, <2>6, OneKeepsCeiling
<1>15. CASE pc[t] = 8 /\ Sets(t, 20)
  <2>1. /\ pc'[t] = 9 /\ pc'[u] = pc[u] /\ pc'["mainE"] = pc["mainE"]
        /\ on' = on /\ deleted' = deleted
    BY <1>7, <1>15 DEF Sets
  <2>2. status'[t] = "ready" /\ status'[u] = status[u]
    BY <1>3, <1>15 DEF Sets
  <2>3. bprio'[t] = 20 /\ bprio'[u] = bprio[u] /\ owner' = owner
    BY <1>1, <1>2, <1>15 DEF Sets
  <2>5. bprio'[t] = (IF Raised(t)' THEN 40 ELSE Priority[t]) /\ (Raised(t)' => status'[t] = "ready")
    BY <1>2, <1>15, <2>1, <2>2, <2>3 DEF Raised
  <2>6. \A m \in {"A", "B"} : /\ owner'[m] \in {owner[m], t, None}
                              /\ owner'[m] = t => Holds(t, m)'
    BY <1>2, <1>4, <1>15, <2>1, <2>3 DEF Holds
  <2> QED
    BY <1>2, <1>6, <2>1, <2>2, <2>3, <2>5, <2>6, OneKeepsCeiling
<1>16. CASE pc[t] = 9 /\ Spins(t, 1)
  <2>1. /\ pc'[t] = 10 /\ pc'[u] = pc[u] /\ pc'["mainE"] = pc["mainE"]
        /\ on' = on /\ deleted' = deleted
    BY <1>7, <1>16 DEF Spins
  <2>2. status'[t] = "ready" /\ status'[u] = status[u]
    BY <1>3, <1>16 DEF Spins
  <2>3. bprio' = bprio /\ owner' = owner /\ bprio[t] = IF Raised(t) THEN 40 ELSE Priority[t]
    BY <1>4, <1>16 DEF Spins
  <2>5. bprio'[t] = (IF Raised(t)' THEN 40 ELSE Priority[t]) /\ (Raised(t)' => status'[t] = "ready")
    BY <1>2, <1>16, <2>1, <2>2, <2>3 DEF Raised
  <2>6. \A m \in {"A", "B"} : /\ owner'[m] \in {owner[m], t, None}
                              /\ owner'[m] = t => Holds(t, m)'
    BY <1>2, <1>4, <1>16, <2>1, <2>3 DEF Holds
  <2> QED
    BY <1>2, <1>6, <2>1, <2>2, <2>3, <2>5, <2>6, OneKeepsCeiling
<1>17. CASE pc[t] = 10 /\ Returns(t)
  <2>1. pc' = pc /\ on' = on /\ deleted' = deleted /\ bprio' = bprio /\ owner' = owner
    BY <1>17 DEF Returns
  <2>2. status'[t] = "gone" /\ status'[u] = status[u]
    BY <1>1, <1>2, <1>17 DEF Returns
  <2>3. ~Raised(t)' /\ ~Raised(t)
    BY <1>17, <2>1 DEF Raised
  <2>4. \A m \in {"A", "B"} : owner'[m] = t => Holds(t, m)'
    BY <1>4, <2>1 DEF Holds
  <2> QED
    BY <1>2, <1>4, <1>6, <2>1, <2>2, <2>3, <2>4, OneKeepsCeiling
<1> QED
  BY <1>3, <1>8, <1>9, <1>10, <1>11, <1>12, <1>13, <1>14, <1>15, <1>16, <1>17 DEF LowStep

(* HIGH's steps keep it.                                                   *)
LEMMA HighKeepsCeiling ==
  ASSUME IInv, OnlyE, Ceiling, Step("HIGHE") PROVE Ceiling'
<1> DEFINE t == "HIGHE"
<1> DEFINE u == "LOWE"
<1>1. /\ pc \in [Tasks -> Nat] /\ status \in [Tasks -> Status] /\ bprio \in [Tasks -> Nat]
      /\ owner \in [Mutexes -> Tasks \cup {None}] /\ left \in [Tasks -> Int]
  BY DEF IInv, TypeOK
<1>2. /\ t \in Tasks /\ u \in Tasks /\ "mainE" \in Tasks /\ t # u /\ t # "mainE"
      /\ WorkersE = {t, u} /\ MutexesDE = {"A", "B"} /\ {"A", "B"} \subseteq Mutexes
      /\ t # None /\ Priority["HIGHE"] = 30 /\ Priority["LOWE"] = 20
  BY ProgramE DEF WorkersE
<1>3. cpu = t /\ status[t] = "ready" /\ HighStep
  BY <1>2, StepOfHigh, StepperRuns
<1>4. /\ Raised(u) => bprio[u] = 40 /\ status[u] = "ready"
      /\ bprio[t] = IF Raised(t) THEN 40 ELSE Priority[t]
      /\ Raised(t) => ~Raised(u)
      /\ \A m \in {"A", "B"} : owner[m] = t => Holds(t, m)
  BY <1>2 DEF Ceiling
<1>5. ~Raised(t) => ~Raised(u)
  BY <1>1, <1>2, <1>3, <1>4, RunsFirst
<1>6. \A x \in WorkersE : Raised(x) => x = t
  BY <1>2, <1>4, <1>5
<1>7. ASSUME Plain(t), NEW k \in Nat, pc[t] = k
      PROVE  /\ pc'[t] = k + 1 /\ pc'[u] = pc[u] /\ pc'["mainE"] = pc["mainE"]
             /\ on' = on /\ deleted' = deleted
  BY <1>1, <1>2, <1>7 DEF Plain
<1>8. CASE pc[t] = 1 /\ Sleeps(t, 1)
  <2>1. /\ pc'[t] = 2 /\ pc'[u] = pc[u] /\ pc'["mainE"] = pc["mainE"]
        /\ on' = on /\ deleted' = deleted
    BY <1>7, <1>8 DEF Sleeps
  <2>2. status'[t] = "asleep" /\ status'[u] = status[u]
    BY <1>1, <1>2, <1>8 DEF Sleeps
  <2>3. bprio' = bprio /\ owner' = owner /\ bprio[t] = IF Raised(t) THEN 40 ELSE Priority[t]
    BY <1>4, <1>8 DEF Sleeps
  <2>5. bprio'[t] = (IF Raised(t)' THEN 40 ELSE Priority[t]) /\ (Raised(t)' => status'[t] = "ready")
    BY <1>2, <1>8, <2>1, <2>2, <2>3 DEF Raised
  <2>6. \A m \in {"A", "B"} : /\ owner'[m] \in {owner[m], t, None}
                              /\ owner'[m] = t => Holds(t, m)'
    BY <1>2, <1>4, <1>8, <2>1, <2>3 DEF Holds
  <2> QED
    BY <1>2, <1>6, <2>1, <2>2, <2>3, <2>5, <2>6, OneKeepsCeiling
<1>9. CASE pc[t] = 2 /\ Sets(t, 40)
  <2>1. /\ pc'[t] = 3 /\ pc'[u] = pc[u] /\ pc'["mainE"] = pc["mainE"]
        /\ on' = on /\ deleted' = deleted
    BY <1>7, <1>9 DEF Sets
  <2>2. status'[t] = "ready" /\ status'[u] = status[u]
    BY <1>3, <1>9 DEF Sets
  <2>3. bprio'[t] = 40 /\ bprio'[u] = bprio[u] /\ owner' = owner
    BY <1>1, <1>2, <1>9 DEF Sets
  <2>5. bprio'[t] = (IF Raised(t)' THEN 40 ELSE Priority[t]) /\ (Raised(t)' => status'[t] = "ready")
    BY <1>2, <1>9, <2>1, <2>2, <2>3 DEF Raised
  <2>6. \A m \in {"A", "B"} : /\ owner'[m] \in {owner[m], t, None}
                              /\ owner'[m] = t => Holds(t, m)'
    BY <1>2, <1>4, <1>9, <2>1, <2>3 DEF Holds
  <2> QED
    BY <1>2, <1>6, <2>1, <2>2, <2>3, <2>5, <2>6, OneKeepsCeiling
<1>10. CASE pc[t] = 3 /\ Locks(t, "B")
  <2>1. /\ pc'[t] = 4 /\ pc'[u] = pc[u] /\ pc'["mainE"] = pc["mainE"]
        /\ on' = on /\ deleted' = deleted
    BY <1>7, <1>10 DEF Locks
  <2>2. status'[t] = "ready" /\ status'[u] = status[u]
    BY <1>3, <1>10 DEF Locks
  <2>3. bprio' = bprio /\ bprio[t] = IF Raised(t) THEN 40 ELSE Priority[t]
    BY <1>4, <1>10 DEF Locks
  <2>4. \A m \in {"A", "B"} : owner'[m] = IF m = "B" THEN t ELSE owner[m]
    BY <1>1, <1>2, <1>10 DEF Locks
  <2>5. bprio'[t] = (IF Raised(t)' THEN 40 ELSE Priority[t]) /\ (Raised(t)' => status'[t] = "ready")
    BY <1>2, <1>10, <2>1, <2>2, <2>3 DEF Raised
  <2>6. \A m \in {"A", "B"} : /\ owner'[m] \in {owner[m], t, None}
                              /\ owner'[m] = t => Holds(t, m)'
    BY <1>2, <1>4, <1>10, <2>1, <2>3, <2>4 DEF Holds
  <2> QED
    BY <1>2, <1>6, <2>1, <2>2, <2>3, <2>5, <2>6, OneKeepsCeiling
<1>11. CASE pc[t] = 4 /\ Spins(t, 1)
  <2>1. /\ pc'[t] = 5 /\ pc'[u] = pc[u] /\ pc'["mainE"] = pc["mainE"]
        /\ on' = on /\ deleted' = deleted
    BY <1>7, <1>11 DEF Spins
  <2>2. status'[t] = "ready" /\ status'[u] = status[u]
    BY <1>3, <1>11 DEF Spins
  <2>3. bprio' = bprio /\ owner' = owner /\ bprio[t] = IF Raised(t) THEN 40 ELSE Priority[t]
    BY <1>4, <1>11 DEF Spins
  <2>5. bprio'[t] = (IF Raised(t)' THEN 40 ELSE Priority[t]) /\ (Raised(t)' => status'[t] = "ready")
    BY <1>2, <1>11, <2>1, <2>2, <2>3 DEF Raised
  <2>6. \A m \in {"A", "B"} : /\ owner'[m] \in {owner[m], t, None}
                              /\ owner'[m] = t => Holds(t, m)'
    BY <1>2, <1>4, <1>11, <2>1, <2>3 DEF Holds
  <2> QED
    BY <1>2, <1>6, <2>1, <2>2, <2>3, <2>5, <2>6, OneKeepsCeiling
<1>12. CASE pc[t] = 5 /\ Locks(t, "A")
  <2>1. /\ pc'[t] = 6 /\ pc'[u] = pc[u] /\ pc'["mainE"] = pc["mainE"]
        /\ on' = on /\ deleted' = deleted
    BY <1>7, <1>12 DEF Locks
  <2>2. status'[t] = "ready" /\ status'[u] = status[u]
    BY <1>3, <1>12 DEF Locks
  <2>3. bprio' = bprio /\ bprio[t] = IF Raised(t) THEN 40 ELSE Priority[t]
    BY <1>4, <1>12 DEF Locks
  <2>4. \A m \in {"A", "B"} : owner'[m] = IF m = "A" THEN t ELSE owner[m]
    BY <1>1, <1>2, <1>12 DEF Locks
  <2>5. bprio'[t] = (IF Raised(t)' THEN 40 ELSE Priority[t]) /\ (Raised(t)' => status'[t] = "ready")
    BY <1>2, <1>12, <2>1, <2>2, <2>3 DEF Raised
  <2>6. \A m \in {"A", "B"} : /\ owner'[m] \in {owner[m], t, None}
                              /\ owner'[m] = t => Holds(t, m)'
    BY <1>2, <1>4, <1>12, <2>1, <2>3, <2>4 DEF Holds
  <2> QED
    BY <1>2, <1>6, <2>1, <2>2, <2>3, <2>5, <2>6, OneKeepsCeiling
<1>13. CASE pc[t] = 6 /\ Spins(t, 2)
  <2>1. /\ pc'[t] = 7 /\ pc'[u] = pc[u] /\ pc'["mainE"] = pc["mainE"]
        /\ on' = on /\ deleted' = deleted
    BY <1>7, <1>13 DEF Spins
  <2>2. status'[t] = "ready" /\ status'[u] = status[u]
    BY <1>3, <1>13 DEF Spins
  <2>3. bprio' = bprio /\ owner' = owner /\ bprio[t] = IF Raised(t) THEN 40 ELSE Priority[t]
    BY <1>4, <1>13 DEF Spins
  <2>5. bprio'[t] = (IF Raised(t)' THEN 40 ELSE Priority[t]) /\ (Raised(t)' => status'[t] = "ready")
    BY <1>2, <1>13, <2>1, <2>2, <2>3 DEF Raised
  <2>6. \A m \in {"A", "B"} : /\ owner'[m] \in {owner[m], t, None}
                              /\ owner'[m] = t => Holds(t, m)'
    BY <1>2, <1>4, <1>13, <2>1, <2>3 DEF Holds
  <2> QED
    BY <1>2, <1>6, <2>1, <2>2, <2>3, <2>5, <2>6, OneKeepsCeiling
<1>14. CASE pc[t] = 7 /\ Unlocks(t, "A")
  <2>1. /\ pc'[t] = 8 /\ pc'[u] = pc[u] /\ pc'["mainE"] = pc["mainE"]
        /\ on' = on /\ deleted' = deleted
    BY <1>7, <1>14 DEF Unlocks
  <2>2. status'[t] = "ready" /\ status'[u] = status[u]
    BY <1>3, <1>14 DEF Unlocks
  <2>3. bprio' = bprio /\ bprio[t] = IF Raised(t) THEN 40 ELSE Priority[t]
    BY <1>4, <1>14 DEF Unlocks
  <2>4. \A m \in {"A", "B"} :
          owner'[m] = IF m = "A" /\ owner[m] = t THEN None ELSE owner[m]
    BY <1>1, <1>2, <1>14 DEF Unlocks
  <2>5. bprio'[t] = (IF Raised(t)' THEN 40 ELSE Priority[t]) /\ (Raised(t)' => status'[t] = "ready")
    BY <1>2, <1>14, <2>1, <2>2, <2>3 DEF Raised
  <2>6. \A m \in {"A", "B"} : /\ owner'[m] \in {owner[m], t, None}
                              /\ owner'[m] = t => Holds(t, m)'
    BY <1>2, <1>4, <1>14, <2>1, <2>3, <2>4 DEF Holds
  <2> QED
    BY <1>2, <1>6, <2>1, <2>2, <2>3, <2>5, <2>6, OneKeepsCeiling
<1>15. CASE pc[t] = 8 /\ Unlocks(t, "B")
  <2>1. /\ pc'[t] = 9 /\ pc'[u] = pc[u] /\ pc'["mainE"] = pc["mainE"]
        /\ on' = on /\ deleted' = deleted
    BY <1>7, <1>15 DEF Unlocks
  <2>2. status'[t] = "ready" /\ status'[u] = status[u]
    BY <1>3, <1>15 DEF Unlocks
  <2>3. bprio' = bprio /\ bprio[t] = IF Raised(t) THEN 40 ELSE Priority[t]
    BY <1>4, <1>15 DEF Unlocks
  <2>4. \A m \in {"A", "B"} :
          owner'[m] = IF m = "B" /\ owner[m] = t THEN None ELSE owner[m]
    BY <1>1, <1>2, <1>15 DEF Unlocks
  <2>5. bprio'[t] = (IF Raised(t)' THEN 40 ELSE Priority[t]) /\ (Raised(t)' => status'[t] = "ready")
    BY <1>2, <1>15, <2>1, <2>2, <2>3 DEF Raised
  <2>6. \A m \in {"A", "B"} : /\ owner'[m] \in {owner[m], t, None}
                              /\ owner'[m] = t => Holds(t, m)'
    BY <1>2, <1>4, <1>15, <2>1, <2>3, <2>4 DEF Holds
  <2> QED
    BY <1>2, <1>6, <2>1, <2>2, <2>3, <2>5, <2>6, OneKeepsCeiling
<1>16. CASE pc[t] = 9 /\ Sets(t, 30)
  <2>1. /\ pc'[t] = 10 /\ pc'[u] = pc[u] /\ pc'["mainE"] = pc["mainE"]
        /\ on' = on /\ deleted' = deleted
    BY <1>7, <1>16 DEF Sets
  <2>2. status'[t] = "ready" /\ status'[u] = status[u]
    BY <1>3, <1>16 DEF Sets
  <2>3. bprio'[t] = 30 /\ bprio'[u] = bprio[u] /\ owner' = owner
    BY <1>1, <1>2, <1>16 DEF Sets
  <2>5. bprio'[t] = (IF Raised(t)' THEN 40 ELSE Priority[t]) /\ (Raised(t)' => status'[t] = "ready")
    BY <1>2, <1>16, <2>1, <2>2, <2>3 DEF Raised
  <2>6. \A m \in {"A", "B"} : /\ owner'[m] \in {owner[m], t, None}
                              /\ owner'[m] = t => Holds(t, m)'
    BY <1>2, <1>4, <1>16, <2>1, <2>3 DEF Holds
  <2> QED
    BY <1>2, <1>6, <2>1, <2>2, <2>3, <2>5, <2>6, OneKeepsCeiling
<1>17. CASE pc[t] = 10 /\ Spins(t, 1)
  <2>1. /\ pc'[t] = 11 /\ pc'[u] = pc[u] /\ pc'["mainE"] = pc["mainE"]
        /\ on' = on /\ deleted' = deleted
    BY <1>7, <1>17 DEF Spins
  <2>2. status'[t] = "ready" /\ status'[u] = status[u]
    BY <1>3, <1>17 DEF Spins
  <2>3. bprio' = bprio /\ owner' = owner /\ bprio[t] = IF Raised(t) THEN 40 ELSE Priority[t]
    BY <1>4, <1>17 DEF Spins
  <2>5. bprio'[t] = (IF Raised(t)' THEN 40 ELSE Priority[t]) /\ (Raised(t)' => status'[t] = "ready")
    BY <1>2, <1>17, <2>1, <2>2, <2>3 DEF Raised
  <2>6. \A m \in {"A", "B"} : /\ owner'[m] \in {owner[m], t, None}
                              /\ owner'[m] = t => Holds(t, m)'
    BY <1>2, <1>4, <1>17, <2>1, <2>3 DEF Holds
  <2> QED
    BY <1>2, <1>6, <2>1, <2>2, <2>3, <2>5, <2>6, OneKeepsCeiling
<1>18. CASE pc[t] = 11 /\ Returns(t)
  <2>1. pc' = pc /\ on' = on /\ deleted' = deleted /\ bprio' = bprio /\ owner' = owner
    BY <1>18 DEF Returns
  <2>2. status'[t] = "gone" /\ status'[u] = status[u]
    BY <1>1, <1>2, <1>18 DEF Returns
  <2>3. ~Raised(t)' /\ ~Raised(t)
    BY <1>18, <2>1 DEF Raised
  <2>4. \A m \in {"A", "B"} : owner'[m] = t => Holds(t, m)'
    BY <1>4, <2>1 DEF Holds
  <2> QED
    BY <1>2, <1>4, <1>6, <2>1, <2>2, <2>3, <2>4, OneKeepsCeiling
<1> QED
  BY <1>3, <1>8, <1>9, <1>10, <1>11, <1>12, <1>13, <1>14, <1>15, <1>16, <1>17, <1>18 DEF HighStep

(* main's steps keep it.                                                   *)
LEMMA MainKeepsCeiling ==
  ASSUME IInv, OnlyE, Ceiling, Step("mainE") PROVE Ceiling'
<1> DEFINE t == "mainE"
<1>1. /\ pc \in [Tasks -> Nat] /\ status \in [Tasks -> Status] /\ TypeOK
      /\ pc[t] <= 6
  BY DEF IInv, TypeOK, Ceiling
<1>2. t \in Tasks /\ WorkersE \subseteq Tasks /\ t \notin WorkersE
  BY ProgramE DEF WorkersE
<1>3. MainStep
  BY StepOfMain
<1>4. ASSUME on' = on, deleted' = deleted, bprio' = bprio, owner' = owner,
             pc'[t] <= 6,
             \A u \in WorkersE : /\ pc'[u] = pc[u]
                                 /\ \/ status'[u] = status[u]
                                    \/ status[u] # "ready" /\ status'[u] = "ready"
      PROVE  Ceiling'
  <2>1. \A u \in WorkersE : Raised(u)' = Raised(u)
    BY <1>4 DEF Raised
  <2>2. \A u \in WorkersE : \A m \in MutexesDE : Holds(u, m)' = Holds(u, m)
    BY <1>4 DEF Holds
  <2>3. \A u \in Tasks : on'[u] = None
    BY <1>4 DEF Ceiling
  <2>4. \A u \in WorkersE :
         /\ status'[u] # "waiting" /\ (Raised(u)' => status'[u] = "ready")
         /\ bprio'[u] = IF Raised(u)' THEN 40 ELSE Priority[u]
    BY <1>4, <2>1 DEF Ceiling
  <2>5. \A u, v \in WorkersE : Raised(u)' /\ Raised(v)' => u = v
    BY <2>1 DEF Ceiling
  <2>6. \A m \in MutexesDE : /\ m \notin deleted' /\ owner'[m] \in WorkersE \cup {None}
                             /\ \A u \in WorkersE : owner'[m] = u => Holds(u, m)'
    BY <1>4, <2>2 DEF Ceiling
  <2> QED
    BY <1>4, <2>3, <2>4, <2>5, <2>6 DEF Ceiling
<1>5. ASSUME Plain(t), pc[t] \in {1, 2, 3, 4, 5}
      PROVE  /\ pc'[t] <= 6 /\ \A u \in WorkersE : pc'[u] = pc[u]
             /\ on' = on /\ deleted' = deleted
  <2>1. pc'[t] = pc[t] + 1 /\ \A u \in WorkersE : pc'[u] = pc[u]
    BY <1>1, <1>2, <1>5 DEF Plain
  <2> QED
    BY <1>5, <2>1 DEF Plain
<1>6. CASE \E u \in WorkersE : pc[t] \in {1, 2} /\ Starts(t, u)
  <2>1. PICK u \in WorkersE : pc[t] \in {1, 2} /\ Starts(t, u)
    BY <1>6
  <2>2. \A v \in WorkersE : \/ status'[v] = status[v]
                            \/ status[v] # "ready" /\ status'[v] = "ready"
    BY <1>1, <1>2, <2>1 DEF Starts
  <2> QED
    BY <1>4, <1>5, <2>1, <2>2 DEF Starts
<1>7. CASE pc[t] \in {3, 5} /\ \E n \in {1, 20} : Sleeps(t, n)
  <2>1. \A v \in WorkersE : status'[v] = status[v]
    BY <1>1, <1>2, <1>7 DEF Sleeps
  <2> QED
    BY <1>4, <1>5, <1>7, <2>1 DEF Sleeps
<1>8. CASE pc[t] = 4 /\ Plain(t) /\ UNCHANGED <<status, left, bprio, owner>>
  BY <1>4, <1>5, <1>8
<1>9. CASE pc[t] = 6 /\ Pauses(t)
  <2>1. \A v \in WorkersE : status'[v] = status[v]
    BY <1>1, <1>2, <1>9 DEF Pauses
  <2> QED
    BY <1>1, <1>4, <1>9, <2>1 DEF Pauses
<1>10. "HIGHE" \in WorkersE /\ "LOWE" \in WorkersE
  BY DEF WorkersE
<1> QED
  BY <1>3, <1>6, <1>7, <1>8, <1>9, <1>10 DEF MainStep

(* The end of a sleep keeps it: a raised task is not asleep.               *)
LEMMA ExpireKeepsCeiling ==
  ASSUME IInv, OnlyE, Ceiling, NEW t \in Tasks, Expire(t) PROVE Ceiling' /\ OnlyE'
<1>1. status \in [Tasks -> Status] /\ WorkersE \subseteq Tasks
  BY ProgramE DEF IInv, TypeOK, WorkersE
<1>2. /\ status[t] = "asleep" /\ status' = [status EXCEPT ![t] = "ready"]
      /\ UNCHANGED <<pc, on, bprio, owner, deleted>>
  BY DEF Expire
<1>3. /\ \A u \in WorkersE : Raised(u)' = Raised(u)
      /\ \A u \in WorkersE : \A m \in MutexesDE : Holds(u, m)' = Holds(u, m)
  BY <1>2 DEF Raised, Holds
<1>4. \A u \in WorkersE : status'[u] # "waiting" /\ (Raised(u) => status'[u] = "ready")
  BY <1>1, <1>2 DEF Ceiling
<1>5. Ceiling'
  BY <1>2, <1>3, <1>4 DEF Ceiling
<1>6. OnlyE'
  BY <1>1, <1>2 DEF OnlyE
<1> QED
  BY <1>5, <1>6

(* Whichever program runs, the invariant of task E is inductive.           *)
LEMMA InvarianceE == IInv /\ IInvE /\ [Next]_vars => IInvE'
<1> SUFFICES ASSUME IInv, IInvE, [Next]_vars PROVE IInvE'
  OBVIOUS
<1>1. CASE OtherThanE /\ Next
  BY <1>1, OtherThanEKeeps DEF IInvE
<1>2. ASSUME OnlyE, Ceiling, NEW t \in Tasks, Step(t) PROVE IInvE'
  <2>1. t \in TasksE /\ OnlyE'
    BY <1>2, OnlyESteps
  <2>2. t = "mainE" \/ t = "HIGHE" \/ t = "LOWE"
    BY <2>1, ProgramE
  <2>3. Ceiling'
    BY <1>2, <2>2, MainKeepsCeiling, HighKeepsCeiling, LowKeepsCeiling
  <2> QED
    BY <2>1, <2>3 DEF IInvE
<1>3. ASSUME OnlyE, Ceiling, UNCHANGED <<pc, status, on, bprio, owner, deleted>>
      PROVE  IInvE'
  <2>1. OnlyE'
    BY <1>3 DEF OnlyE
  <2>2. Ceiling'
    BY <1>3 DEF Ceiling, Raised, Holds
  <2> QED
    BY <2>1, <2>2 DEF IInvE
<1>4. ASSUME OnlyE, Ceiling, NEW t \in Tasks, Expire(t) PROVE IInvE'
  BY <1>4, ExpireKeepsCeiling DEF IInvE
<1>5. CASE UNCHANGED vars
  <2>1. OtherThanE => OtherThanE'
    BY <1>5 DEF vars, OtherThanE
  <2> QED
    BY <1>3, <1>5, <2>1 DEF vars, IInvE
<1>6. CASE OnlyE /\ Ceiling /\ Next
  BY <1>2, <1>3, <1>4, <1>6 DEF Next, Tick
<1> QED
  BY <1>1, <1>5, <1>6 DEF IInvE

(* It holds when the program starts.                                       *)
LEMMA InitE == Init => IInvE
<1> SUFFICES ASSUME Init PROVE IInvE
  OBVIOUS
<1> USE KernelAssumption
<1>1. CASE cpu = "mainE"
  <2>1. OnlyE
    BY <1>1, ProgramE DEF Init, OnlyE
  <2>2. /\ \A t \in Tasks : on[t] = None
        /\ \A t \in WorkersE : status[t] = "dormant" /\ pc[t] = 1 /\ bprio[t] = Priority[t]
        /\ \A m \in MutexesDE : m \notin deleted /\ owner[m] = None
        /\ pc["mainE"] = 1
    BY <1>1, ProgramE DEF Init, WorkersE
  <2>3. \A t \in WorkersE : ~Raised(t) /\ t # None
    <3>1. \A t \in WorkersE : t # None
      BY ProgramE DEF WorkersE
    <3>2. ASSUME NEW t \in WorkersE PROVE ~Raised(t)
      <4>1. pc[t] = 1
        BY <2>2
      <4>2. 1 \notin 2 .. 8 /\ 1 \notin 3 .. 9
        OBVIOUS
      <4> QED
        BY <4>1, <4>2, Zenon DEF Raised
    <3> QED
      BY <3>1, <3>2
  <2>4. Ceiling
    BY <2>2, <2>3 DEF Ceiling
  <2> QED
    BY <2>1, <2>4 DEF IInvE
<1>2. CASE cpu # "mainE"
  <2>1. cpu \notin TasksE
    BY <1>2, ProgramE DEF Init
  <2> QED
    BY <2>1, ProgramE DEF Init, OtherThanE, IInvE
<1> QED
  BY <1>1, <1>2

(* With the immediate ceiling no rt_mutex_acquire of task E ever has to    *)
(* wait, however late the wake-ups are and however the calls interleave.   *)
THEOREM CeilingNeverWaits == Spec => []NeverWaits
<1>1. IInvE => NeverWaits
  <2>1. OtherThanE => NeverWaits
    BY ProgramE DEF OtherThanE, NeverWaits, WorkersE
  <2> QED
    BY <2>1 DEF IInvE, Ceiling, NeverWaits
<1> QED
  BY <1>1, InitE, InvarianceE, Invariance, PTL DEF Spec

-----------------------------------------------------------------------------
(* Task E against the clock.                                               *)

(* The ticks LOW has still to spin before it drops its priority.           *)
SectionLeft ==
  IF pc["LOWE"] <= 3 THEN 6 * Unit
  ELSE IF pc["LOWE"] = 4 THEN 3 * Unit + left["LOWE"]
  ELSE IF pc["LOWE"] = 5 THEN 3 * Unit
  ELSE IF pc["LOWE"] = 6 THEN left["LOWE"] ELSE 0

(* main consumes no time, and starts HIGH before LOW.                      *)
MainInTime ==
  /\ pc["mainE"] <= 3 => status["mainE"] = "ready"
  /\ status["mainE"] = "ready" => left["mainE"] = 0
  /\ status["HIGHE"] = "dormant" => pc["mainE"] = 1
  /\ pc["mainE"] <= 2 <=> status["LOWE"] = "dormant"

(* LOW never sleeps, and consumes time only where it spins.                *)
LowInTime ==
  /\ status["LOWE"] \in {"dormant", "ready", "gone"}
  /\ status["LOWE"] = "gone" => pc["LOWE"] = 10
  /\ left["LOWE"] >= 0
  /\ left["LOWE"] > 0 => pc["LOWE"] \in {4, 6, 10}

(* HIGH sleeps while LOW spins for a unit; what HIGH has been kept waiting *)
(* and what LOW has left come to 5 units at most.                          *)
HighInTime ==
  /\ left["HIGHE"] > 0 => status["HIGHE"] = "asleep" \/ pc["HIGHE"] \in {5, 7, 11}
  /\ \/ /\ pc["HIGHE"] = 1 /\ pc["LOWE"] = 1 /\ kept["HIGHE"] = 0
        /\ status["HIGHE"] \in {"dormant", "ready"}
     \/ /\ pc["HIGHE"] = 2 /\ status["HIGHE"] = "asleep" /\ kept["HIGHE"] = 0
        /\ SectionLeft <= 5 * Unit \/ SectionLeft <= 5 * Unit + left["HIGHE"]
     \/ /\ pc["HIGHE"] = 2 /\ status["HIGHE"] = "ready"
        /\ kept["HIGHE"] + SectionLeft <= 5 * Unit
     \/ /\ pc["HIGHE"] > 2 /\ status["HIGHE"] \in {"ready", "gone"}
        /\ SectionLeft = 0 /\ kept["HIGHE"] <= 5 * Unit

InTimeE ==
  \/ OtherThanE /\ kept["HIGHE"] = 0
  \/ OnlyE /\ Ceiling /\ MainInTime /\ LowInTime /\ HighInTime

(* The types of what the clock moves.                                      *)
LEMMA TimeTypes ==
  ASSUME IInv
  PROVE  /\ {"mainE", "HIGHE", "LOWE"} \subseteq Tasks
         /\ pc \in [Tasks -> Nat] /\ status \in [Tasks -> Status] /\ bprio \in [Tasks -> Nat]
         /\ left \in [Tasks -> Int] /\ kept \in [Tasks -> Nat] /\ Unit \in Nat /\ Unit > 0
<1>1. Unit \in Nat /\ Unit > 0
  BY KernelAssumption
<1>2. {"mainE", "HIGHE", "LOWE"} \subseteq Tasks
  BY ProgramE
<1> QED
  BY <1>1, <1>2 DEF IInv, TypeOK

(* LOW's steps take it through its section and cost no time.               *)
LEMMA LowAdvances ==
  ASSUME IInv, OnlyE, Ceiling, MainInTime, LowInTime, Step("LOWE")
  PROVE  /\ LowInTime' /\ SectionLeft' <= SectionLeft /\ status'["LOWE"] # "dormant"
         /\ kept' = kept
         /\ \A u \in {"mainE", "HIGHE"} :
              pc'[u] = pc[u] /\ status'[u] = status[u] /\ left'[u] = left[u]
<1> DEFINE t == "LOWE"
<1>1. /\ t \in Tasks /\ "mainE" \in Tasks /\ "HIGHE" \in Tasks
      /\ pc \in [Tasks -> Nat] /\ status \in [Tasks -> Status] /\ bprio \in [Tasks -> Nat]
      /\ left \in [Tasks -> Int] /\ Unit \in Nat /\ Unit > 0
  BY TimeTypes
<1>2. cpu = t /\ status[t] = "ready" /\ left[t] = 0 /\ kept' = kept /\ LowStep
  BY <1>1, StepOfLow, StepperRuns
<1>3. ASSUME Plain(t), NEW k \in Nat, pc[t] = k
      PROVE  pc'[t] = k + 1 /\ pc'["mainE"] = pc["mainE"] /\ pc'["HIGHE"] = pc["HIGHE"]
  BY <1>1, <1>3 DEF Plain
<1>4. CASE pc[t] = 1 /\ Sets(t, 40)
  <2>1. pc'[t] = 2 /\ pc'["mainE"] = pc["mainE"] /\ pc'["HIGHE"] = pc["HIGHE"]
    BY <1>3, <1>4 DEF Sets
  <2>2. left' = left /\ status' = status
    BY <1>4 DEF Sets
  <2>3. SectionLeft' <= SectionLeft
    BY <1>1, <1>2, <1>4, <2>1, <2>2 DEF SectionLeft
  <2>4. LowInTime'
    BY <1>1, <1>2, <1>4, <2>1, <2>2 DEF LowInTime
  <2> QED
    BY <1>2, <2>1, <2>2, <2>3, <2>4
<1>5. CASE pc[t] = 2 /\ Locks(t, "A")
  <2>1. pc'[t] = 3 /\ pc'["mainE"] = pc["mainE"] /\ pc'["HIGHE"] = pc["HIGHE"]
    BY <1>3, <1>5 DEF Locks
  <2>2. left' = left /\ status' = status
    BY <1>5 DEF Locks
  <2>3. SectionLeft' <= SectionLeft
    BY <1>1, <1>2, <1>5, <2>1, <2>2 DEF SectionLeft
  <2>4. LowInTime'
    BY <1>1, <1>2, <1>5, <2>1, <2>2 DEF LowInTime
  <2> QED
    BY <1>2, <2>1, <2>2, <2>3, <2>4
<1>6. CASE pc[t] = 3 /\ Spins(t, 3)
  <2>1. pc'[t] = 4 /\ pc'["mainE"] = pc["mainE"] /\ pc'["HIGHE"] = pc["HIGHE"]
    BY <1>3, <1>6 DEF Spins
  <2>2. /\ left'[t] = 3 * Unit /\ status' = status
        /\ left'["mainE"] = left["mainE"] /\ left'["HIGHE"] = left["HIGHE"]
    BY <1>1, <1>6 DEF Spins
  <2>3. SectionLeft' <= SectionLeft
    BY <1>1, <1>2, <1>6, <2>1, <2>2 DEF SectionLeft
  <2>4. LowInTime'
    BY <1>1, <1>2, <1>6, <2>1, <2>2 DEF LowInTime
  <2> QED
    BY <1>2, <2>1, <2>2, <2>3, <2>4
<1>7. CASE pc[t] = 4 /\ Locks(t, "B")
  <2>1. pc'[t] = 5 /\ pc'["mainE"] = pc["mainE"] /\ pc'["HIGHE"] = pc["HIGHE"]
    BY <1>3, <1>7 DEF Locks
  <2>2. left' = left /\ status' = status
    BY <1>7 DEF Locks
  <2>3. SectionLeft' <= SectionLeft
    BY <1>1, <1>2, <1>7, <2>1, <2>2 DEF SectionLeft
  <2>4. LowInTime'
    BY <1>1, <1>2, <1>7, <2>1, <2>2 DEF LowInTime
  <2> QED
    BY <1>2, <2>1, <2>2, <2>3, <2>4
<1>8. CASE pc[t] = 5 /\ Spins(t, 3)
  <2>1. pc'[t] = 6 /\ pc'["mainE"] = pc["mainE"] /\ pc'["HIGHE"] = pc["HIGHE"]
    BY <1>3, <1>8 DEF Spins
  <2>2. /\ left'[t] = 3 * Unit /\ status' = status
        /\ left'["mainE"] = left["mainE"] /\ left'["HIGHE"] = left["HIGHE"]
    BY <1>1, <1>8 DEF Spins
  <2>3. SectionLeft' <= SectionLeft
    BY <1>1, <1>2, <1>8, <2>1, <2>2 DEF SectionLeft
  <2>4. LowInTime'
    BY <1>1, <1>2, <1>8, <2>1, <2>2 DEF LowInTime
  <2> QED
    BY <1>2, <2>1, <2>2, <2>3, <2>4
<1>9. CASE pc[t] = 6 /\ Unlocks(t, "B")
  <2>1. pc'[t] = 7 /\ pc'["mainE"] = pc["mainE"] /\ pc'["HIGHE"] = pc["HIGHE"]
    BY <1>3, <1>9 DEF Unlocks
  <2>2. left' = left /\ status' = status
    BY <1>9 DEF Unlocks
  <2>3. SectionLeft' <= SectionLeft
    BY <1>1, <1>2, <1>9, <2>1, <2>2 DEF SectionLeft
  <2>4. LowInTime'
    BY <1>1, <1>2, <1>9, <2>1, <2>2 DEF LowInTime
  <2> QED
    BY <1>2, <2>1, <2>2, <2>3, <2>4
<1>10. CASE pc[t] = 7 /\ Unlocks(t, "A")
  <2>1. pc'[t] = 8 /\ pc'["mainE"] = pc["mainE"] /\ pc'["HIGHE"] = pc["HIGHE"]
    BY <1>3, <1>10 DEF Unlocks
  <2>2. left' = left /\ status' = status
    BY <1>10 DEF Unlocks
  <2>3. SectionLeft' <= SectionLeft
    BY <1>1, <1>2, <1>10, <2>1, <2>2 DEF SectionLeft
  <2>4. LowInTime'
    BY <1>1, <1>2, <1>10, <2>1, <2>2 DEF LowInTime
  <2> QED
    BY <1>2, <2>1, <2>2, <2>3, <2>4
<1>11. CASE pc[t] = 8 /\ Sets(t, 20)
  <2>1. pc'[t] = 9 /\ pc'["mainE"] = pc["mainE"] /\ pc'["HIGHE"] = pc["HIGHE"]
    BY <1>3, <1>11 DEF Sets
  <2>2. left' = left /\ status' = status
    BY <1>11 DEF Sets
  <2>3. SectionLeft' <= SectionLeft
    BY <1>1, <1>2, <1>11, <2>1, <2>2 DEF SectionLeft
  <2>4. LowInTime'
    BY <1>1, <1>2, <1>11, <2>1, <2>2 DEF LowInTime
  <2> QED
    BY <1>2, <2>1, <2>2, <2>3, <2>4
<1>12. CASE pc[t] = 9 /\ Spins(t, 1)
  <2>1. pc'[t] = 10 /\ pc'["mainE"] = pc["mainE"] /\ pc'["HIGHE"] = pc["HIGHE"]
    BY <1>3, <1>12 DEF Spins
  <2>2. /\ left'[t] = 1 * Unit /\ status' = status
        /\ left'["mainE"] = left["mainE"] /\ left'["HIGHE"] = left["HIGHE"]
    BY <1>1, <1>12 DEF Spins
  <2>3. SectionLeft' <= SectionLeft
    BY <1>1, <1>2, <1>12, <2>1, <2>2 DEF SectionLeft
  <2>4. LowInTime'
    BY <1>1, <1>2, <1>12, <2>1, <2>2 DEF LowInTime
  <2> QED
    BY <1>2, <2>1, <2>2, <2>3, <2>4
<1>13. CASE pc[t] = 10 /\ Returns(t)
  <2>1. pc' = pc /\ left' = left
    BY <1>13 DEF Returns
  <2>2. /\ status'[t] = "gone" /\ status'["mainE"] = status["mainE"]
        /\ status'["HIGHE"] = status["HIGHE"]
    BY <1>1, <1>13 DEF Returns
  <2>3. SectionLeft' <= SectionLeft
    BY <1>13, <2>1 DEF SectionLeft
  <2>4. LowInTime'
    BY <1>2, <1>13, <2>1, <2>2 DEF LowInTime
  <2> QED
    BY <1>2, <2>1, <2>2, <2>3, <2>4
<1> QED
  BY <1>2, <1>4, <1>5, <1>6, <1>7, <1>8, <1>9, <1>10, <1>11, <1>12, <1>13 DEF LowStep

(* The section's length is a number of ticks, and 6 units at most.         *)
LEMMA SectionType ==
  ASSUME IInv, LowInTime
  PROVE  SectionLeft \in Int /\ SectionLeft >= 0
BY TimeTypes DEF SectionLeft, LowInTime

(* And so it is after a step.                                              *)
LEMMA SectionTypeNext ==
  ASSUME IInv', LowInTime'
  PROVE  SectionLeft' \in Int /\ SectionLeft' >= 0
<1>1. /\ "LOWE" \in Tasks /\ pc' \in [Tasks -> Nat] /\ left' \in [Tasks -> Int]
  BY ProgramE DEF IInv, TypeOK
<1>2. Unit \in Nat
  BY KernelAssumption
<1> QED
  BY <1>1, <1>2 DEF SectionLeft, LowInTime

(* LOW's steps keep the accounts of the clock.                             *)
LEMMA LowInTimeKeeps ==
  ASSUME IInv, OnlyE, Ceiling, MainInTime, LowInTime, HighInTime, Step("LOWE")
  PROVE  MainInTime' /\ LowInTime' /\ HighInTime'
<1>1. /\ LowInTime' /\ SectionLeft' <= SectionLeft /\ status'["LOWE"] # "dormant"
      /\ kept' = kept
      /\ \A u \in {"mainE", "HIGHE"} :
           pc'[u] = pc[u] /\ status'[u] = status[u] /\ left'[u] = left[u]
  BY LowAdvances
<1>2. cpu = "LOWE" /\ status["LOWE"] = "ready"
  BY TimeTypes, StepperRuns
<1>3. MainInTime'
  BY <1>1, <1>2 DEF MainInTime
<1>4. SectionLeft \in Int /\ SectionLeft' \in Int /\ SectionLeft' >= 0
  <2>1. IInv'
    BY TimeTypes, Inductive DEF Next
  <2> QED
    BY <1>1, <2>1, SectionType, SectionTypeNext
<1>5. pc["HIGHE"] # 1
  <2> SUFFICES ASSUME pc["HIGHE"] = 1 PROVE FALSE
    OBVIOUS
  <2>1. status["HIGHE"] = "ready" /\ pc["LOWE"] = 1
    BY <1>2 DEF HighInTime, MainInTime
  <2>2. bprio["LOWE"] = 20 /\ bprio["HIGHE"] = 30
    BY <2>1, ProgramE DEF Ceiling, WorkersE, Raised
  <2> QED
    BY <1>2, <2>1, <2>2, TimeTypes, RunsFirst
<1>6. HighInTime'
  BY <1>1, <1>4, <1>5, TimeTypes DEF HighInTime
<1> QED
  BY <1>1, <1>3, <1>6

(* HIGH's steps: it sleeps while LOW has its section before it, and raises *)
(* itself only when LOW has done with it.                                  *)
LEMMA HighInTimeKeeps ==
  ASSUME IInv, OnlyE, Ceiling, MainInTime, LowInTime, HighInTime, Step("HIGHE")
  PROVE  MainInTime' /\ LowInTime' /\ HighInTime'
<1> DEFINE t == "HIGHE"
<1>1. /\ t \in Tasks /\ "mainE" \in Tasks /\ "LOWE" \in Tasks
      /\ pc \in [Tasks -> Nat] /\ status \in [Tasks -> Status]
      /\ left \in [Tasks -> Int] /\ kept \in [Tasks -> Nat] /\ Unit \in Nat /\ Unit > 0
  BY TimeTypes
<1>2. cpu = t /\ status[t] = "ready" /\ left[t] = 0 /\ kept' = kept /\ HighStep
  BY <1>1, StepOfHigh, StepperRuns
<1>3. ASSUME Plain(t), NEW k \in Nat, pc[t] = k
      PROVE  pc'[t] = k + 1 /\ pc'["mainE"] = pc["mainE"] /\ pc'["LOWE"] = pc["LOWE"]
  BY <1>1, <1>3 DEF Plain
<1>4. ASSUME pc'["mainE"] = pc["mainE"], pc'["LOWE"] = pc["LOWE"],
             left'["mainE"] = left["mainE"], left'["LOWE"] = left["LOWE"],
             status'["mainE"] = status["mainE"], status'["LOWE"] = status["LOWE"],
             status'[t] # "dormant"
      PROVE  MainInTime' /\ LowInTime' /\ SectionLeft' = SectionLeft
  <2>1. MainInTime'
    BY <1>4 DEF MainInTime
  <2>2. LowInTime'
    BY <1>4 DEF LowInTime
  <2> QED
    BY <1>4, <2>1, <2>2 DEF SectionLeft
<1>5. SectionLeft \in Int /\ SectionLeft >= 0
  BY SectionType
<1>6. pc[t] = 2 => SectionLeft = 0
  <2> SUFFICES ASSUME pc[t] = 2 PROVE SectionLeft = 0
    OBVIOUS
  <2>1. SectionLeft <= 5 * Unit
    BY <1>1, <1>2, <1>5 DEF HighInTime
  <2>2. pc["LOWE"] \in Nat /\ ~(pc["LOWE"] <= 3)
    BY <1>1, <2>1 DEF SectionLeft
  <2>3. bprio[t] = 30 /\ (Raised("LOWE") => status["LOWE"] = "ready" /\ bprio["LOWE"] = 40)
    BY ProgramE DEF Ceiling, WorkersE, Raised
  <2>4. ~Raised("LOWE")
    BY <1>1, <1>2, <2>3, RunsFirst
  <2>5. pc["LOWE"] > 8
    BY <2>2, <2>4 DEF Raised
  <2> QED
    BY <1>1, <2>5 DEF SectionLeft
<1>7. CASE pc[t] = 1 /\ Sleeps(t, 1)
  <2>1. pc'[t] = 2 /\ pc'["mainE"] = pc["mainE"] /\ pc'["LOWE"] = pc["LOWE"]
    BY <1>3, <1>7 DEF Sleeps
  <2>2. left'["mainE"] = left["mainE"] /\ left'["LOWE"] = left["LOWE"] /\ left'[t] = 1 * Unit
    BY <1>1, <1>7 DEF Sleeps
  <2>3. /\ status'["mainE"] = status["mainE"] /\ status'["LOWE"] = status["LOWE"]
        /\ status'[t] = "asleep"
    BY <1>1, <1>2, <1>7 DEF Sleeps
  <2>4. MainInTime' /\ LowInTime' /\ SectionLeft' = SectionLeft
    BY <1>2, <1>4, <2>1, <2>2, <2>3
  <2>5. SectionLeft = 6 * Unit /\ kept[t] = 0
    BY <1>7 DEF SectionLeft, HighInTime
  <2>6. 6 * Unit <= 5 * Unit + 1 * Unit
    BY <1>1
  <2>7. HighInTime'
    BY <1>2, <2>1, <2>2, <2>3, <2>4, <2>5, <2>6 DEF HighInTime
  <2> QED
    BY <2>4, <2>7
<1>8. CASE pc[t] = 2 /\ Sets(t, 40)
  <2>1. pc'[t] = 3 /\ pc'["mainE"] = pc["mainE"] /\ pc'["LOWE"] = pc["LOWE"]
    BY <1>3, <1>8 DEF Sets
  <2>2. left' = left
    BY <1>8 DEF Sets
  <2>3. status' = status
    BY <1>8 DEF Sets
  <2>4. MainInTime' /\ LowInTime' /\ SectionLeft' = SectionLeft
    BY <1>2, <1>4, <2>1, <2>2, <2>3
  <2>5. kept[t] <= 5 * Unit
    BY <1>1, <1>2, <1>5, <1>8 DEF HighInTime
  <2>7. HighInTime'
    BY <1>2, <1>6, <1>8, <2>1, <2>2, <2>3, <2>4, <2>5 DEF HighInTime
  <2> QED
    BY <2>4, <2>7
<1>9. CASE pc[t] = 3 /\ Locks(t, "B")
  <2>1. pc'[t] = 4 /\ pc'["mainE"] = pc["mainE"] /\ pc'["LOWE"] = pc["LOWE"]
    BY <1>3, <1>9 DEF Locks
  <2>2. left' = left
    BY <1>9 DEF Locks
  <2>3. status' = status
    BY <1>9 DEF Locks
  <2>4. MainInTime' /\ LowInTime' /\ SectionLeft' = SectionLeft
    BY <1>2, <1>4, <2>1, <2>2, <2>3
  <2>5. kept[t] <= 5 * Unit /\ SectionLeft = 0
    BY <1>9 DEF HighInTime
  <2>7. HighInTime'
    BY <1>2, <1>9, <2>1, <2>2, <2>3, <2>4, <2>5 DEF HighInTime
  <2> QED
    BY <2>4, <2>7
<1>10. CASE pc[t] = 4 /\ Spins(t, 1)
  <2>1. pc'[t] = 5 /\ pc'["mainE"] = pc["mainE"] /\ pc'["LOWE"] = pc["LOWE"]
    BY <1>3, <1>10 DEF Spins
  <2>2. left'["mainE"] = left["mainE"] /\ left'["LOWE"] = left["LOWE"] /\ left'[t] = 1 * Unit
    BY <1>1, <1>10 DEF Spins
  <2>3. /\ status'["mainE"] = status["mainE"] /\ status'["LOWE"] = status["LOWE"]
        /\ status'[t] = "ready"
    BY <1>1, <1>2, <1>10 DEF Spins
  <2>4. MainInTime' /\ LowInTime' /\ SectionLeft' = SectionLeft
    BY <1>2, <1>4, <2>1, <2>2, <2>3
  <2>5. kept[t] <= 5 * Unit /\ SectionLeft = 0
    BY <1>10 DEF HighInTime
  <2>7. HighInTime'
    BY <1>2, <1>10, <2>1, <2>2, <2>3, <2>4, <2>5 DEF HighInTime
  <2> QED
    BY <2>4, <2>7
<1>11. CASE pc[t] = 5 /\ Locks(t, "A")
  <2>1. pc'[t] = 6 /\ pc'["mainE"] = pc["mainE"] /\ pc'["LOWE"] = pc["LOWE"]
    BY <1>3, <1>11 DEF Locks
  <2>2. left' = left
    BY <1>11 DEF Locks
  <2>3. status' = status
    BY <1>11 DEF Locks
  <2>4. MainInTime' /\ LowInTime' /\ SectionLeft' = SectionLeft
    BY <1>2, <1>4, <2>1, <2>2, <2>3
  <2>5. kept[t] <= 5 * Unit /\ SectionLeft = 0
    BY <1>11 DEF HighInTime
  <2>7. HighInTime'
    BY <1>2, <1>11, <2>1, <2>2, <2>3, <2>4, <2>5 DEF HighInTime
  <2> QED
    BY <2>4, <2>7
<1>12. CASE pc[t] = 6 /\ Spins(t, 2)
  <2>1. pc'[t] = 7 /\ pc'["mainE"] = pc["mainE"] /\ pc'["LOWE"] = pc["LOWE"]
    BY <1>3, <1>12 DEF Spins
  <2>2. left'["mainE"] = left["mainE"] /\ left'["LOWE"] = left["LOWE"] /\ left'[t] = 2 * Unit
    BY <1>1, <1>12 DEF Spins
  <2>3. /\ status'["mainE"] = status["mainE"] /\ status'["LOWE"] = status["LOWE"]
        /\ status'[t] = "ready"
    BY <1>1, <1>2, <1>12 DEF Spins
  <2>4. MainInTime' /\ LowInTime' /\ SectionLeft' = SectionLeft
    BY <1>2, <1>4, <2>1, <2>2, <2>3
  <2>5. kept[t] <= 5 * Unit /\ SectionLeft = 0
    BY <1>12 DEF HighInTime
  <2>7. HighInTime'
    BY <1>2, <1>12, <2>1, <2>2, <2>3, <2>4, <2>5 DEF HighInTime
  <2> QED
    BY <2>4, <2>7
<1>13. CASE pc[t] = 7 /\ Unlocks(t, "A")
  <2>1. pc'[t] = 8 /\ pc'["mainE"] = pc["mainE"] /\ pc'["LOWE"] = pc["LOWE"]
    BY <1>3, <1>13 DEF Unlocks
  <2>2. left' = left
    BY <1>13 DEF Unlocks
  <2>3. status' = status
    BY <1>13 DEF Unlocks
  <2>4. MainInTime' /\ LowInTime' /\ SectionLeft' = SectionLeft
    BY <1>2, <1>4, <2>1, <2>2, <2>3
  <2>5. kept[t] <= 5 * Unit /\ SectionLeft = 0
    BY <1>13 DEF HighInTime
  <2>7. HighInTime'
    BY <1>2, <1>13, <2>1, <2>2, <2>3, <2>4, <2>5 DEF HighInTime
  <2> QED
    BY <2>4, <2>7
<1>14. CASE pc[t] = 8 /\ Unlocks(t, "B")
  <2>1. pc'[t] = 9 /\ pc'["mainE"] = pc["mainE"] /\ pc'["LOWE"] = pc["LOWE"]
    BY <1>3, <1>14 DEF Unlocks
  <2>2. left' = left
    BY <1>14 DEF Unlocks
  <2>3. status' = status
    BY <1>14 DEF Unlocks
  <2>4. MainInTime' /\ LowInTime' /\ SectionLeft' = SectionLeft
    BY <1>2, <1>4, <2>1, <2>2, <2>3
  <2>5. kept[t] <= 5 * Unit /\ SectionLeft = 0
    BY <1>14 DEF HighInTime
  <2>7. HighInTime'
    BY <1>2, <1>14, <2>1, <2>2, <2>3, <2>4, <2>5 DEF HighInTime
  <2> QED
    BY <2>4, <2>7
<1>15. CASE pc[t] = 9 /\ Sets(t, 30)
  <2>1. pc'[t] = 10 /\ pc'["mainE"] = pc["mainE"] /\ pc'["LOWE"] = pc["LOWE"]
    BY <1>3, <1>15 DEF Sets
  <2>2. left' = left
    BY <1>15 DEF Sets
  <2>3. status' = status
    BY <1>15 DEF Sets
  <2>4. MainInTime' /\ LowInTime' /\ SectionLeft' = SectionLeft
    BY <1>2, <1>4, <2>1, <2>2, <2>3
  <2>5. kept[t] <= 5 * Unit /\ SectionLeft = 0
    BY <1>15 DEF HighInTime
  <2>7. HighInTime'
    BY <1>2, <1>15, <2>1, <2>2, <2>3, <2>4, <2>5 DEF HighInTime
  <2> QED
    BY <2>4, <2>7
<1>16. CASE pc[t] = 10 /\ Spins(t, 1)
  <2>1. pc'[t] = 11 /\ pc'["mainE"] = pc["mainE"] /\ pc'["LOWE"] = pc["LOWE"]
    BY <1>3, <1>16 DEF Spins
  <2>2. left'["mainE"] = left["mainE"] /\ left'["LOWE"] = left["LOWE"] /\ left'[t] = 1 * Unit
    BY <1>1, <1>16 DEF Spins
  <2>3. /\ status'["mainE"] = status["mainE"] /\ status'["LOWE"] = status["LOWE"]
        /\ status'[t] = "ready"
    BY <1>1, <1>2, <1>16 DEF Spins
  <2>4. MainInTime' /\ LowInTime' /\ SectionLeft' = SectionLeft
    BY <1>2, <1>4, <2>1, <2>2, <2>3
  <2>5. kept[t] <= 5 * Unit /\ SectionLeft = 0
    BY <1>16 DEF HighInTime
  <2>7. HighInTime'
    BY <1>2, <1>16, <2>1, <2>2, <2>3, <2>4, <2>5 DEF HighInTime
  <2> QED
    BY <2>4, <2>7
<1>17. CASE pc[t] = 11 /\ Returns(t)
  <2>1. pc' = pc /\ left' = left
    BY <1>17 DEF Returns
  <2>2. /\ status'[t] = "gone" /\ status'["mainE"] = status["mainE"]
        /\ status'["LOWE"] = status["LOWE"]
    BY <1>1, <1>17 DEF Returns
  <2>3. MainInTime' /\ LowInTime' /\ SectionLeft' = SectionLeft
    BY <1>4, <2>1, <2>2
  <2>4. HighInTime'
    BY <1>2, <1>17, <2>1, <2>2, <2>3 DEF HighInTime
  <2> QED
    BY <2>3, <2>4
<1> QED
  BY <1>2, <1>7, <1>8, <1>9, <1>10, <1>11, <1>12, <1>13, <1>14, <1>15, <1>16, <1>17 DEF HighStep

(* main's steps cost no time.                                              *)
LEMMA MainInTimeKeeps ==
  ASSUME IInv, OnlyE, Ceiling, MainInTime, LowInTime, HighInTime, Step("mainE")
  PROVE  MainInTime' /\ LowInTime' /\ HighInTime'
<1> DEFINE t == "mainE"
<1>1. /\ t \in Tasks /\ "HIGHE" \in Tasks /\ "LOWE" \in Tasks
      /\ pc \in [Tasks -> Nat] /\ status \in [Tasks -> Status]
      /\ left \in [Tasks -> Int]
  BY TimeTypes
<1>2. cpu = t /\ status[t] = "ready" /\ left[t] = 0 /\ kept' = kept /\ MainStep
  BY <1>1, StepOfMain, StepperRuns
<1>3. ASSUME Plain(t), NEW k \in Nat, pc[t] = k
      PROVE  pc'[t] = k + 1 /\ pc'["HIGHE"] = pc["HIGHE"] /\ pc'["LOWE"] = pc["LOWE"]
  BY <1>1, <1>3 DEF Plain
<1>4. ASSUME \A u \in {"HIGHE", "LOWE"} :
               /\ pc'[u] = pc[u] /\ left'[u] = left[u]
               /\ \/ status'[u] = status[u]
                  \/ status[u] = "dormant" /\ status'[u] = "ready"
      PROVE  LowInTime' /\ HighInTime'
  <2>1. LowInTime'
    BY <1>4 DEF LowInTime
  <2>2. SectionLeft' = SectionLeft
    BY <1>4 DEF SectionLeft
  <2>3. HighInTime'
    BY <1>2, <1>4, <2>2 DEF HighInTime
  <2> QED
    BY <2>1, <2>3
<1>5. CASE pc[t] = 1 /\ Starts(t, "HIGHE")
  <2>1. pc'[t] = 2 /\ pc'["HIGHE"] = pc["HIGHE"] /\ pc'["LOWE"] = pc["LOWE"] /\ left' = left
    BY <1>3, <1>5 DEF Starts
  <2>2. /\ status'["HIGHE"] = IF status["HIGHE"] = "dormant" THEN "ready" ELSE status["HIGHE"]
        /\ status'["LOWE"] = status["LOWE"] /\ status'[t] = status[t]
    BY <1>1, <1>5 DEF Starts
  <2>3. LowInTime' /\ HighInTime'
    BY <1>4, <2>1, <2>2
  <2>4. MainInTime'
    BY <1>2, <1>5, <2>1, <2>2 DEF MainInTime
  <2> QED
    BY <2>3, <2>4
<1>6. CASE pc[t] = 2 /\ Starts(t, "LOWE")
  <2>1. pc'[t] = 3 /\ pc'["HIGHE"] = pc["HIGHE"] /\ pc'["LOWE"] = pc["LOWE"] /\ left' = left
    BY <1>3, <1>6 DEF Starts
  <2>2. /\ status'["LOWE"] = IF status["LOWE"] = "dormant" THEN "ready" ELSE status["LOWE"]
        /\ status'["HIGHE"] = status["HIGHE"] /\ status'[t] = status[t]
    BY <1>1, <1>6 DEF Starts
  <2>3. LowInTime' /\ HighInTime'
    BY <1>4, <2>1, <2>2
  <2>4. MainInTime'
    BY <1>2, <1>6, <2>1, <2>2 DEF MainInTime
  <2> QED
    BY <2>3, <2>4
<1>7. CASE \E n \in {1, 20} : pc[t] \in {3, 5} /\ Sleeps(t, n)
  <2>1. PICK n \in {1, 20} : pc[t] \in {3, 5} /\ Sleeps(t, n)
    BY <1>7
  <2>2. pc'[t] \in {4, 6} /\ pc'["HIGHE"] = pc["HIGHE"] /\ pc'["LOWE"] = pc["LOWE"]
    BY <1>3, <2>1 DEF Sleeps
  <2>3. /\ status'[t] = "asleep"
        /\ \A u \in {"HIGHE", "LOWE"} : status'[u] = status[u] /\ left'[u] = left[u]
    BY <1>1, <2>1 DEF Sleeps
  <2>4. LowInTime' /\ HighInTime'
    BY <1>4, <2>2, <2>3
  <2>5. MainInTime'
    BY <1>2, <2>1, <2>2, <2>3 DEF MainInTime
  <2> QED
    BY <2>4, <2>5
<1>8. CASE pc[t] = 4 /\ Plain(t) /\ UNCHANGED <<status, left, bprio, owner>>
  <2>1. pc'[t] = 5 /\ pc'["HIGHE"] = pc["HIGHE"] /\ pc'["LOWE"] = pc["LOWE"]
    BY <1>3, <1>8
  <2>2. LowInTime' /\ HighInTime'
    BY <1>4, <1>8, <2>1
  <2>3. MainInTime'
    BY <1>2, <1>8, <2>1 DEF MainInTime
  <2> QED
    BY <2>2, <2>3
<1>9. CASE pc[t] = 6 /\ Pauses(t)
  <2>1. pc' = pc /\ left' = left
    BY <1>9 DEF Pauses
  <2>2. /\ status'[t] = "paused"
        /\ status'["HIGHE"] = status["HIGHE"] /\ status'["LOWE"] = status["LOWE"]
    BY <1>1, <1>9 DEF Pauses
  <2>3. LowInTime' /\ HighInTime'
    BY <1>4, <2>1, <2>2
  <2>4. MainInTime'
    BY <1>2, <1>9, <2>1, <2>2 DEF MainInTime
  <2> QED
    BY <2>3, <2>4
<1> QED
  BY <1>2, <1>5, <1>6, <1>7, <1>8, <1>9 DEF MainStep

(* When HIGH's sleep is over it has the rest of LOW's section before it.   *)
LEMMA ExpireInTime ==
  ASSUME IInv, OnlyE, Ceiling, MainInTime, LowInTime, HighInTime, NEW t \in Tasks, Expire(t)
  PROVE  MainInTime' /\ LowInTime' /\ HighInTime'
<1>1. /\ {"mainE", "HIGHE", "LOWE"} \subseteq Tasks
      /\ status \in [Tasks -> Status] /\ left \in [Tasks -> Int] /\ kept \in [Tasks -> Nat]
  BY TimeTypes
<1>2. /\ status[t] = "asleep" /\ left[t] <= 0 /\ pc' = pc /\ kept' = kept
      /\ status' = [status EXCEPT ![t] = "ready"] /\ left' = [left EXCEPT ![t] = 0]
  BY DEF Expire
<1>3. t = "mainE" \/ t = "HIGHE"
  <2>1. t # "LOWE"
    BY <1>2 DEF LowInTime
  <2>2. t \in TasksE
    BY <1>2 DEF OnlyE
  <2> QED
    BY <2>1, <2>2, ProgramE
<1>4. status'["LOWE"] = status["LOWE"] /\ left'["LOWE"] = left["LOWE"]
  BY <1>1, <1>2, <1>3
<1>5. LowInTime' /\ SectionLeft' = SectionLeft
  BY <1>2, <1>4 DEF LowInTime, SectionLeft
<1>6. CASE t = "mainE"
  <2>1. /\ status'[t] = "ready" /\ left'[t] = 0
        /\ status'["HIGHE"] = status["HIGHE"] /\ left'["HIGHE"] = left["HIGHE"]
    BY <1>1, <1>2, <1>6
  <2>2. MainInTime'
    BY <1>2, <1>4, <1>6, <2>1 DEF MainInTime
  <2>3. HighInTime'
    BY <1>2, <1>5, <2>1 DEF HighInTime
  <2> QED
    BY <1>5, <2>2, <2>3
<1>7. CASE t = "HIGHE"
  <2>1. /\ status'[t] = "ready" /\ left'[t] = 0
        /\ status'["mainE"] = status["mainE"] /\ left'["mainE"] = left["mainE"]
    BY <1>1, <1>2, <1>7
  <2>2. MainInTime'
    BY <1>2, <1>4, <1>7, <2>1 DEF MainInTime
  <2>3. SectionLeft \in Int /\ SectionLeft <= 5 * Unit /\ pc[t] = 2 /\ kept[t] = 0
    <3>1. /\ SectionLeft \in Int /\ Unit \in Nat /\ left[t] \in Int
      BY <1>1, SectionType, TimeTypes
    <3>2. /\ pc[t] = 2 /\ kept[t] = 0
          /\ SectionLeft <= 5 * Unit \/ SectionLeft <= 5 * Unit + left[t]
      BY <1>2, <1>7 DEF HighInTime
    <3> QED
      BY <1>2, <3>1, <3>2
  <2>4. HighInTime'
    BY <1>2, <1>5, <1>7, <2>1, <2>3 DEF HighInTime
  <2> QED
    BY <1>5, <2>2, <2>4
<1> QED
  BY <1>3, <1>6, <1>7

(* None of E's tasks loops.                                                *)
LEMMA NoLoopInE ==
  ASSUME IInv, Ceiling, NEW t \in TasksE PROVE ~Calling(t, "loop")
<1> SUFFICES ASSUME Calling(t, "loop") PROVE FALSE
  OBVIOUS
<1>1. pc[t] \in 1 .. Len(Prog[t]) /\ Prog[t][pc[t]].op = "loop"
  BY ProgramE, CallerFacts DEF Calling
<1>2. CASE t = "LOWE"
  BY <1>1, <1>2, ProgramE, LowCalls
     DEF rt_task_set_priority, rt_mutex_acquire, rt_mutex_release, busy_wait_us, Call
<1>3. CASE t = "HIGHE"
  BY <1>1, <1>3, ProgramE, HighCalls
     DEF rt_task_set_priority, rt_mutex_acquire, rt_mutex_release, busy_wait_us,
         rt_task_sleep, Call
<1>4. CASE t = "mainE"
  <2> DEFINE M == MainDE("HIGHE", "LOWE")
  <2>1. Prog[t] = M /\ Len(M) = 6
    BY <1>4, ProgramE, MainCalls
  <2>2. pc[t] \in {1, 2, 3, 4, 5, 6}
    BY <1>1, <2>1
  <2>3. /\ M[1].op # "loop" /\ M[2].op # "loop" /\ M[3].op # "loop"
        /\ M[4].op # "loop" /\ M[5].op # "loop" /\ M[6].op # "loop"
    BY MainCalls DEF rt_task_start, rt_sem_broadcast, rt_task_sleep, pause, Call
  <2> HIDE DEF M
  <2> QED
    BY <1>1, <2>1, <2>2, <2>3
<1> QED
  BY <1>2, <1>3, <1>4, ProgramE

(* A tick comes out of LOW's section, or finds HIGH running or not ready.  *)
LEMMA TickInTime ==
  ASSUME IInv, OnlyE, Ceiling, MainInTime, LowInTime, HighInTime, Tick
  PROVE  MainInTime' /\ LowInTime' /\ HighInTime'
<1>1. /\ "mainE" \in Tasks /\ "HIGHE" \in Tasks /\ "LOWE" \in Tasks
      /\ status \in [Tasks -> Status] /\ left \in [Tasks -> Int] /\ kept \in [Tasks -> Nat]
      /\ pc \in [Tasks -> Nat] /\ Unit \in Nat /\ Unit > 0
  BY TimeTypes
<1>2. /\ pc' = pc /\ status' = status
      /\ left' = [t \in Tasks |-> IF t \in Asleep \/ (t = cpu /\ left[t] > 0)
                                  THEN left[t] - 1 ELSE left[t]]
      /\ kept' = [t \in Tasks |-> IF t # cpu /\ status[t] \in {"ready", "waiting"}
                                  THEN kept[t] + 1 ELSE 0]
  BY DEF Tick
<1>3. cpu \in Tasks => status[cpu] = "ready" /\ cpu \in TasksE
  BY RunningIsReady DEF IInv, OnlyE
<1>4. cpu \in Tasks => left[cpu] > 0
  BY <1>3, NoLoopInE DEF Tick, Consuming
<1>5. cpu # "mainE"
  BY <1>1, <1>3, <1>4 DEF MainInTime
<1>6. status["mainE"] = "ready" => left'["mainE"] = left["mainE"]
  BY <1>1, <1>2, <1>5 DEF Asleep
<1>7. MainInTime'
  BY <1>2, <1>6 DEF MainInTime
<1>8. /\ left'["LOWE"] = IF cpu = "LOWE" THEN left["LOWE"] - 1 ELSE left["LOWE"]
      /\ cpu = "LOWE" => left["LOWE"] > 0
  BY <1>1, <1>2, <1>4 DEF Asleep, LowInTime
<1>9. LowInTime'
  BY <1>1, <1>2, <1>8 DEF LowInTime
<1>10. SectionLeft \in Int /\ SectionLeft >= 0
  BY SectionType
<1>11. /\ cpu # "LOWE" => SectionLeft' = SectionLeft
       /\ cpu = "LOWE" /\ SectionLeft > 0 /\ pc["LOWE"] # 1 => SectionLeft' = SectionLeft - 1
       /\ cpu = "LOWE" /\ SectionLeft = 0 => SectionLeft' = 0
       /\ cpu = "LOWE" => pc["LOWE"] # 1 /\ (SectionLeft = 0 => pc["LOWE"] = 10)
  <2>1. CASE cpu # "LOWE"
    BY <1>2, <1>8, <2>1 DEF SectionLeft
  <2>2. CASE cpu = "LOWE"
    <3>1. left["LOWE"] > 0 /\ pc["LOWE"] \in {4, 6, 10} /\ left'["LOWE"] = left["LOWE"] - 1
      BY <1>8, <2>2 DEF LowInTime
    <3>2. CASE pc["LOWE"] = 4
      BY <1>1, <1>2, <2>2, <3>1, <3>2 DEF SectionLeft
    <3>3. CASE pc["LOWE"] = 6
      BY <1>1, <1>2, <2>2, <3>1, <3>3 DEF SectionLeft
    <3>4. CASE pc["LOWE"] = 10
      BY <1>2, <2>2, <3>4 DEF SectionLeft
    <3> QED
      BY <3>1, <3>2, <3>3, <3>4
  <2> QED
    BY <2>1, <2>2
<1>12. status["HIGHE"] = "ready" =>
         cpu = "HIGHE" \/ (cpu = "LOWE" /\ bprio["HIGHE"] <= bprio["LOWE"])
  <2> SUFFICES ASSUME status["HIGHE"] = "ready", cpu # "HIGHE"
               PROVE  cpu = "LOWE" /\ bprio["HIGHE"] <= bprio["LOWE"]
    OBVIOUS
  <2>1. cpu \in Tasks
    BY <1>1 DEF IInv, Scheduled, Ready, Highest
  <2>2. cpu = "LOWE"
    BY <1>3, <1>5, <2>1, ProgramE
  <2> QED
    BY <1>1, <2>1, <2>2, RunsFirst
<1>13. /\ bprio["HIGHE"] \in {30, 40}
       /\ pc["LOWE"] = 10 => bprio["LOWE"] = 20
  BY ProgramE DEF Ceiling, WorkersE, Raised
<1>14. status["HIGHE"] = "ready" /\ cpu # "HIGHE" => cpu = "LOWE" /\ SectionLeft > 0
  BY <1>10, <1>11, <1>12, <1>13
<1>15. /\ kept'["HIGHE"] = IF cpu # "HIGHE" /\ status["HIGHE"] = "ready"
                           THEN kept["HIGHE"] + 1 ELSE 0
       /\ status["HIGHE"] = "asleep" => left'["HIGHE"] = left["HIGHE"] - 1 /\ cpu # "HIGHE"
       /\ status["HIGHE"] # "asleep" => left'["HIGHE"] <= left["HIGHE"]
  <2>1. status["HIGHE"] # "waiting"
    BY DEF Ceiling, WorkersE
  <2>2. kept'["HIGHE"] = IF cpu # "HIGHE" /\ status["HIGHE"] = "ready"
                         THEN kept["HIGHE"] + 1 ELSE 0
    BY <1>1, <1>2, <2>1
  <2>3. status["HIGHE"] = "asleep" => left'["HIGHE"] = left["HIGHE"] - 1 /\ cpu # "HIGHE"
    BY <1>1, <1>2, <1>3 DEF Asleep
  <2>4. left'["HIGHE"] <= left["HIGHE"]
    BY <1>1, <1>2
  <2> QED
    BY <2>2, <2>3, <2>4
<1>16. status["HIGHE"] = "asleep" /\ cpu # "LOWE" => SectionLeft = 0
  <2> SUFFICES ASSUME status["HIGHE"] = "asleep", cpu # "LOWE" PROVE SectionLeft = 0
    OBVIOUS
  <2>1. cpu \notin Tasks
    BY <1>3, <1>5, <1>15, ProgramE
  <2>2. Ready = {}
    BY <2>1 DEF IInv, Scheduled, Ready, Highest
  <2>3. status["LOWE"] = "gone"
    BY <1>1, <2>2 DEF Ready, LowInTime, MainInTime
  <2> QED
    BY <2>3 DEF LowInTime, SectionLeft
<1>17. left'["HIGHE"] > 0 => status'["HIGHE"] = "asleep" \/ pc'["HIGHE"] \in {5, 7, 11}
  <2>1. left["HIGHE"] \in Int /\ left'["HIGHE"] \in Int
    BY <1>1, <1>2
  <2> QED
    BY <1>2, <1>15, <2>1 DEF HighInTime
<1> DEFINE S == SectionLeft
<1> DEFINE T == SectionLeft'
<1> DEFINE h == kept["HIGHE"]
<1> DEFINE i == kept'["HIGHE"]
<1> DEFINE l == left["HIGHE"]
<1> DEFINE j == left'["HIGHE"]
<1> DEFINE b == 5 * Unit
<1>18. /\ S \in Int /\ T \in Int /\ h \in Nat /\ i \in Nat /\ l \in Int /\ j \in Int /\ b \in Nat
  BY <1>1, <1>2, <1>9, <1>10, <1>11
<1>19. CASE /\ pc["HIGHE"] = 1 /\ pc["LOWE"] = 1 /\ h = 0
            /\ status["HIGHE"] \in {"dormant", "ready"}
  <2>1. i = 0
    BY <1>11, <1>14, <1>15, <1>19
  <2> QED
    BY <1>2, <1>7, <1>9, <1>17, <1>19, <2>1 DEF HighInTime
<1>20. CASE /\ pc["HIGHE"] = 2 /\ status["HIGHE"] = "asleep" /\ h = 0
            /\ S <= b \/ S <= b + l
  <2>1. i = 0 /\ j = l - 1
    BY <1>15, <1>20
  <2>2. S >= 0 /\ (S = 0 => T = 0) /\ (S > 0 => T = S - 1)
    BY <1>10, <1>11, <1>16, <1>20
  <2>3. T <= b \/ T <= b + j
    <3> HIDE DEF S, T, h, i, l, j, b
    <3> QED
      BY <1>18, <1>20, <2>1, <2>2
  <2> QED
    BY <1>2, <1>7, <1>9, <1>17, <1>20, <2>1, <2>3 DEF HighInTime
<1>21. CASE pc["HIGHE"] = 2 /\ status["HIGHE"] = "ready" /\ h + S <= b
  <2>1. cpu = "LOWE" /\ S > 0
    <3>1. cpu # "HIGHE"
      BY <1>1, <1>4, <1>21 DEF HighInTime
    <3> QED
      BY <1>14, <1>21, <3>1
  <2>2. i = h + 1 /\ T = S - 1
    BY <1>11, <1>15, <1>21, <2>1
  <2>3. i + T <= b
    <3> HIDE DEF S, T, h, i, l, j, b
    <3> QED
      BY <1>18, <1>21, <2>2
  <2> QED
    BY <1>2, <1>7, <1>9, <1>17, <1>21, <2>3 DEF HighInTime
<1>22. CASE /\ pc["HIGHE"] > 2 /\ status["HIGHE"] \in {"ready", "gone"}
            /\ S = 0 /\ h <= b
  <2>1. i = 0 /\ 0 <= b
    BY <1>14, <1>15, <1>18, <1>22
  <2>2. T = 0
    BY <1>11, <1>22
  <2> QED
    BY <1>2, <1>7, <1>9, <1>17, <1>22, <2>1, <2>2 DEF HighInTime
<1> QED
  BY <1>19, <1>20, <1>21, <1>22 DEF HighInTime

(* The accounts are kept by every step.                                    *)
LEMMA InTimeInductive == IInv /\ InTimeE /\ [Next]_vars => InTimeE'
<1> SUFFICES ASSUME IInv, InTimeE, [Next]_vars PROVE InTimeE'
  OBVIOUS
<1>1. CASE UNCHANGED vars
  <2>1. /\ OtherThanE => OtherThanE'
        /\ OnlyE => OnlyE'
    BY <1>1 DEF vars, OtherThanE, OnlyE
  <2>2. Ceiling => Ceiling'
    BY <1>1 DEF vars, Ceiling, Raised, Holds
  <2>3. SectionLeft' = SectionLeft
    BY <1>1 DEF vars, SectionLeft
  <2>4. /\ MainInTime => MainInTime'
        /\ LowInTime => LowInTime'
        /\ HighInTime => HighInTime'
    BY <1>1, <2>3 DEF vars, MainInTime, LowInTime, HighInTime
  <2> QED
    BY <1>1, <2>1, <2>2, <2>4 DEF InTimeE, vars
<1>2. CASE OtherThanE /\ kept["HIGHE"] = 0 /\ Next
  <2>1. OtherThanE'
    BY <1>2, OtherThanEKeeps
  <2>2. kept'["HIGHE"] = 0
    <3>1. CASE Tick
      <4>1. status["HIGHE"] \notin {"ready", "waiting"} /\ "HIGHE" \in Tasks
        BY <1>2, ProgramE DEF OtherThanE
      <4> QED
        BY <3>1, <4>1 DEF Tick
    <3>2. ASSUME NEW t \in Tasks, Step(t) \/ Expire(t) PROVE kept' = kept
      BY <3>2 DEF Step, SemP, SemV, SemBroadcast, SemDelete, MutexDelete, Delete,
         MutexAcquire, MutexRelease, Sleep, Spin, SetPriority, TaskStart, TaskDelete, Pause,
         Return, Pass, Block, Expire
    <3> QED
      BY <1>2, <3>1, <3>2 DEF Next
  <2> QED
    BY <2>1, <2>2 DEF InTimeE
<1>3. CASE OnlyE /\ Ceiling /\ MainInTime /\ LowInTime /\ HighInTime /\ Next
  <2>1. ASSUME NEW t \in Tasks, Step(t) PROVE InTimeE'
    <3>1. t \in TasksE /\ OnlyE'
      BY <1>3, <2>1, OnlyESteps
    <3>2. CASE t = "mainE"
      BY <1>3, <2>1, <3>1, <3>2, MainKeepsCeiling, MainInTimeKeeps DEF InTimeE
    <3>3. CASE t = "HIGHE"
      BY <1>3, <2>1, <3>1, <3>3, HighKeepsCeiling, HighInTimeKeeps DEF InTimeE
    <3>4. CASE t = "LOWE"
      BY <1>3, <2>1, <3>1, <3>4, LowKeepsCeiling, LowInTimeKeeps DEF InTimeE
    <3> QED
      BY <3>1, <3>2, <3>3, <3>4, ProgramE
  <2>2. ASSUME NEW t \in Tasks, Expire(t) PROVE InTimeE'
    BY <1>3, <2>2, ExpireKeepsCeiling, ExpireInTime DEF InTimeE
  <2>3. CASE Tick
    <3>1. OnlyE' /\ Ceiling'
      BY <1>3, <2>3 DEF Tick, OnlyE, Ceiling, Raised, Holds
    <3> QED
      BY <1>3, <2>3, <3>1, TickInTime DEF InTimeE
  <2> QED
    BY <1>3, <2>1, <2>2, <2>3 DEF Next
<1> QED
  BY <1>1, <1>2, <1>3 DEF InTimeE

(* They are right when the program starts.                                 *)
LEMMA InitInTime == Init => InTimeE
<1> SUFFICES ASSUME Init PROVE InTimeE
  OBVIOUS
<1>1. /\ "mainE" \in Tasks /\ "HIGHE" \in Tasks /\ "LOWE" \in Tasks
  BY ProgramE
<1>2. /\ pc["mainE"] = 1 /\ pc["HIGHE"] = 1 /\ pc["LOWE"] = 1
      /\ left["mainE"] = 0 /\ left["HIGHE"] = 0 /\ left["LOWE"] = 0
      /\ kept["HIGHE"] = 0
  BY <1>1 DEF Init
<1>3. CASE OtherThanE
  BY <1>2, <1>3 DEF InTimeE
<1>4. CASE OnlyE /\ Ceiling /\ ~OtherThanE
  <2>1. cpu = "mainE"
    <3>1. cpu \in TasksE
      BY <1>1, <1>4, ProgramE DEF Init, OtherThanE
    <3> QED
      BY <3>1, ProgramE DEF Init
  <2>2. status["mainE"] = "ready" /\ status["HIGHE"] = "dormant" /\ status["LOWE"] = "dormant"
    BY <1>1, <2>1 DEF Init
  <2>3. MainInTime /\ LowInTime
    BY <1>2, <2>2 DEF MainInTime, LowInTime
  <2>4. HighInTime
    BY <1>2, <2>2 DEF HighInTime
  <2> QED
    BY <1>4, <2>3, <2>4 DEF InTimeE
<1> QED
  BY <1>3, <1>4, InitE DEF IInvE

(* The immediate ceiling bounds HIGH's wait: it is kept from running for 5 *)
(* units at most, the rest of LOW's section of 6 units when HIGH wakes     *)
(* after 1, however long a unit is and however late the wake-ups are.      *)
THEOREM CeilingBounds == Spec => []CeilingBlocking
<1>1. IInv /\ InTimeE => CeilingBlocking
  <2> SUFFICES ASSUME IInv, InTimeE PROVE kept["HIGHE"] <= 5 * Unit
    BY DEF CeilingBlocking, KeptAtMost
  <2>1. kept["HIGHE"] \in Nat /\ Unit \in Nat
    BY TimeTypes
  <2>2. CASE OtherThanE /\ kept["HIGHE"] = 0
    BY <2>1, <2>2
  <2>3. CASE LowInTime /\ HighInTime
    <3>1. SectionLeft \in Int /\ SectionLeft >= 0
      BY <2>3, SectionType
    <3> QED
      BY <2>1, <2>3, <3>1 DEF HighInTime
  <2> QED
    BY <2>2, <2>3 DEF InTimeE
<1> QED
  BY <1>1, InitInTime, InTimeInductive, Invariance, PTL DEF Spec

-----------------------------------------------------------------------------
(* Tasks B and C are the same program with a different resource.  Here p   *)
(* is "B" or "C".                                                          *)
BC == {"B", "C"}
MainOf(p) == IF p = "B" THEN "mainB" ELSE "mainC"
HighOf(p) == IF p = "B" THEN "HIGHB" ELSE "HIGHC"
MediumOf(p) == IF p = "B" THEN "MEDIUMB" ELSE "MEDIUMC"
LowOf(p) == IF p = "B" THEN "LOWB" ELSE "LOWC"
BarrierOf(p) == IF p = "B" THEN "semaphoreB" ELSE "semaphoreC"
ResourceOf(p) == IF p = "B" THEN "resourceB" ELSE "resourceC"
WorkersOf(p) == {HighOf(p), MediumOf(p), LowOf(p)}
TasksOf(p) == WorkersOf(p) \cup {MainOf(p)}

(* LOW and HIGH are at the call in which they use the resource.            *)
LowHas(p) == pc[LowOf(p)] \in {3, 4}
HighHas(p) == pc[HighOf(p)] \in {4, 5}

(* The resource is with the one of them that is, or to be had.             *)
ResourceRight(p) ==
  IF p = "B" THEN semVal["resourceB"] = IF LowHas(p) \/ HighHas(p) THEN 0 ELSE 1
  ELSE owner["resourceC"] = IF LowHas(p) THEN LowOf(p)
                            ELSE IF HighHas(p) THEN HighOf(p) ELSE None

(* How long main has slept since the broadcast.                            *)
Spent(p) == IF pc[MainOf(p)] = 7 THEN 20 * Unit - left[MainOf(p)] ELSE 0

(* How long each of the others still has to spin.                          *)
WorkOf(t, at, n) ==
  IF pc[t] <= at THEN n * Unit ELSE IF pc[t] = at + 1 THEN left[t] ELSE 0
HighWork(p) == WorkOf(HighOf(p), 4, 2)
MediumWork(p) == WorkOf(MediumOf(p), 3, 5)
LowWork(p) == WorkOf(LowOf(p), 3, 3)

(* Another program runs, or this one has ended.                            *)
Elsewhere(p) ==
  /\ \A t \in TasksOf(p) : status[t] \in {"dormant", "gone"}
  /\ ResourceOf(p) \in deleted => \A t \in WorkersOf(p) : status[t] = "gone"

(* This program runs and nothing else does; nobody changes a priority.     *)
Only(p) ==
  /\ \A t \in Tasks \ TasksOf(p) : status[t] \in {"dormant", "gone"}
  /\ \A t \in TasksOf(p) : bprio[t] = Priority[t]

(* Until the broadcast: the tasks are started and come to the barrier.     *)
Gathering(p) ==
  LET m == MainOf(p) IN
  /\ \/ pc[m] \in 1 .. 5 /\ status[m] = "ready" /\ left[m] = 0
     \/ pc[m] = 5 /\ status[m] = "asleep" /\ left[m] \in -Latency .. Unit
  /\ on[m] = None
  /\ status[HighOf(p)] = "dormant" => pc[m] <= 1
  /\ status[MediumOf(p)] = "dormant" => pc[m] <= 2
  /\ status[LowOf(p)] = "dormant" => pc[m] <= 3
  /\ \A t \in WorkersOf(p) :
       /\ pc[t] = 1 /\ left[t] = 0
       /\ status[t] \in {"dormant", "ready", "waiting"}
       /\ on[t] = IF status[t] = "waiting" THEN BarrierOf(p) ELSE None
       /\ pc[m] = 5 /\ (status[m] = "ready" \/ left[m] < Unit) => status[t] = "waiting"
  /\ semVal[BarrierOf(p)] = 0
  /\ BarrierOf(p) \notin deleted /\ ResourceOf(p) \notin deleted
  /\ ResourceRight(p)

(* From the broadcast until main wakes: what each of the three does while  *)
(* main sleeps.                                                            *)
HighWorks(p) ==
  LET t == HighOf(p) IN
  \/ pc[t] = 2 /\ status[t] = "ready" /\ left[t] = 0 /\ Spent(p) = 0
  \/ /\ pc[t] = 3 /\ status[t] = "asleep"
     /\ left[t] = 2 * Unit - Spent(p) /\ left[t] >= -Latency
  \/ pc[t] = 3 /\ status[t] = "ready" /\ left[t] = 0 /\ Spent(p) >= 2 * Unit
  \/ pc[t] = 3 /\ status[t] = "waiting" /\ left[t] = 0 /\ Spent(p) >= 2 * Unit /\ LowHas(p)
  \/ pc[t] = 4 /\ status[t] = "ready" /\ left[t] = 0 /\ Spent(p) >= 2 * Unit
  \/ pc[t] = 5 /\ status[t] = "ready" /\ left[t] \in 0 .. 2 * Unit /\ Spent(p) >= 2 * Unit
  \/ pc[t] = 6 /\ status[t] \in {"ready", "gone"} /\ left[t] = 0 /\ Spent(p) >= 2 * Unit

MediumWorks(p) ==
  LET t == MediumOf(p) IN
  \/ pc[t] = 2 /\ status[t] = "ready" /\ left[t] = 0 /\ Spent(p) = 0
  \/ /\ pc[t] = 3 /\ status[t] = "asleep"
     /\ left[t] = Unit - Spent(p) /\ left[t] >= -Latency
  \/ pc[t] = 3 /\ status[t] = "ready" /\ left[t] = 0 /\ Spent(p) >= Unit
  \/ pc[t] = 4 /\ status[t] = "ready" /\ left[t] \in 0 .. 5 * Unit /\ Spent(p) >= Unit
  \/ pc[t] = 4 /\ status[t] = "gone" /\ left[t] = 0

LowWorks(p) ==
  LET t == LowOf(p) IN
  \/ pc[t] = 2 /\ status[t] = "ready" /\ left[t] = 0 /\ Spent(p) = 0
  \/ pc[t] = 3 /\ status[t] = "ready" /\ left[t] = 0
  \/ pc[t] = 4 /\ status[t] = "ready" /\ left[t] \in 0 .. 3 * Unit
  \/ pc[t] = 5 /\ status[t] \in {"ready", "gone"} /\ left[t] = 0

(* Once nobody can be asleep, every tick is one of their work.             *)
InTimeOf(p) ==
  (\E t \in WorkersOf(p) : status[t] # "gone") =>
    \/ Spent(p) <= 2 * Unit + Latency
    \/ HighWork(p) + MediumWork(p) + LowWork(p) + Spent(p) <= 12 * Unit + Latency

Working(p) ==
  LET m == MainOf(p) IN
  /\ \/ pc[m] = 6 /\ status[m] = "ready" /\ left[m] = 0
     \/ pc[m] = 7 /\ status[m] = "asleep" /\ left[m] <= 20 * Unit
  /\ \A t \in TasksOf(p) :
       on[t] = IF status[t] = "waiting" THEN ResourceOf(p) ELSE None
  /\ HighWorks(p) /\ MediumWorks(p) /\ LowWorks(p)
  /\ ~(LowHas(p) /\ HighHas(p))
  /\ ResourceOf(p) \notin deleted
  /\ ResourceRight(p)
  /\ InTimeOf(p)

(* main has woken, and deletes what nobody uses any more.                  *)
Finishing(p) ==
  /\ pc[MainOf(p)] \in 7 .. 12 /\ status[MainOf(p)] = "ready"
  /\ \A t \in WorkersOf(p) : status[t] = "gone"

(* In task C, how long HIGH and MEDIUM have been kept from running: first  *)
(* they wait for the barrier.                                              *)
GatherWaits(p) ==
  LET m == MainOf(p) IN
  \A t \in {HighOf(p), MediumOf(p)} :
    kept[t] <= IF pc[m] < 5 THEN 0
               ELSE IF status[m] = "asleep" THEN Unit - left[m] ELSE Unit + Latency

(* Then HIGH waits for LOW's section, and MEDIUM for what the others spin. *)
HighWaits(p) ==
  LET t == HighOf(p) IN
  p = "C" =>
    \/ pc[t] = 2 /\ kept[t] <= Unit + Latency
    \/ /\ pc[t] = 3 /\ status[t] = "asleep" /\ kept[t] <= Unit + Latency
       /\ kept[t] = 0 \/ left[t] = 2 * Unit
    \/ pc[t] = 3 /\ status[t] = "ready" /\ kept[t] = 0
    \/ pc[t] = 3 /\ status[t] = "waiting" /\ kept[t] + LowWork(p) <= 3 * Unit
    \/ pc[t] > 3 /\ kept[t] <= 3 * Unit

MediumWaits(p) ==
  LET t == MediumOf(p) IN
  \/ pc[t] = 2 /\ kept[t] <= Unit + Latency
  \/ /\ pc[t] = 3 /\ status[t] = "asleep" /\ kept[t] <= Unit + Latency
     /\ kept[t] = 0 \/ left[t] = Unit
  \/ /\ pc[t] \in {3, 4} /\ status[t] # "asleep"
     /\ kept[t] + HighWork(p) + LowWork(p) <= 5 * Unit

Bounded(p) ==
  /\ p = "C" => kept[HighOf(p)] <= 3 * Unit
  /\ kept[MediumOf(p)] <= 5 * Unit

(* In each phase HIGH and MEDIUM have been kept from running no longer     *)
(* than it allows.                                                         *)
Phases(p) ==
  \/ Gathering(p) /\ GatherWaits(p)
  \/ Working(p) /\ HighWaits(p) /\ MediumWaits(p)
  \/ Finishing(p) /\ Bounded(p)

IInvBC(p) == (Elsewhere(p) /\ Bounded(p)) \/ (Only(p) /\ Phases(p))

-----------------------------------------------------------------------------
(* The four tasks of the program, its objects, and that they are its own.  *)
LEMMA ProgramBC ==
  ASSUME NEW p \in BC
  PROVE  /\ TasksOf(p) \subseteq Tasks /\ TasksOf(p) \cap Mains = {MainOf(p)}
         /\ MainOf(p) # HighOf(p) /\ MainOf(p) # MediumOf(p) /\ MainOf(p) # LowOf(p)
         /\ HighOf(p) # MediumOf(p) /\ HighOf(p) # LowOf(p) /\ MediumOf(p) # LowOf(p)
         /\ Priority[MainOf(p)] = 50 /\ Priority[HighOf(p)] = 40
         /\ Priority[MediumOf(p)] = 30 /\ Priority[LowOf(p)] = 20
         /\ BarrierOf(p) # ResourceOf(p)
         /\ BarrierOf(p) \in Sems /\ SemInit[BarrierOf(p)] = 0
         /\ p = "B" => ResourceOf(p) \in Sems /\ SemInit[ResourceOf(p)] = 1
         /\ p = "C" => ResourceOf(p) \in Mutexes
         /\ \A t \in Tasks \ TasksOf(p) : \A i \in 1 .. Len(Prog[t]) :
              Prog[t][i].obj \notin TasksOf(p) \cup {BarrierOf(p), ResourceOf(p)}
<1>1. DOMAIN ProgB = {"mainB", "HIGHB", "MEDIUMB", "LOWB"}
  BY DEF ProgB, WorkersB
<1>2. DOMAIN ProgC = {"mainC", "HIGHC", "MEDIUMC", "LOWC"}
  BY DEF ProgC, WorkersC
<1>3. DOMAIN SemInitB = {"semaphoreB", "resourceB"} /\ DOMAIN SemInitC = {"semaphoreC"}
  BY DEF SemInitB, SemInitC
<1>4. SemInitB["semaphoreB"] = 0 /\ SemInitB["resourceB"] = 1 /\ SemInitC["semaphoreC"] = 0
  BY DEF SemInitB, SemInitC
<1>5. \A t \in Tasks : DOMAIN Prog[t] = 1 .. Len(Prog[t])
  BY KernelAssumption
<1>6. CASE p = "B"
  <2>1. TasksOf(p) = DOMAIN ProgB /\ {BarrierOf(p), ResourceOf(p)} = DOMAIN SemInitB
    BY <1>1, <1>3, <1>6
       DEF TasksOf, WorkersOf, MainOf, HighOf, MediumOf, LowOf, BarrierOf, ResourceOf
  <2>2. \A t \in Tasks \ TasksOf(p) : \A i \in 1 .. Len(Prog[t]) :
          Prog[t][i].obj \notin TasksOf(p) \cup {BarrierOf(p), ResourceOf(p)}
    BY <1>5, <2>1, TaskBCAssumption
  <2>3. TasksOf(p) \subseteq Tasks /\ TasksOf(p) \cap Mains = {MainOf(p)}
    BY <1>6, <2>1, TaskBCAssumption DEF MainOf
  <2>4. PriorityBC["mainB"] = 50 /\ PriorityBC["HIGHB"] = 40 /\ PriorityBC["MEDIUMB"] = 30
        /\ PriorityBC["LOWB"] = 20
    BY DEF PriorityBC
  <2>5. /\ Priority[MainOf(p)] = 50 /\ Priority[HighOf(p)] = 40
        /\ Priority[MediumOf(p)] = 30 /\ Priority[LowOf(p)] = 20
    BY <1>1, <1>6, <2>4, TaskBCAssumption DEF MainOf, HighOf, MediumOf, LowOf
  <2>6. /\ BarrierOf(p) # ResourceOf(p)
        /\ BarrierOf(p) \in Sems /\ SemInit[BarrierOf(p)] = 0
        /\ ResourceOf(p) \in Sems /\ SemInit[ResourceOf(p)] = 1
    BY <1>3, <1>4, <1>6, TaskBCAssumption DEF BarrierOf, ResourceOf
  <2> QED
    BY <1>6, <2>2, <2>3, <2>5, <2>6 DEF MainOf, HighOf, MediumOf, LowOf
<1>7. CASE p = "C"
  <2>1. /\ TasksOf(p) = DOMAIN ProgC
        /\ {BarrierOf(p), ResourceOf(p)} = DOMAIN SemInitC \cup MutexesC
    BY <1>2, <1>3, <1>7
       DEF TasksOf, WorkersOf, MainOf, HighOf, MediumOf, LowOf, BarrierOf, ResourceOf, MutexesC
  <2>2. \A t \in Tasks \ TasksOf(p) : \A i \in 1 .. Len(Prog[t]) :
          Prog[t][i].obj \notin TasksOf(p) \cup {BarrierOf(p), ResourceOf(p)}
    BY <1>5, <2>1, TaskBCAssumption
  <2>3. TasksOf(p) \subseteq Tasks /\ TasksOf(p) \cap Mains = {MainOf(p)}
    BY <1>7, <2>1, TaskBCAssumption DEF MainOf
  <2>4. PriorityBC["mainC"] = 50 /\ PriorityBC["HIGHC"] = 40 /\ PriorityBC["MEDIUMC"] = 30
        /\ PriorityBC["LOWC"] = 20
    BY DEF PriorityBC
  <2>5. /\ Priority[MainOf(p)] = 50 /\ Priority[HighOf(p)] = 40
        /\ Priority[MediumOf(p)] = 30 /\ Priority[LowOf(p)] = 20
    BY <1>2, <1>7, <2>4, TaskBCAssumption DEF MainOf, HighOf, MediumOf, LowOf
  <2>6. /\ BarrierOf(p) # ResourceOf(p)
        /\ BarrierOf(p) \in Sems /\ SemInit[BarrierOf(p)] = 0
        /\ ResourceOf(p) \in Mutexes
    BY <1>3, <1>4, <1>7, TaskBCAssumption DEF BarrierOf, ResourceOf, MutexesC
  <2> QED
    BY <1>7, <2>2, <2>3, <2>5, <2>6 DEF MainOf, HighOf, MediumOf, LowOf
<1> QED
  BY <1>6, <1>7 DEF BC

(* The calls that take, give back and delete the resource.                 *)
TakeCall(p) == IF p = "B" THEN rt_sem_p("resourceB") ELSE rt_mutex_acquire("resourceC")
GiveCall(p) == IF p = "B" THEN rt_sem_v("resourceB") ELSE rt_mutex_release("resourceC")
DropCall(p) == IF p = "B" THEN rt_sem_delete("resourceB") ELSE rt_mutex_delete("resourceC")

(* The three programs, in source order.                                    *)
LEMMA CallsBC ==
  ASSUME NEW p \in BC
  PROVE  /\ Prog[HighOf(p)] = <<rt_sem_p(BarrierOf(p)), rt_task_sleep(2), TakeCall(p),
                                busy_wait_us(2), GiveCall(p)>>
         /\ Prog[MediumOf(p)] = <<rt_sem_p(BarrierOf(p)), rt_task_sleep(1), busy_wait_us(5)>>
         /\ Prog[LowOf(p)] = <<rt_sem_p(BarrierOf(p)), TakeCall(p), busy_wait_us(3), GiveCall(p)>>
         /\ Prog[MainOf(p)] =
              <<rt_task_start(HighOf(p)), rt_task_start(MediumOf(p)), rt_task_start(LowOf(p)),
                rt_task_sleep(1), rt_sem_broadcast(BarrierOf(p)), rt_task_sleep(20),
                rt_sem_delete(BarrierOf(p)), DropCall(p), rt_task_delete(HighOf(p)),
                rt_task_delete(MediumOf(p)), rt_task_delete(LowOf(p))>>
<1>1. DOMAIN ProgB = {"mainB", "HIGHB", "MEDIUMB", "LOWB"}
      /\ ProgB["mainB"] = MainB /\ ProgB["HIGHB"] = HighB
      /\ ProgB["MEDIUMB"] = MediumB /\ ProgB["LOWB"] = LowB
  BY DEF ProgB, WorkersB
<1>2. DOMAIN ProgC = {"mainC", "HIGHC", "MEDIUMC", "LOWC"}
      /\ ProgC["mainC"] = MainC /\ ProgC["HIGHC"] = HighC
      /\ ProgC["MEDIUMC"] = MediumC /\ ProgC["LOWC"] = LowC
  BY DEF ProgC, WorkersC
<1>3. CASE p = "B"
  <2>1. Prog["mainB"] = MainB /\ Prog["HIGHB"] = HighB
        /\ Prog["MEDIUMB"] = MediumB /\ Prog["LOWB"] = LowB
    BY <1>1, TaskBCAssumption
  <2> QED
    BY <1>3, <2>1 DEF MainOf, HighOf, MediumOf, LowOf, BarrierOf, TakeCall, GiveCall, DropCall,
       MainB, HighB, MediumB, LowB
<1>4. CASE p = "C"
  <2>1. Prog["mainC"] = MainC /\ Prog["HIGHC"] = HighC
        /\ Prog["MEDIUMC"] = MediumC /\ Prog["LOWC"] = LowC
    BY <1>2, TaskBCAssumption
  <2> QED
    BY <1>4, <2>1 DEF MainOf, HighOf, MediumOf, LowOf, BarrierOf, TakeCall, GiveCall, DropCall,
       MainC, HighC, MediumC, LowC
<1> QED
  BY <1>3, <1>4 DEF BC

(* A task past its last call returns.                                      *)
LEMMA TheReturn ==
  ASSUME NEW t \in Tasks, Step(t), pc[t] = Len(Prog[t]) + 1, Len(Prog[t]) \in Nat
  PROVE  Return(t)
BY DEF Step, SemP, SemV, SemBroadcast, SemDelete, MutexDelete, Delete, MutexAcquire,
       MutexRelease, Sleep, Spin, SetPriority, TaskStart, TaskDelete, Pause, Return, Calling

(* Calls take no time, and only one of them changes a priority.            *)
LEMMA CallsCostNothing ==
  ASSUME NEW t \in Tasks, Step(t)
  PROVE  kept' = kept /\ (bprio' = bprio \/ Calling(t, "set_priority"))
BY DEF Step, SemP, SemV, SemBroadcast, SemDelete, MutexDelete, Delete, MutexAcquire,
       MutexRelease, Sleep, Spin, SetPriority, TaskStart, TaskDelete, Pause, Return, Pass, Block

(* What t does with the resource.                                          *)
Takes(p, t) ==
  /\ p = "B" => SemP(t)
  /\ p = "C" => MutexAcquire(t)
  /\ Obj(t) = ResourceOf(p)
Gives(p, t) ==
  /\ p = "B" => SemV(t)
  /\ p = "C" => MutexRelease(t)
  /\ Obj(t) = ResourceOf(p)
Drops(p, t) ==
  /\ p = "B" => SemDelete(t)
  /\ p = "C" => MutexDelete(t)
  /\ Obj(t) = ResourceOf(p)

(* The call that t makes, whose operation is one of those of B and C.      *)
Makes(t, call) ==
  /\ Obj(t) = call.obj /\ Num(t) = call.n
  /\ call.op # "set_priority" => bprio' = bprio
  /\ call.op = "mutex_acquire" => MutexAcquire(t)
  /\ call.op = "mutex_release" => MutexRelease(t)
  /\ call.op = "sem_p" => SemP(t)
  /\ call.op = "sem_v" => SemV(t)
  /\ call.op = "sem_delete" => SemDelete(t)
  /\ call.op = "mutex_delete" => MutexDelete(t)
  /\ call.op = "task_delete" => TaskDelete(t)
  /\ call.op = "sem_broadcast" => SemBroadcast(t)
  /\ call.op = "sleep" => Sleep(t)
  /\ call.op = "spin" => Spin(t)
  /\ call.op = "task_start" => TaskStart(t)

(* What the running task does is its next call, or to return.              *)
LEMMA NextCall ==
  ASSUME IInv, NEW t \in Tasks, Step(t), Len(Prog[t]) \in Nat
  PROVE  /\ pc[t] \in 1 .. Len(Prog[t]) + 1
         /\ cpu = t /\ status[t] = "ready" /\ on[t] = None /\ left[t] = 0 /\ kept' = kept
         /\ pc[t] = Len(Prog[t]) + 1 => Return(t)
         /\ pc[t] # Len(Prog[t]) + 1 => Makes(t, Prog[t][pc[t]])
<1>1. cpu = t /\ status[t] = "ready" /\ on[t] = None /\ left[t] = 0 /\ kept' = kept
  BY StepperRuns, CallsCostNothing
<1>2. pc[t] \in 1 .. Len(Prog[t]) + 1
  BY DEF IInv, TypeOK
<1>3. pc[t] = Len(Prog[t]) + 1 => Return(t)
  BY TheReturn
<1>4. ASSUME pc[t] # Len(Prog[t]) + 1 PROVE Makes(t, Prog[t][pc[t]])
  <2> DEFINE op == Prog[t][pc[t]].op
  <2>1. pc[t] <= Len(Prog[t])
    BY <1>2, <1>4
  <2> HIDE DEF op
  <2>2. /\ Calling(t, op)
        /\ op = "mutex_acquire" => MutexAcquire(t)
        /\ op = "mutex_release" => MutexRelease(t)
        /\ op = "sem_p" => SemP(t)
        /\ op = "sem_v" => SemV(t)
        /\ op = "sem_delete" => SemDelete(t)
        /\ op = "mutex_delete" => MutexDelete(t)
        /\ op = "task_delete" => TaskDelete(t)
        /\ op = "sem_broadcast" => SemBroadcast(t)
        /\ op = "sleep" => Sleep(t)
        /\ op = "spin" => Spin(t)
        /\ op = "task_start" => TaskStart(t)
    BY <1>4, <2>1, TheCall DEF op
  <2>3. op # "set_priority" => bprio' = bprio
    BY <2>2, CallsCostNothing DEF Calling
  <2> QED
    BY <2>2, <2>3 DEF op, Makes, Obj, Num
<1> QED
  BY <1>1, <1>2, <1>3, <1>4

(* The steps of LOW.                                                       *)
LEMMA LowCall ==
  ASSUME IInv, NEW p \in BC, NEW t, t = LowOf(p), Step(t)
  PROVE  /\ cpu = t /\ status[t] = "ready" /\ on[t] = None /\ left[t] = 0
         /\ kept' = kept /\ bprio' = bprio
         /\ \/ pc[t] = 1 /\ SemP(t) /\ Obj(t) = BarrierOf(p)
            \/ pc[t] = 2 /\ Takes(p, t)
            \/ pc[t] = 3 /\ Spin(t) /\ Num(t) = 3
            \/ pc[t] = 4 /\ Gives(p, t)
            \/ pc[t] = 5 /\ Return(t)
<1> DEFINE k == pc[t]
<1>1. t \in Tasks
  BY ProgramBC, KernelAssumption DEF TasksOf, WorkersOf
<1>2. /\ Len(Prog[t]) = 4 /\ Prog[t][1] = rt_sem_p(BarrierOf(p)) /\ Prog[t][2] = TakeCall(p)
      /\ Prog[t][3] = busy_wait_us(3) /\ Prog[t][4] = GiveCall(p)
  <2>1. Prog[t] = <<rt_sem_p(BarrierOf(p)), TakeCall(p), busy_wait_us(3), GiveCall(p)>>
    BY CallsBC
  <2> QED
    BY <2>1
<1>4. /\ k \in 1 .. 5
      /\ cpu = t /\ status[t] = "ready" /\ on[t] = None /\ left[t] = 0 /\ kept' = kept
      /\ k = 5 => Return(t)
      /\ k # 5 => Makes(t, Prog[t][k])
  <2>1. Len(Prog[t]) \in Nat
    BY <1>2
  <2>2. /\ pc[t] \in 1 .. Len(Prog[t]) + 1
        /\ cpu = t /\ status[t] = "ready" /\ on[t] = None /\ left[t] = 0 /\ kept' = kept
        /\ pc[t] = Len(Prog[t]) + 1 => Return(t)
        /\ pc[t] # Len(Prog[t]) + 1 => Makes(t, Prog[t][pc[t]])
    BY <1>1, <2>1, NextCall
  <2> QED
    BY <1>2, <2>2
<1>5. k \in {1, 2, 3, 4, 5}
  BY <1>4
<1> HIDE DEF k
<1>7. CASE k = 1
  BY <1>2, <1>4, <1>7 DEF rt_sem_p, Call, Makes, k
<1>8. CASE k = 2
  BY <1>2, <1>4, <1>8
     DEF TakeCall, Takes, rt_sem_p, rt_mutex_acquire, Call, Makes, ResourceOf, BC, k
<1>9. CASE k = 3
  BY <1>2, <1>4, <1>9 DEF busy_wait_us, Call, Makes, k
<1>10. CASE k = 4
  BY <1>2, <1>4, <1>10
     DEF GiveCall, Gives, rt_sem_v, rt_mutex_release, Call, Makes, ResourceOf, BC, k
<1>11. CASE k = 5
  BY <1>4, <1>11 DEF Return, k
<1> QED
  BY <1>5, <1>7, <1>8, <1>9, <1>10, <1>11

(* The steps of MEDIUM.                                                    *)
LEMMA MediumCall ==
  ASSUME IInv, NEW p \in BC, NEW t, t = MediumOf(p), Step(t)
  PROVE  /\ cpu = t /\ status[t] = "ready" /\ on[t] = None /\ left[t] = 0
         /\ kept' = kept /\ bprio' = bprio
         /\ \/ pc[t] = 1 /\ SemP(t) /\ Obj(t) = BarrierOf(p)
            \/ pc[t] = 2 /\ Sleep(t) /\ Num(t) = 1
            \/ pc[t] = 3 /\ Spin(t) /\ Num(t) = 5
            \/ pc[t] = 4 /\ Return(t)
<1> DEFINE k == pc[t]
<1>1. t \in Tasks
  BY ProgramBC, KernelAssumption DEF TasksOf, WorkersOf
<1>2. /\ Len(Prog[t]) = 3 /\ Prog[t][1] = rt_sem_p(BarrierOf(p))
      /\ Prog[t][2] = rt_task_sleep(1) /\ Prog[t][3] = busy_wait_us(5)
  <2>1. Prog[t] = <<rt_sem_p(BarrierOf(p)), rt_task_sleep(1), busy_wait_us(5)>>
    BY CallsBC
  <2> QED
    BY <2>1
<1>4. /\ k \in 1 .. 4
      /\ cpu = t /\ status[t] = "ready" /\ on[t] = None /\ left[t] = 0 /\ kept' = kept
      /\ k = 4 => Return(t)
      /\ k # 4 => Makes(t, Prog[t][k])
  <2>1. Len(Prog[t]) \in Nat
    BY <1>2
  <2>2. /\ pc[t] \in 1 .. Len(Prog[t]) + 1
        /\ cpu = t /\ status[t] = "ready" /\ on[t] = None /\ left[t] = 0 /\ kept' = kept
        /\ pc[t] = Len(Prog[t]) + 1 => Return(t)
        /\ pc[t] # Len(Prog[t]) + 1 => Makes(t, Prog[t][pc[t]])
    BY <1>1, <2>1, NextCall
  <2> QED
    BY <1>2, <2>2
<1>5. k \in {1, 2, 3, 4}
  BY <1>4
<1> HIDE DEF k
<1>7. CASE k = 1
  BY <1>2, <1>4, <1>7 DEF rt_sem_p, Call, Makes, k
<1>8. CASE k = 2
  BY <1>2, <1>4, <1>8 DEF rt_task_sleep, Call, Makes, k
<1>9. CASE k = 3
  BY <1>2, <1>4, <1>9 DEF busy_wait_us, Call, Makes, k
<1>10. CASE k = 4
  BY <1>4, <1>10 DEF Return, k
<1> QED
  BY <1>5, <1>7, <1>8, <1>9, <1>10

(* The steps of HIGH.                                                      *)
LEMMA HighCall ==
  ASSUME IInv, NEW p \in BC, NEW t, t = HighOf(p), Step(t)
  PROVE  /\ cpu = t /\ status[t] = "ready" /\ on[t] = None /\ left[t] = 0
         /\ kept' = kept /\ bprio' = bprio
         /\ \/ pc[t] = 1 /\ SemP(t) /\ Obj(t) = BarrierOf(p)
            \/ pc[t] = 2 /\ Sleep(t) /\ Num(t) = 2
            \/ pc[t] = 3 /\ Takes(p, t)
            \/ pc[t] = 4 /\ Spin(t) /\ Num(t) = 2
            \/ pc[t] = 5 /\ Gives(p, t)
            \/ pc[t] = 6 /\ Return(t)
<1> DEFINE k == pc[t]
<1>1. t \in Tasks
  BY ProgramBC, KernelAssumption DEF TasksOf, WorkersOf
<1>2. /\ Len(Prog[t]) = 5 /\ Prog[t][1] = rt_sem_p(BarrierOf(p))
      /\ Prog[t][2] = rt_task_sleep(2) /\ Prog[t][3] = TakeCall(p)
      /\ Prog[t][4] = busy_wait_us(2) /\ Prog[t][5] = GiveCall(p)
  <2>1. Prog[t] = <<rt_sem_p(BarrierOf(p)), rt_task_sleep(2), TakeCall(p), busy_wait_us(2),
                     GiveCall(p)>>
    BY CallsBC
  <2> QED
    BY <2>1
<1>4. /\ k \in 1 .. 6
      /\ cpu = t /\ status[t] = "ready" /\ on[t] = None /\ left[t] = 0 /\ kept' = kept
      /\ k = 6 => Return(t)
      /\ k # 6 => Makes(t, Prog[t][k])
  <2>1. Len(Prog[t]) \in Nat
    BY <1>2
  <2>2. /\ pc[t] \in 1 .. Len(Prog[t]) + 1
        /\ cpu = t /\ status[t] = "ready" /\ on[t] = None /\ left[t] = 0 /\ kept' = kept
        /\ pc[t] = Len(Prog[t]) + 1 => Return(t)
        /\ pc[t] # Len(Prog[t]) + 1 => Makes(t, Prog[t][pc[t]])
    BY <1>1, <2>1, NextCall
  <2> QED
    BY <1>2, <2>2
<1>5. k \in {1, 2, 3, 4, 5, 6}
  BY <1>4
<1> HIDE DEF k
<1>7. CASE k = 1
  BY <1>2, <1>4, <1>7 DEF rt_sem_p, Call, Makes, k
<1>8. CASE k = 2
  BY <1>2, <1>4, <1>8 DEF rt_task_sleep, Call, Makes, k
<1>9. CASE k = 3
  BY <1>2, <1>4, <1>9
     DEF TakeCall, Takes, rt_sem_p, rt_mutex_acquire, Call, Makes, ResourceOf, BC, k
<1>10. CASE k = 4
  BY <1>2, <1>4, <1>10 DEF busy_wait_us, Call, Makes, k
<1>11. CASE k = 5
  BY <1>2, <1>4, <1>11
     DEF GiveCall, Gives, rt_sem_v, rt_mutex_release, Call, Makes, ResourceOf, BC, k
<1>12. CASE k = 6
  BY <1>4, <1>12 DEF Return, k
<1> QED
  BY <1>5, <1>7, <1>8, <1>9, <1>10, <1>11, <1>12

(* The steps of main.                                                      *)
LEMMA MainCall ==
  ASSUME IInv, NEW p \in BC, NEW t, t = MainOf(p), Step(t)
  PROVE  /\ cpu = t /\ status[t] = "ready" /\ on[t] = None /\ left[t] = 0
         /\ kept' = kept /\ bprio' = bprio
         /\ \/ pc[t] = 1 /\ TaskStart(t) /\ Obj(t) = HighOf(p)
            \/ pc[t] = 2 /\ TaskStart(t) /\ Obj(t) = MediumOf(p)
            \/ pc[t] = 3 /\ TaskStart(t) /\ Obj(t) = LowOf(p)
            \/ pc[t] = 4 /\ Sleep(t) /\ Num(t) = 1
            \/ pc[t] = 5 /\ SemBroadcast(t) /\ Obj(t) = BarrierOf(p)
            \/ pc[t] = 6 /\ Sleep(t) /\ Num(t) = 20
            \/ pc[t] = 7 /\ SemDelete(t) /\ Obj(t) = BarrierOf(p)
            \/ pc[t] = 8 /\ Drops(p, t)
            \/ pc[t] \in {9, 10, 11} /\ TaskDelete(t) /\ Obj(t) \in WorkersOf(p)
            \/ pc[t] = 12 /\ Return(t)
<1> DEFINE k == pc[t]
<1>1. t \in Tasks
  BY ProgramBC, KernelAssumption DEF TasksOf, WorkersOf
<1>2. /\ Len(Prog[t]) = 11 /\ Prog[t][1] = rt_task_start(HighOf(p))
      /\ Prog[t][2] = rt_task_start(MediumOf(p)) /\ Prog[t][3] = rt_task_start(LowOf(p))
      /\ Prog[t][4] = rt_task_sleep(1) /\ Prog[t][5] = rt_sem_broadcast(BarrierOf(p))
      /\ Prog[t][6] = rt_task_sleep(20) /\ Prog[t][7] = rt_sem_delete(BarrierOf(p))
      /\ Prog[t][8] = DropCall(p) /\ Prog[t][9] = rt_task_delete(HighOf(p))
      /\ Prog[t][10] = rt_task_delete(MediumOf(p)) /\ Prog[t][11] = rt_task_delete(LowOf(p))
  <2>1. Prog[t] =
          <<rt_task_start(HighOf(p)), rt_task_start(MediumOf(p)), rt_task_start(LowOf(p)),
            rt_task_sleep(1), rt_sem_broadcast(BarrierOf(p)), rt_task_sleep(20),
            rt_sem_delete(BarrierOf(p)), DropCall(p), rt_task_delete(HighOf(p)),
            rt_task_delete(MediumOf(p)), rt_task_delete(LowOf(p))>>
    BY CallsBC
  <2> QED
    BY <2>1
<1>4. /\ k \in 1 .. 12
      /\ cpu = t /\ status[t] = "ready" /\ on[t] = None /\ left[t] = 0 /\ kept' = kept
      /\ k = 12 => Return(t)
      /\ k # 12 => Makes(t, Prog[t][k])
  <2>1. Len(Prog[t]) \in Nat
    BY <1>2
  <2>2. /\ pc[t] \in 1 .. Len(Prog[t]) + 1
        /\ cpu = t /\ status[t] = "ready" /\ on[t] = None /\ left[t] = 0 /\ kept' = kept
        /\ pc[t] = Len(Prog[t]) + 1 => Return(t)
        /\ pc[t] # Len(Prog[t]) + 1 => Makes(t, Prog[t][pc[t]])
    BY <1>1, <2>1, NextCall
  <2> QED
    BY <1>2, <2>2
<1>5. k \in {1, 2, 3, 4, 5, 6, 7, 8, 9, 10, 11, 12}
  BY <1>4
<1> HIDE DEF k
<1>7. CASE k \in {1, 2, 3}
  BY <1>2, <1>4, <1>7 DEF rt_task_start, Call, Makes, k
<1>8. CASE k \in {4, 6}
  BY <1>2, <1>4, <1>8 DEF rt_task_sleep, Call, Makes, k
<1>9. CASE k = 5
  BY <1>2, <1>4, <1>9 DEF rt_sem_broadcast, Call, Makes, k
<1>10. CASE k = 7
  BY <1>2, <1>4, <1>10 DEF rt_sem_delete, Call, Makes, k
<1>11. CASE k = 8
  BY <1>2, <1>4, <1>11
     DEF DropCall, Drops, rt_sem_delete, rt_mutex_delete, Call, Makes, ResourceOf, BC, k
<1>12. CASE k \in {9, 10, 11}
  BY <1>2, <1>4, <1>12 DEF rt_task_delete, Call, Makes, WorkersOf, k
<1>13. CASE k = 12
  BY <1>4, <1>13 DEF Return, k
<1> QED
  BY <1>5, <1>7, <1>8, <1>9, <1>10, <1>11, <1>12, <1>13

-----------------------------------------------------------------------------
(* The types of what the steps of B and C change.                          *)
LEMMA TypesBC ==
  ASSUME IInv, NEW p \in BC
  PROVE  /\ HighOf(p) \in Tasks /\ MediumOf(p) \in Tasks /\ LowOf(p) \in Tasks
         /\ MainOf(p) \in Tasks
         /\ pc \in [Tasks -> Nat] /\ status \in [Tasks -> Status] /\ bprio \in [Tasks -> Nat]
         /\ left \in [Tasks -> Int] /\ kept \in [Tasks -> Nat]
         /\ on \in [Tasks -> Objects \cup {None}]
         /\ semVal \in [Sems -> Nat] /\ owner \in [Mutexes -> Tasks \cup {None}]
         /\ Unit \in Nat /\ Unit > 0 /\ Latency \in Nat
         /\ None \notin Tasks /\ None \notin Objects /\ ResourceOf(p) \in Objects
<1>1. ResourceOf(p) \in Objects
  BY ProgramBC DEF BC, Objects
<1>2. /\ HighOf(p) \in Tasks /\ MediumOf(p) \in Tasks /\ LowOf(p) \in Tasks
      /\ MainOf(p) \in Tasks
  BY ProgramBC DEF TasksOf, WorkersOf
<1>3. Unit \in Nat /\ Unit > 0 /\ Latency \in Nat /\ None \notin Tasks /\ None \notin Objects
  BY KernelAssumption
<1> QED
  BY <1>1, <1>2, <1>3 DEF IInv, TypeOK

(* Only tasks of the program wait when it runs.                            *)
LEMMA OwnWaiters ==
  ASSUME IInv, NEW p \in BC, Only(p), NEW o \in Objects
  PROVE  Waiters(o) \subseteq TasksOf(p)
<1>1. o # None
  BY KernelAssumption
<1> QED
  BY <1>1 DEF Waiters, IInv, Waiting, Only

(* The running task takes the resource if it is to be had.                 *)
LEMMA TakeFree ==
  ASSUME IInv, NEW p \in BC, ResourceRight(p), ResourceOf(p) \notin deleted,
         ~LowHas(p), ~HighHas(p),
         NEW t, \/ t = LowOf(p) /\ pc[t] = 2
                \/ t = HighOf(p) /\ pc[t] = 3,
         on[t] = None, status[t] = "ready", Takes(p, t)
  PROVE  /\ pc' = [pc EXCEPT ![t] = @ + 1]
         /\ UNCHANGED <<status, on, left, deleted>>
         /\ ResourceRight(p)'
<1> DEFINE r == ResourceOf(p)
<1>1. /\ t \in Tasks /\ t # None /\ HighOf(p) # LowOf(p)
      /\ HighOf(p) \in Tasks /\ LowOf(p) \in Tasks
      /\ pc \in [Tasks -> Nat] /\ status \in [Tasks -> Status]
      /\ on \in [Tasks -> Objects \cup {None}] /\ semVal \in [Sems -> Nat]
      /\ owner \in [Mutexes -> Tasks \cup {None}]
  <2>1. t \in Tasks /\ t # None
    BY TypesBC
  <2>2. HighOf(p) # LowOf(p)
    BY ProgramBC
  <2> QED
    BY <2>1, <2>2, TypesBC
<1>2. /\ Obj(t) = r /\ Pass(t, {t}, r) /\ deleted' = deleted
      /\ p = "B" => r \in Sems /\ r = "resourceB" /\ semVal[r] = 1 /\ semVal'[r] = 0
      /\ p = "C" => r \in Mutexes /\ r = "resourceC" /\ owner'[r] = t
  <2>1. CASE p = "B"
    <3>1. r \in Sems /\ r = "resourceB" /\ semVal[r] = 1 /\ SemP(t) /\ Obj(t) = r
      BY <2>1, ProgramBC DEF ResourceRight, ResourceOf, Takes
    <3>2. semVal' = [semVal EXCEPT ![r] = @ - 1] /\ Pass(t, {t}, r) /\ deleted' = deleted
      BY <3>1 DEF SemP
    <3> QED
      BY <1>1, <2>1, <3>1, <3>2
  <2>2. CASE p = "C"
    <3>1. r \in Mutexes /\ r = "resourceC" /\ owner[r] = None /\ MutexAcquire(t) /\ Obj(t) = r
      BY <2>2, ProgramBC DEF ResourceRight, ResourceOf, Takes
    <3>2. owner' = [owner EXCEPT ![r] = t] /\ Pass(t, {t}, r) /\ deleted' = deleted
      BY <3>1 DEF MutexAcquire
    <3> QED
      BY <1>1, <2>2, <3>1, <3>2
  <2> QED
    BY <2>1, <2>2 DEF BC
<1>3. pc' = [pc EXCEPT ![t] = @ + 1]
  BY <1>1, <1>2 DEF Pass
<1>4. status' = status /\ on' = on /\ left' = left
  BY <1>1, <1>2 DEF Pass
<1>5. /\ t = LowOf(p) => LowHas(p)' /\ ~HighHas(p)'
      /\ t = HighOf(p) => ~LowHas(p)' /\ HighHas(p)'
  BY <1>1, <1>3 DEF LowHas, HighHas
<1>6. ResourceRight(p)'
  BY <1>1, <1>2, <1>5 DEF ResourceRight, BC
<1> QED
  BY <1>2, <1>3, <1>4, <1>6

(* HIGH waits while LOW has it.                                            *)
LEMMA TakeTaken ==
  ASSUME IInv, NEW p \in BC, ResourceRight(p), ResourceOf(p) \notin deleted, LowHas(p),
         NEW t, t = HighOf(p), Takes(p, t)
  PROVE  /\ status' = [status EXCEPT ![t] = "waiting"]
         /\ on' = [on EXCEPT ![t] = ResourceOf(p)]
         /\ UNCHANGED <<pc, left, deleted>>
         /\ ResourceRight(p)'
<1> DEFINE r == ResourceOf(p)
<1>1. /\ t # LowOf(p) /\ t \in Tasks /\ LowOf(p) # None
  BY TypesBC, ProgramBC
<1>2. /\ Block(t, r) /\ deleted' = deleted
      /\ p = "B" => semVal' = semVal
      /\ p = "C" => owner' = owner
  <2>1. CASE p = "B"
    <3>1. r = "resourceB" /\ semVal[r] = 0 /\ SemP(t) /\ Obj(t) = r
      BY <2>1 DEF ResourceRight, ResourceOf, Takes
    <3> QED
      BY <2>1, <3>1 DEF SemP, Block
  <2>2. CASE p = "C"
    <3>1. r = "resourceC" /\ owner[r] = LowOf(p) /\ MutexAcquire(t) /\ Obj(t) = r
      BY <2>2 DEF ResourceRight, ResourceOf, Takes
    <3> QED
      BY <1>1, <2>2, <3>1 DEF MutexAcquire, Block
  <2> QED
    BY <2>1, <2>2 DEF BC
<1>3. pc' = pc
  BY <1>2 DEF Block
<1>4. LowHas(p)' = LowHas(p) /\ HighHas(p)' = HighHas(p)
  BY <1>3 DEF LowHas, HighHas
<1>5. ResourceRight(p)'
  BY <1>2, <1>4 DEF ResourceRight, BC
<1> QED
  BY <1>2, <1>5 DEF Block

(* Giving the resource back hands it to HIGH if HIGH waits for it.         *)
LEMMA GiveBack ==
  ASSUME IInv, NEW p \in BC, Only(p), ResourceRight(p), ResourceOf(p) \notin deleted,
         ~(LowHas(p) /\ HighHas(p)),
         NEW t, \/ t = LowOf(p) /\ pc[t] = 4
                \/ t = HighOf(p) /\ pc[t] = 5,
         on[t] = None, on[MainOf(p)] = None, on[MediumOf(p)] = None,
         on[HighOf(p)] # None => on[HighOf(p)] = ResourceOf(p) /\ pc[HighOf(p)] = 3,
         t = HighOf(p) => on[LowOf(p)] = None,
         Gives(p, t),
         NEW W, W = IF on[HighOf(p)] = None THEN {} ELSE {HighOf(p)}
  PROVE  /\ pc' = [u \in Tasks |-> IF u \in W \cup {t} THEN pc[u] + 1 ELSE pc[u]]
         /\ status' = [u \in Tasks |-> IF u \in W THEN "ready" ELSE status[u]]
         /\ on' = [u \in Tasks |-> IF u \in W THEN None ELSE on[u]]
         /\ UNCHANGED <<left, deleted>>
         /\ ResourceRight(p)'
<1> DEFINE r == ResourceOf(p)
<1>1. /\ t \in Tasks /\ t # None /\ HighOf(p) # LowOf(p)
      /\ HighOf(p) \in Tasks /\ LowOf(p) \in Tasks /\ HighOf(p) # None
      /\ pc \in [Tasks -> Nat] /\ status \in [Tasks -> Status]
      /\ on \in [Tasks -> Objects \cup {None}] /\ semVal \in [Sems -> Nat]
      /\ owner \in [Mutexes -> Tasks \cup {None}] /\ r \in Objects /\ r # None
  <2>1. t \in Tasks /\ t # None /\ HighOf(p) # None /\ r # None
    BY TypesBC
  <2>2. HighOf(p) # LowOf(p)
    BY ProgramBC
  <2> QED
    BY <2>1, <2>2, TypesBC
<1>2. Waiters(r) = W
  <2>1. Waiters(r) \subseteq TasksOf(p)
    BY <1>1, OwnWaiters
  <2>2. \A u \in TasksOf(p) : on[u] = r => u = HighOf(p)
    BY <1>1 DEF TasksOf, WorkersOf
  <2> QED
    BY <1>1, <2>1, <2>2 DEF Waiters
<1>3. /\ Pass(t, W, r) /\ deleted' = deleted
      /\ p = "B" => /\ r \in Sems /\ r = "resourceB" /\ semVal[r] = 0
                    /\ semVal'[r] = IF W = {} THEN 1 ELSE 0
      /\ p = "C" => /\ r \in Mutexes /\ r = "resourceC"
                    /\ owner'[r] = IF W = {} THEN None ELSE HighOf(p)
  <2>1. CASE p = "B"
    <3>1. r \in Sems /\ r = "resourceB" /\ semVal[r] = 0 /\ SemV(t) /\ Obj(t) = r
      BY <2>1, ProgramBC DEF ResourceRight, ResourceOf, Gives, LowHas, HighHas
    <3>2. \/ W = {} /\ semVal' = [semVal EXCEPT ![r] = @ + 1] /\ Pass(t, {}, r)
          \/ \E w \in W : semVal' = semVal /\ Pass(t, {w}, r)
      BY <1>2, <3>1 DEF SemV, Highest
    <3>3. deleted' = deleted
      BY <3>1 DEF SemV
    <3>4. \A w \in W : {w} = W
      OBVIOUS
    <3>5. Pass(t, W, r)
      BY <3>2, <3>4
    <3>6. semVal'[r] = IF W = {} THEN 1 ELSE 0
      <4>1. CASE W = {}
        <5>1. semVal' = [semVal EXCEPT ![r] = @ + 1]
          BY <3>2, <4>1
        <5>2. semVal'[r] = semVal[r] + 1
          BY <1>1, <3>1, <5>1
        <5> QED
          BY <3>1, <4>1, <5>2
      <4>2. CASE W # {}
        BY <3>1, <3>2, <4>2
      <4> QED
        BY <4>1, <4>2
    <3> QED
      BY <2>1, <3>1, <3>3, <3>5, <3>6
  <2>2. CASE p = "C"
    <3>1. r \in Mutexes /\ r = "resourceC" /\ owner[r] = t /\ MutexRelease(t) /\ Obj(t) = r
      BY <2>2, ProgramBC DEF ResourceRight, ResourceOf, Gives, LowHas, HighHas
    <3>2. \/ W = {} /\ owner' = [owner EXCEPT ![r] = None] /\ Pass(t, {}, r)
          \/ \E w \in W : owner' = [owner EXCEPT ![r] = w] /\ Pass(t, {w}, r)
      BY <1>2, <3>1 DEF MutexRelease, Highest
    <3>3. deleted' = deleted
      BY <3>1 DEF MutexRelease
    <3>4. \A w \in W : {w} = W /\ w = HighOf(p)
      OBVIOUS
    <3> QED
      BY <1>1, <2>2, <3>1, <3>2, <3>3, <3>4
  <2> QED
    BY <2>1, <2>2 DEF BC
<1>4. /\ pc' = [u \in Tasks |-> IF u \in W \cup {t} THEN pc[u] + 1 ELSE pc[u]]
      /\ status' = [u \in Tasks |-> IF u \in W THEN "ready" ELSE status[u]]
      /\ on' = [u \in Tasks |-> IF u \in W THEN None ELSE on[u]]
      /\ left' = left
  BY <1>3 DEF Pass
<1>5. /\ ~LowHas(p)'
      /\ HighHas(p)' <=> W # {}
  BY <1>1, <1>4 DEF LowHas, HighHas
<1>6. ResourceRight(p)'
  BY <1>1, <1>3, <1>5 DEF ResourceRight, BC
<1> QED
  BY <1>3, <1>4, <1>6

-----------------------------------------------------------------------------
(* No task of B or C loops.                                                *)
LEMMA NoLoopBC ==
  ASSUME IInv, NEW p \in BC, NEW t \in TasksOf(p)
  PROVE  ~Calling(t, "loop")
<1> SUFFICES ASSUME Calling(t, "loop") PROVE FALSE
  OBVIOUS
<1>1. t \in Tasks
  BY ProgramBC
<1>2. pc[t] \in 1 .. Len(Prog[t]) /\ Prog[t][pc[t]].op = "loop"
  BY <1>1, CallerFacts DEF Calling
<1>3. TakeCall(p).op # "loop" /\ GiveCall(p).op # "loop" /\ DropCall(p).op # "loop"
  BY DEF TakeCall, GiveCall, DropCall, rt_sem_p, rt_sem_v, rt_sem_delete, rt_mutex_acquire,
         rt_mutex_release, rt_mutex_delete, Call
<1>4. /\ \A s : rt_sem_p(s).op # "loop" /\ rt_sem_broadcast(s).op # "loop"
      /\ \A s : rt_sem_delete(s).op # "loop"
      /\ \A n : rt_task_sleep(n).op # "loop" /\ busy_wait_us(n).op # "loop"
      /\ \A u : rt_task_start(u).op # "loop" /\ rt_task_delete(u).op # "loop"
  BY DEF rt_sem_p, rt_sem_broadcast, rt_sem_delete, rt_task_sleep, busy_wait_us,
         rt_task_start, rt_task_delete, Call
<1>5. CASE t = HighOf(p)
  <2>1. Prog[t] = <<rt_sem_p(BarrierOf(p)), rt_task_sleep(2), TakeCall(p), busy_wait_us(2),
                    GiveCall(p)>>
    BY <1>5, CallsBC
  <2>2. pc[t] \in {1, 2, 3, 4, 5}
    BY <1>2, <2>1
  <2> QED
    BY <1>2, <1>3, <1>4, <2>1, <2>2
<1>6. CASE t = MediumOf(p)
  <2>1. Prog[t] = <<rt_sem_p(BarrierOf(p)), rt_task_sleep(1), busy_wait_us(5)>>
    BY <1>6, CallsBC
  <2>2. pc[t] \in {1, 2, 3}
    BY <1>2, <2>1
  <2> QED
    BY <1>2, <1>4, <2>1, <2>2
<1>7. CASE t = LowOf(p)
  <2>1. Prog[t] = <<rt_sem_p(BarrierOf(p)), TakeCall(p), busy_wait_us(3), GiveCall(p)>>
    BY <1>7, CallsBC
  <2>2. pc[t] \in {1, 2, 3, 4}
    BY <1>2, <2>1
  <2> QED
    BY <1>2, <1>3, <1>4, <2>1, <2>2
<1>8. CASE t = MainOf(p)
  <2>1. Prog[t] = <<rt_task_start(HighOf(p)), rt_task_start(MediumOf(p)),
                    rt_task_start(LowOf(p)), rt_task_sleep(1), rt_sem_broadcast(BarrierOf(p)),
                    rt_task_sleep(20), rt_sem_delete(BarrierOf(p)), DropCall(p),
                    rt_task_delete(HighOf(p)), rt_task_delete(MediumOf(p)),
                    rt_task_delete(LowOf(p))>>
    BY <1>8, CallsBC
  <2>2. pc[t] \in {1, 2, 3, 4, 5, 6, 7, 8, 9, 10, 11}
    BY <1>2, <2>1
  <2> QED
    BY <1>2, <1>3, <1>4, <2>1, <2>2
<1> QED
  BY <1>5, <1>6, <1>7, <1>8 DEF TasksOf, WorkersOf

(* Who runs is as urgent as any task that is ready, by its own priority or *)
(* by the one it inherits from HIGH.                                       *)
LEMMA Urgent ==
  ASSUME IInv, NEW p \in BC, Only(p),
         \A v \in Tasks : on[v] \in Mutexes => v = HighOf(p),
         NEW u \in Tasks, status[u] = "ready"
  PROVE  /\ cpu \in TasksOf(p) /\ status[cpu] = "ready"
         /\ \A x \in Prios(u) :
              \/ x <= Priority[cpu]
              \/ /\ on[HighOf(p)] \in Mutexes /\ owner[on[HighOf(p)]] = cpu
                 /\ x <= Priority[HighOf(p)]
<1>1. u \in Ready /\ cpu \in Highest(Ready)
  BY DEF IInv, Scheduled, Ready
<1>2. cpu \in Tasks /\ status[cpu] = "ready" /\ AtLeast(cpu, u)
  BY <1>1 DEF Highest, Ready
<1>3. cpu \in TasksOf(p) /\ bprio[cpu] = Priority[cpu]
  BY <1>2 DEF Only
<1>4. ASSUME NEW x \in Prios(u)
      PROVE  \/ x <= Priority[cpu]
             \/ /\ on[HighOf(p)] \in Mutexes /\ owner[on[HighOf(p)]] = cpu
                /\ x <= Priority[HighOf(p)]
  <2>1. PICK q \in Prios(cpu) : x <= q
    BY <1>2 DEF AtLeast
  <2>2. CASE q = bprio[cpu]
    BY <1>3, <2>1, <2>2
  <2>3. CASE q # bprio[cpu]
    <3>1. PICK v \in Tasks : on[v] \in Mutexes /\ owner[on[v]] = cpu /\ q = bprio[v]
      BY <2>3 DEF Prios
    <3>2. v = HighOf(p) /\ bprio[v] = Priority[v]
      BY <3>1 DEF Only, TasksOf, WorkersOf
    <3> QED
      BY <2>1, <3>1, <3>2
  <2> QED
    BY <2>2, <2>3
<1> QED
  BY <1>2, <1>3, <1>4

(* So main runs whenever it is ready; without it HIGH does, and without    *)
(* either MEDIUM, unless HIGH waits; and LOW runs when HIGH waits for it.  *)
LEMMA WhoRuns ==
  ASSUME IInv, NEW p \in BC, Only(p),
         \A v \in Tasks : on[v] \in Mutexes => v = HighOf(p)
  PROVE  /\ status[MainOf(p)] = "ready" => cpu = MainOf(p)
         /\ status[HighOf(p)] = "ready" => cpu \in {MainOf(p), HighOf(p)}
         /\ status[MediumOf(p)] = "ready" /\ on[HighOf(p)] = None =>
              cpu \in {MainOf(p), HighOf(p), MediumOf(p)}
         /\ /\ on[HighOf(p)] \in Mutexes /\ owner[on[HighOf(p)]] = LowOf(p)
            /\ status[LowOf(p)] = "ready"
            => cpu \in {MainOf(p), HighOf(p), LowOf(p)}
<1> DEFINE m == MainOf(p)
<1> DEFINE h == HighOf(p)
<1> DEFINE d == MediumOf(p)
<1> DEFINE l == LowOf(p)
<1>1. /\ TasksOf(p) = {h, d, l, m} /\ m \in Tasks /\ h \in Tasks /\ d \in Tasks /\ l \in Tasks
      /\ Priority[m] = 50 /\ Priority[h] = 40 /\ Priority[d] = 30 /\ Priority[l] = 20
      /\ \A t \in {h, d, l, m} : bprio[t] = Priority[t]
      /\ None \notin Mutexes
  BY TypesBC, ProgramBC DEF TasksOf, WorkersOf, Only, Objects
<1>2. \A u \in Tasks : bprio[u] \in Prios(u)
  BY DEF Prios
<1>3. ASSUME NEW u \in TasksOf(p), status[u] = "ready"
      PROVE  /\ cpu \in TasksOf(p)
             /\ \A x \in Prios(u) :
                  \/ x <= Priority[cpu]
                  \/ on[h] \in Mutexes /\ owner[on[h]] = cpu /\ x <= Priority[h]
  <2>1. u \in Tasks
    BY <1>1
  <2> QED
    BY <1>3, <2>1, Urgent
<1> HIDE DEF m, h, d, l
<1>4. status[m] = "ready" => cpu = m
  <2> SUFFICES ASSUME status[m] = "ready" PROVE cpu = m
    OBVIOUS
  <2>1. cpu \in {h, d, l, m} /\ (50 <= Priority[cpu] \/ 50 <= Priority[h])
    BY <1>1, <1>2, <1>3
  <2> QED
    BY <1>1, <2>1
<1>5. on[h] \in Mutexes => status[h] # "ready"
  BY <1>1 DEF IInv, Waiting
<1>6. status[h] = "ready" => cpu \in {m, h}
  <2> SUFFICES ASSUME status[h] = "ready" PROVE cpu \in {m, h}
    OBVIOUS
  <2>1. cpu \in {h, d, l, m} /\ 40 <= Priority[cpu]
    BY <1>1, <1>2, <1>3, <1>5
  <2> QED
    BY <1>1, <2>1
<1>7. status[d] = "ready" /\ on[h] = None => cpu \in {m, h, d}
  <2> SUFFICES ASSUME status[d] = "ready", on[h] = None PROVE cpu \in {m, h, d}
    OBVIOUS
  <2>1. cpu \in {h, d, l, m} /\ 30 <= Priority[cpu]
    BY <1>1, <1>2, <1>3
  <2> QED
    BY <1>1, <2>1
<1>8. on[h] \in Mutexes /\ owner[on[h]] = l /\ status[l] = "ready" => cpu \in {m, h, l}
  <2> SUFFICES ASSUME on[h] \in Mutexes, owner[on[h]] = l, status[l] = "ready"
               PROVE  cpu \in {m, h, l}
    OBVIOUS
  <2>1. 40 \in Prios(l)
    BY <1>1 DEF Prios
  <2>2. cpu \in {h, d, l, m} /\ (40 <= Priority[cpu] \/ l = cpu)
    BY <1>1, <1>3, <2>1
  <2> QED
    BY <1>1, <2>2
<1> QED
  BY <1>4, <1>6, <1>7, <1>8 DEF m, h, d, l

-----------------------------------------------------------------------------
(* Nobody but HIGH waits for a mutex.                                      *)
LEMMA OnlyHighWaits ==
  ASSUME IInv, NEW p \in BC, Only(p), Gathering(p) \/ Working(p) \/ Finishing(p)
  PROVE  \A v \in Tasks : on[v] \in Mutexes => v = HighOf(p)
<1>1. /\ TasksOf(p) = {HighOf(p), MediumOf(p), LowOf(p), MainOf(p)}
      /\ None \notin Mutexes /\ BarrierOf(p) \notin Mutexes
  BY TypesBC, ProgramBC, KernelAssumption DEF TasksOf, WorkersOf, Objects
<1>2. \A v \in Tasks \ TasksOf(p) : on[v] = None
  BY DEF IInv, Waiting, Only
<1>3. \A v \in TasksOf(p) : status[v] # "waiting" => on[v] = None
  BY ProgramBC DEF IInv, Waiting
<1>4. CASE Gathering(p)
  <2>1. \A v \in WorkersOf(p) : on[v] \in {BarrierOf(p), None}
    BY <1>4 DEF Gathering
  <2>2. on[MainOf(p)] = None
    BY <1>4 DEF Gathering
  <2> QED
    BY <1>1, <1>2, <2>1, <2>2 DEF TasksOf
<1>5. CASE Working(p) \/ Finishing(p)
  <2>1. /\ status[MainOf(p)] # "waiting" /\ status[MediumOf(p)] # "waiting"
        /\ status[LowOf(p)] # "waiting"
    <3>1. CASE Working(p)
      BY <3>1 DEF Working, MediumWorks, LowWorks
    <3>2. CASE Finishing(p)
      BY <3>2 DEF Finishing, WorkersOf
    <3> QED
      BY <1>5, <3>1, <3>2
  <2> QED
    BY <1>1, <1>2, <1>3, <2>1
<1> QED
  BY <1>4, <1>5

(* How much each may have to spin.                                         *)
LEMMA WorkTypes ==
  ASSUME IInv, NEW p \in BC, Working(p)
  PROVE  /\ HighWork(p) \in 0 .. 2 * Unit /\ MediumWork(p) \in 0 .. 5 * Unit
         /\ LowWork(p) \in 0 .. 3 * Unit /\ Spent(p) \in Nat
<1>1. /\ MainOf(p) \in Tasks /\ left \in [Tasks -> Int] /\ Unit \in Nat /\ Unit > 0
  BY TypesBC
<1>2. HighWork(p) \in 0 .. 2 * Unit
  BY <1>1 DEF Working, HighWorks, HighWork, WorkOf
<1>3. MediumWork(p) \in 0 .. 5 * Unit
  BY <1>1 DEF Working, MediumWorks, MediumWork, WorkOf
<1>4. LowWork(p) \in 0 .. 3 * Unit
  BY <1>1 DEF Working, LowWorks, LowWork, WorkOf
<1>5. Spent(p) \in Nat
  BY <1>1 DEF Working, Spent
<1> QED
  BY <1>2, <1>3, <1>4, <1>5

(* Who can be running when a tick passes while main sleeps: nobody is at   *)
(* the call before its sleep or its section any more, and HIGH, ready or   *)
(* waiting in task C, has made way for nobody but LOW.                     *)
LEMMA AtATick ==
  ASSUME IInv, NEW p \in BC, Only(p), Working(p), Tick
  PROVE  /\ pc[MainOf(p)] = 7 /\ status[MainOf(p)] = "asleep"
         /\ cpu \in Tasks => /\ cpu \in WorkersOf(p) /\ status[cpu] = "ready"
                             /\ left[cpu] > 0
         /\ \A t \in WorkersOf(p) : status[t] = "ready" => cpu \in Tasks
         /\ pc[HighOf(p)] # 2 /\ pc[MediumOf(p)] # 2 /\ pc[LowOf(p)] # 2
         /\ status[HighOf(p)] = "ready" => cpu = HighOf(p) /\ pc[cpu] = 5
         /\ p = "C" /\ status[HighOf(p)] = "waiting" => cpu = LowOf(p) /\ pc[cpu] = 4
<1> DEFINE m == MainOf(p)
<1> DEFINE h == HighOf(p)
<1> DEFINE d == MediumOf(p)
<1> DEFINE l == LowOf(p)
<1>1. /\ WorkersOf(p) = {h, d, l} /\ TasksOf(p) = {h, d, l, m}
      /\ m # h /\ m # d /\ m # l /\ h # d /\ h # l /\ d # l
      /\ m \in Tasks /\ h \in Tasks /\ d \in Tasks /\ l \in Tasks /\ left \in [Tasks -> Int]
      /\ Unit \in Nat /\ Unit > 0 /\ ResourceOf(p) # None
  <2>1. ResourceOf(p) # None
    BY TypesBC
  <2> QED
    BY <2>1, TypesBC, ProgramBC DEF TasksOf, WorkersOf
<1>2. /\ status[m] = "ready" => cpu = m
      /\ status[h] = "ready" => cpu \in {m, h}
      /\ status[d] = "ready" /\ on[h] = None => cpu \in {m, h, d}
      /\ on[h] \in Mutexes /\ owner[on[h]] = l /\ status[l] = "ready" => cpu \in {m, h, l}
  BY OnlyHighWaits, WhoRuns
<1>3. cpu \in Tasks => status[cpu] = "ready" /\ cpu \in TasksOf(p) /\ left[cpu] > 0
  <2> SUFFICES ASSUME cpu \in Tasks
               PROVE  status[cpu] = "ready" /\ cpu \in TasksOf(p) /\ left[cpu] > 0
    OBVIOUS
  <2>1. status[cpu] = "ready"
    BY RunningIsReady DEF IInv
  <2>2. cpu \in TasksOf(p)
    BY <2>1 DEF Only
  <2> QED
    BY <2>1, <2>2, NoLoopBC DEF Tick, Consuming
<1>4. pc[m] = 7 /\ status[m] = "asleep"
  <2>1. ~(status[m] = "ready" /\ left[m] = 0)
    BY <1>1, <1>2, <1>3
  <2> QED
    BY <2>1 DEF Working
<1>5. cpu \in Tasks => cpu \in {h, d, l} /\ status[cpu] = "ready" /\ left[cpu] > 0
  BY <1>1, <1>3, <1>4
<1>6. \A t \in {h, d, l} : status[t] = "ready" => cpu \in Tasks
  BY <1>1 DEF IInv, Scheduled, Ready, Highest
<1>7. HighWorks(p) /\ MediumWorks(p) /\ LowWorks(p)
  BY DEF Working
<1>8. on[h] = None <=> status[h] # "waiting"
  BY <1>1 DEF Working
<1> HIDE DEF m, h, d, l
<1>9. status[h] = "ready" => cpu = h /\ left[h] > 0
  BY <1>1, <1>2, <1>4, <1>5, <1>6
<1>10. pc[h] # 2 /\ (status[h] = "ready" => pc[h] = 5)
  BY <1>1, <1>7, <1>9 DEF HighWorks, h
<1>11. Spent(p) = 0 => pc[h] = 3 /\ status[h] = "asleep"
  BY <1>1, <1>7, <1>10 DEF HighWorks, h
<1>12. pc[d] # 2
  <2> SUFFICES ASSUME pc[d] = 2 PROVE FALSE
    OBVIOUS
  <2>1. status[d] = "ready" /\ left[d] = 0 /\ Spent(p) = 0
    BY <1>7 DEF MediumWorks, d
  <2>2. cpu = d
    BY <1>1, <1>2, <1>4, <1>5, <1>6, <1>8, <1>11, <2>1
  <2> QED
    BY <1>1, <1>5, <2>1, <2>2
<1>13. pc[l] # 2
  <2> SUFFICES ASSUME pc[l] = 2 PROVE FALSE
    OBVIOUS
  <2>1. status[l] = "ready" /\ left[l] = 0 /\ Spent(p) = 0
    BY <1>7 DEF LowWorks, l
  <2>2. status[h] = "asleep" /\ status[d] \in {"asleep", "gone"}
    BY <1>1, <1>7, <1>11, <1>12, <2>1 DEF MediumWorks, d
  <2> QED
    BY <1>1, <1>5, <1>6, <2>1, <2>2
<1>14. p = "C" /\ status[h] = "waiting" => cpu = l /\ pc[l] = 4
  <2> SUFFICES ASSUME p = "C", status[h] = "waiting" PROVE cpu = l /\ pc[l] = 4
    OBVIOUS
  <2>1. LowHas(p)
    BY <1>7 DEF HighWorks, h
  <2>2. status[l] = "ready" /\ (pc[l] = 3 => left[l] = 0) /\ pc[l] \in {3, 4}
    BY <1>7, <2>1 DEF LowWorks, LowHas, l
  <2>3. on[h] \in Mutexes /\ on[h] = ResourceOf(p) /\ ResourceOf(p) = "resourceC"
    BY <1>1, ProgramBC DEF Working, ResourceOf, h
  <2>4. owner[on[h]] = l
    BY <2>1, <2>3 DEF Working, ResourceRight, l
  <2>5. cpu = l
    BY <1>1, <1>2, <1>4, <1>5, <1>6, <2>2, <2>3, <2>4
  <2> QED
    BY <1>1, <1>5, <2>2, <2>5
<1> QED
  BY <1>1, <1>4, <1>5, <1>6, <1>9, <1>10, <1>12, <1>13, <1>14 DEF m, h, d, l

(* A tick costs the running task a tick of its work, and brings sleepers   *)
(* nearer to their end; main has slept a tick more.                        *)
LEMMA WorkingTick ==
  ASSUME IInv, NEW p \in BC, Only(p), Working(p), HighWaits(p), MediumWaits(p), Tick
  PROVE  Working(p)' /\ HighWaits(p)' /\ MediumWaits(p)'
<1> DEFINE m == MainOf(p)
<1> DEFINE h == HighOf(p)
<1> DEFINE d == MediumOf(p)
<1> DEFINE l == LowOf(p)
<1> DEFINE s == Spent(p)
<1>1. /\ WorkersOf(p) = {h, d, l} /\ TasksOf(p) = {h, d, l, m}
      /\ m # h /\ m # d /\ m # l /\ h # d /\ h # l /\ d # l
      /\ m \in Tasks /\ h \in Tasks /\ d \in Tasks /\ l \in Tasks /\ left \in [Tasks -> Int]
      /\ Unit \in Nat /\ Unit > 0 /\ Latency \in Nat /\ kept \in [Tasks -> Nat]
  BY TypesBC, ProgramBC DEF TasksOf, WorkersOf
<1>2. /\ pc[m] = 7 /\ status[m] = "asleep"
      /\ cpu \in Tasks => cpu \in {h, d, l} /\ status[cpu] = "ready" /\ left[cpu] > 0
      /\ \A t \in {h, d, l} : status[t] = "ready" => cpu \in Tasks
      /\ pc[h] # 2 /\ pc[d] # 2 /\ pc[l] # 2
      /\ status[h] = "ready" => cpu = h /\ pc[cpu] = 5
      /\ p = "C" /\ status[h] = "waiting" => cpu = l /\ pc[cpu] = 4
  BY <1>1, AtATick
<1>3. /\ UNCHANGED <<pc, status, on, semVal, owner, deleted>>
      /\ \A t \in {h, d, l, m} :
           /\ left'[t] = IF status[t] = "asleep" \/ t = cpu THEN left[t] - 1 ELSE left[t]
           /\ kept'[t] = IF t # cpu /\ status[t] \in {"ready", "waiting"} THEN kept[t] + 1 ELSE 0
           /\ status[t] = "asleep" => left[t] > -Latency
  BY <1>1, <1>2 DEF Tick, Asleep
<1>4. HighWorks(p) /\ MediumWorks(p) /\ LowWorks(p) /\ left[m] <= 20 * Unit
  BY <1>2 DEF Working
<1>5. /\ s \in Nat /\ Spent(p)' = s + 1
      /\ HighWork(p) \in 0 .. 2 * Unit /\ MediumWork(p) \in 0 .. 5 * Unit
      /\ LowWork(p) \in 0 .. 3 * Unit
  BY <1>1, <1>2, <1>3, WorkTypes DEF Spent
<1>6. LowHas(p)' = LowHas(p) /\ HighHas(p)' = HighHas(p) /\ ResourceRight(p)' = ResourceRight(p)
  BY <1>3 DEF LowHas, HighHas, ResourceRight
<1> HIDE DEF m, h, d, l, s
<1>7. HighWorks(p)'
  <2>1. CASE status[h] = "asleep"
    <3>1. pc[h] = 3 /\ left[h] = 2 * Unit - s
      BY <1>4, <2>1 DEF HighWorks, h, s
    <3>2. /\ pc'[h] = 3 /\ status'[h] = "asleep"
          /\ left'[h] = 2 * Unit - Spent(p)' /\ left'[h] >= -Latency
      BY <1>1, <1>3, <1>5, <2>1, <3>1
    <3> QED
      BY <3>2 DEF HighWorks, h
  <2>2. CASE status[h] = "ready"
    <3>1. pc[h] = 5 /\ left[h] > 0 /\ left[h] <= 2 * Unit /\ s >= 2 * Unit
      BY <1>1, <1>2, <1>4, <2>2 DEF HighWorks, h, s
    <3>2. /\ pc'[h] = 5 /\ status'[h] = "ready"
          /\ left'[h] \in 0 .. 2 * Unit /\ Spent(p)' >= 2 * Unit
      BY <1>1, <1>2, <1>3, <1>5, <2>2, <3>1
    <3> QED
      BY <3>2 DEF HighWorks, h
  <2>3. CASE status[h] \in {"waiting", "gone"}
    <3>1. left'[h] = left[h] /\ pc'[h] = pc[h] /\ status'[h] = status[h]
      BY <1>1, <1>2, <1>3, <2>3
    <3>2. s >= 2 * Unit => Spent(p)' >= 2 * Unit
      BY <1>1, <1>5
    <3> QED
      BY <1>4, <1>6, <2>3, <3>1, <3>2 DEF HighWorks, h, s
  <2> QED
    BY <1>4, <2>1, <2>2, <2>3 DEF HighWorks, h
<1>8. MediumWorks(p)'
  <2>1. CASE status[d] = "asleep"
    <3>1. pc[d] = 3 /\ left[d] = Unit - s
      BY <1>4, <2>1 DEF MediumWorks, d, s
    <3>2. /\ pc'[d] = 3 /\ status'[d] = "asleep"
          /\ left'[d] = Unit - Spent(p)' /\ left'[d] >= -Latency
      BY <1>1, <1>3, <1>5, <2>1, <3>1
    <3> QED
      BY <3>2 DEF MediumWorks, d
  <2>2. CASE status[d] = "ready"
    <3>1. /\ pc[d] \in {3, 4} /\ s >= Unit /\ left[d] \in 0 .. 5 * Unit
          /\ pc[d] = 3 => left[d] = 0
      <4>1. pc[d] # 2 /\ MediumWorks(p) /\ Unit \in Nat
        BY <1>1, <1>2, <1>4
      <4> QED
        BY <2>2, <4>1 DEF MediumWorks, d, s
    <3>2. /\ pc'[d] = pc[d] /\ status'[d] = "ready" /\ Spent(p)' >= Unit
          /\ pc[d] = 3 => left'[d] = 0
          /\ pc[d] = 4 => left'[d] \in 0 .. 5 * Unit
      BY <1>1, <1>2, <1>3, <1>5, <2>2, <3>1
    <3> QED
      BY <3>1, <3>2 DEF MediumWorks, d
  <2>3. CASE status[d] = "gone"
    <3>1. left'[d] = left[d] /\ pc'[d] = pc[d] /\ status'[d] = status[d]
      BY <1>1, <1>2, <1>3, <2>3
    <3> QED
      BY <1>4, <2>3, <3>1 DEF MediumWorks, d
  <2> QED
    BY <1>4, <2>1, <2>2, <2>3 DEF MediumWorks, d
<1>9. LowWorks(p)'
  <2>1. /\ pc[l] \in {3, 4, 5} /\ status[l] \in {"ready", "gone"}
        /\ status[l] = "gone" => pc[l] = 5
        /\ left[l] \in 0 .. 3 * Unit
        /\ pc[l] # 4 => left[l] = 0
    BY <1>1, <1>2, <1>4 DEF LowWorks, l
  <2>2. /\ pc'[l] = pc[l] /\ status'[l] = status[l] /\ left'[l] \in 0 .. 3 * Unit
        /\ pc[l] # 4 => left'[l] = 0
    BY <1>1, <1>2, <1>3, <2>1
  <2> QED
    BY <2>1, <2>2 DEF LowWorks, l
<1>10. /\ cpu = h => HighWork(p)' = HighWork(p) - 1
       /\ cpu # h => HighWork(p)' = HighWork(p)
  <2>1. cpu = h => pc[h] = 5 /\ status[h] = "ready"
    BY <1>1, <1>2
  <2>2. cpu # h /\ pc[h] = 5 => left'[h] = left[h]
    BY <1>1, <1>3, <1>4 DEF HighWorks, h
  <2> QED
    BY <1>1, <1>3, <2>1, <2>2 DEF HighWork, WorkOf, h
<1>11. /\ cpu = d => MediumWork(p)' = MediumWork(p) - 1
       /\ cpu # d => MediumWork(p)' = MediumWork(p)
  <2>1. cpu = d => pc[d] = 4
    BY <1>1, <1>2, <1>4 DEF MediumWorks, d
  <2>2. cpu # d /\ pc[d] = 4 => left'[d] = left[d]
    BY <1>1, <1>3, <1>4 DEF MediumWorks, d
  <2> QED
    BY <1>1, <1>3, <2>1, <2>2 DEF MediumWork, WorkOf, d
<1>12. /\ cpu = l => LowWork(p)' = LowWork(p) - 1
       /\ cpu # l => LowWork(p)' = LowWork(p)
  <2>1. cpu = l => pc[l] = 4
    BY <1>1, <1>2, <1>4 DEF LowWorks, l
  <2>2. cpu # l /\ pc[l] = 4 => left'[l] = left[l]
    BY <1>1, <1>3, <1>4 DEF LowWorks, l
  <2> QED
    BY <1>1, <1>3, <2>1, <2>2 DEF LowWork, WorkOf, l
<1> DEFINE A == HighWork(p)
<1> DEFINE B == MediumWork(p)
<1> DEFINE C == LowWork(p)
<1> DEFINE e == 12 * Unit + Latency
<1>13. /\ A \in Nat /\ B \in Nat /\ C \in Nat /\ A' \in Int /\ B' \in Int /\ C' \in Int
       /\ A + B + C <= 10 * Unit /\ A + C <= 5 * Unit
       /\ cpu \in {h, d, l} => A' + B' + C' = A + B + C - 1
       /\ cpu \in {h, l} => A' + C' = A + C - 1
       /\ A' + C' <= A + C
  <2>1. A \in Nat /\ B \in Nat /\ C \in Nat /\ A <= 2 * Unit /\ B <= 5 * Unit /\ C <= 3 * Unit
    BY <1>1, <1>5
  <2> HIDE DEF A, B, C
  <2>2. /\ cpu = h => A' = A - 1 /\ B' = B /\ C' = C
        /\ cpu = d => A' = A /\ B' = B - 1 /\ C' = C
        /\ cpu = l => A' = A /\ B' = B /\ C' = C - 1
        /\ cpu \notin {h, d, l} => A' = A /\ B' = B /\ C' = C
    BY <1>1, <1>10, <1>11, <1>12 DEF A, B, C
  <2> QED
    BY <1>1, <2>1, <2>2
<1>14. InTimeOf(p)'
  <2> SUFFICES ASSUME \E t \in WorkersOf(p) : status'[t] # "gone"
               PROVE  Spent(p)' <= 2 * Unit + Latency \/ A' + B' + C' + Spent(p)' <= e
    BY DEF InTimeOf
  <2>1. \E t \in {h, d, l} : status[t] # "gone"
    BY <1>1, <1>3
  <2>2. s <= 2 * Unit + Latency \/ A + B + C + s <= e
    BY <1>1, <2>1 DEF Working, InTimeOf, s
  <2>3. CASE s + 1 <= 2 * Unit + Latency
    BY <1>5, <2>3
  <2>4. CASE ~(s + 1 <= 2 * Unit + Latency)
    <3>1. status[h] # "asleep" /\ status[d] # "asleep"
      <4>1. status[h] = "asleep" => 2 * Unit - s > -Latency
        BY <1>1, <1>3, <1>4 DEF HighWorks, h, s
      <4>2. status[d] = "asleep" => Unit - s > -Latency
        BY <1>1, <1>3, <1>4 DEF MediumWorks, d, s
      <4> QED
        BY <1>1, <1>5, <2>4, <4>1, <4>2
    <3>2. \E t \in {h, d, l} : status[t] = "ready"
      <4>1. status[h] = "waiting" => status[l] = "ready"
        BY <1>4 DEF HighWorks, LowWorks, LowHas, h, l
      <4>2. status[h] \in {"ready", "asleep", "waiting", "gone"}
        BY <1>4 DEF HighWorks, h
      <4>3. status[d] \in {"ready", "asleep", "gone"}
        BY <1>4 DEF MediumWorks, d
      <4>4. status[l] \in {"ready", "gone"}
        BY <1>4 DEF LowWorks, l
      <4> QED
        BY <2>1, <3>1, <4>1, <4>2, <4>3, <4>4
    <3>3. cpu \in {h, d, l}
      BY <1>2, <3>2
    <3>4. A' + B' + C' = A + B + C - 1 /\ Spent(p)' = s + 1
      BY <1>5, <1>13, <3>3
    <3>5. A + B + C <= 10 * Unit /\ A \in Nat /\ B \in Nat /\ C \in Nat
      BY <1>13
    <3> DEFINE W == A + B + C
    <3> DEFINE X == A' + B' + C'
    <3> HIDE DEF A, B, C
    <3>6. W \in Int /\ X = W - 1 /\ W <= 10 * Unit /\ (s <= 2 * Unit + Latency \/ W + s <= e)
      BY <2>2, <3>4, <3>5
    <3> HIDE DEF W, X
    <3>7. X + Spent(p)' <= e
      BY <1>1, <1>5, <2>4, <3>4, <3>6
    <3> QED
      BY <3>7 DEF W, X
  <2> QED
    BY <2>3, <2>4
<1>15. Working(p)'
  <2>1. pc'[m] = 7 /\ status'[m] = "asleep" /\ left'[m] <= 20 * Unit
    BY <1>1, <1>2, <1>3, <1>4
  <2> QED
    BY <1>3, <1>6, <1>7, <1>8, <1>9, <1>14, <2>1 DEF Working, m
<1>16. HighWaits(p)'
  <2> SUFFICES ASSUME p = "C" PROVE HighWaits(p)'
    BY DEF HighWaits
  <2>1. CASE status[h] = "asleep"
    <3>1. pc[h] = 3 /\ kept'[h] = 0
      BY <1>1, <1>2, <1>3, <1>4, <2>1 DEF HighWorks, h
    <3> QED
      BY <1>1, <1>3, <2>1, <3>1 DEF HighWaits, h
  <2>2. CASE status[h] = "waiting"
    <3>1. cpu = l /\ pc[h] = 3 /\ kept[h] + C <= 3 * Unit
      BY <1>2, <1>4, <2>2 DEF HighWaits, HighWorks, h
    <3>2. C' = C - 1 /\ kept'[h] = kept[h] + 1 /\ kept[h] \in Nat
      BY <1>1, <1>3, <1>12, <2>2, <3>1
    <3>3. kept'[h] + C' <= 3 * Unit
      BY <1>1, <1>13, <3>1, <3>2
    <3> QED
      BY <1>3, <2>2, <3>1, <3>3 DEF HighWaits, h
  <2>3. CASE status[h] \in {"ready", "gone"}
    <3>1. pc[h] > 3
      BY <1>2, <1>4, <2>3 DEF HighWorks, h
    <3>2. kept'[h] = 0
      BY <1>1, <1>2, <1>3, <2>3
    <3> QED
      BY <1>1, <1>3, <3>1, <3>2 DEF HighWaits, h
  <2> QED
    BY <1>4, <2>1, <2>2, <2>3 DEF HighWorks, h
<1>17. MediumWaits(p)'
  <2>1. CASE status[d] = "asleep"
    <3>1. pc[d] = 3 /\ kept'[d] = 0
      BY <1>1, <1>2, <1>3, <1>4, <2>1 DEF MediumWorks, d
    <3> QED
      BY <1>1, <1>3, <2>1, <3>1 DEF MediumWaits, d
  <2>2. CASE status[d] # "asleep"
    <3>1. pc[d] \in {3, 4} /\ kept[d] + A + C <= 5 * Unit /\ status[d] \in {"ready", "gone"}
      BY <1>2, <1>4, <2>2 DEF MediumWaits, MediumWorks, d
    <3>2. CASE cpu # d /\ status[d] = "ready"
      <4>1. cpu \in {h, l} /\ kept'[d] = kept[d] + 1 /\ kept[d] \in Nat
        BY <1>1, <1>2, <1>3, <3>2
      <4>2. A' + C' = A + C - 1
        BY <1>13, <4>1
      <4>3. A \in Nat /\ C \in Nat /\ A' \in Int /\ C' \in Int /\ kept[d] + A + C <= 5 * Unit
        BY <1>13, <3>1
      <4>4. kept'[d] + A' + C' <= 5 * Unit
        BY <1>1, <4>1, <4>2, <4>3
      <4> QED
        BY <1>3, <2>2, <3>1, <4>4 DEF MediumWaits, d
    <3>3. CASE ~(cpu # d /\ status[d] = "ready")
      <4>1. kept'[d] = 0
        BY <1>1, <1>3, <3>1, <3>3
      <4>2. A' \in Int /\ C' \in Int /\ A' + C' <= 5 * Unit
        <5>1. /\ A \in Nat /\ C \in Nat /\ A' \in Int /\ C' \in Int
              /\ A + C <= 5 * Unit /\ A' + C' <= A + C
          BY <1>13
        <5> QED
          BY <1>1, <5>1
      <4>3. kept'[d] + A' + C' <= 5 * Unit
        BY <4>1, <4>2
      <4> QED
        BY <1>3, <2>2, <3>1, <4>3 DEF MediumWaits, d
    <3> QED
      BY <3>2, <3>3
  <2> QED
    BY <2>1, <2>2
<1> QED
  BY <1>15, <1>16, <1>17

(* No call but main's start a task, and main's only the program's own.     *)
LEMMA OwnStarts ==
  ASSUME IInv, NEW p \in BC, NEW t \in TasksOf(p), Step(t), Calling(t, "task_start")
  PROVE  Obj(t) \in WorkersOf(p)
<1>1. t \in Tasks
  BY ProgramBC
<1>2. \A op : op # "task_start" => ~Calling(t, op)
  BY DEF Calling
<1>3. /\ ~SemP(t) /\ ~SemV(t) /\ ~SemBroadcast(t) /\ ~SemDelete(t) /\ ~MutexAcquire(t)
      /\ ~MutexRelease(t) /\ ~MutexDelete(t) /\ ~Sleep(t) /\ ~Spin(t) /\ ~TaskDelete(t)
  BY <1>2 DEF SemP, SemV, SemBroadcast, SemDelete, MutexAcquire, MutexRelease, MutexDelete,
              Delete, Sleep, Spin, TaskDelete
<1>4. ~Return(t)
  <2>1. Len(Prog[t]) \in Nat /\ pc[t] <= Len(Prog[t])
    BY <1>1, CallerFacts
  <2> QED
    BY <2>1 DEF Return
<1>5. ~Takes(p, t) /\ ~Gives(p, t) /\ ~Drops(p, t)
  BY <1>3 DEF Takes, Gives, Drops, BC
<1>6. t = HighOf(p) => FALSE
  BY <1>3, <1>4, <1>5, HighCall
<1>7. t = MediumOf(p) => FALSE
  BY <1>3, <1>4, MediumCall
<1>8. t = LowOf(p) => FALSE
  BY <1>3, <1>4, <1>5, LowCall
<1>9. t = MainOf(p)
  BY <1>6, <1>7, <1>8 DEF TasksOf, WorkersOf
<1>10. Obj(t) \in {HighOf(p), MediumOf(p), LowOf(p)}
  BY <1>3, <1>4, <1>5, <1>9, MainCall
<1> QED
  BY <1>10 DEF WorkersOf

(* When the program runs only its own tasks make steps, and what they do   *)
(* starts no others.                                                       *)
LEMMA OnlyKeeps ==
  ASSUME IInv, NEW p \in BC, Only(p), NEW t \in Tasks, Step(t)
  PROVE  t \in TasksOf(p) /\ kept' = kept /\ Only(p)'
<1>1. t \in TasksOf(p)
  BY StepperRuns DEF Only
<1>2. ASSUME NEW u \in Tasks \ TasksOf(p) PROVE status'[u] \in {"dormant", "gone"}
  <2>1. u # t /\ status[u] \in {"dormant", "gone"}
    BY <1>1 DEF Only
  <2>2. ~(Calling(t, "task_start") /\ u = Obj(t))
    BY <1>1, OwnStarts DEF TasksOf
  <2>3. status'[u] \in {status[u], "gone"}
    BY <2>1, <2>2, OnlyStarted
  <2> QED
    BY <2>1, <2>3
<1>3. kept' = kept /\ bprio' = bprio
  <2>1. t = HighOf(p) => kept' = kept /\ bprio' = bprio
    BY HighCall
  <2>2. t = MediumOf(p) => kept' = kept /\ bprio' = bprio
    BY MediumCall
  <2>3. t = LowOf(p) => kept' = kept /\ bprio' = bprio
    BY LowCall
  <2>4. t = MainOf(p) => kept' = kept /\ bprio' = bprio
    BY MainCall
  <2> QED
    BY <1>1, <2>1, <2>2, <2>3, <2>4 DEF TasksOf, WorkersOf
<1> QED
  BY <1>1, <1>2, <1>3 DEF Only

(* While another program runs the four tasks stay where they are, and so   *)
(* does the resource until they are gone.                                  *)
LEMMA ElsewhereKeeps ==
  ASSUME IInv, NEW p \in BC, Elsewhere(p), Bounded(p), Next
  PROVE  Elsewhere(p)' /\ Bounded(p)'
<1>1. /\ status \in [Tasks -> Status] /\ kept \in [Tasks -> Nat]
      /\ HighOf(p) \in Tasks /\ MediumOf(p) \in Tasks /\ ResourceOf(p) \in Objects
      /\ Unit \in Nat
  BY TypesBC
<1>2. ASSUME NEW t \in Tasks, Step(t)
      PROVE  Elsewhere(p)' /\ Bounded(p)'
  <2>1. t \notin TasksOf(p)
    BY <1>2, StepperRuns DEF Elsewhere
  <2>2. \A op : Calling(t, op) => Obj(t) \notin TasksOf(p) \cup {ResourceOf(p)}
    <3> SUFFICES ASSUME NEW op, Calling(t, op)
                 PROVE  Obj(t) \notin TasksOf(p) \cup {ResourceOf(p)}
      OBVIOUS
    <3>1. pc[t] \in 1 .. Len(Prog[t])
      BY CallerFacts
    <3> QED
      BY <2>1, <3>1, ProgramBC DEF Obj
  <2>3. ASSUME NEW u \in TasksOf(p)
        PROVE  status'[u] \in {status[u], "gone"} /\ status[u] \in {"dormant", "gone"}
    <3>1. u \in Tasks /\ u # t /\ status[u] \in {"dormant", "gone"}
      BY <2>1, ProgramBC DEF Elsewhere
    <3> QED
      BY <1>2, <2>2, <3>1, OnlyStarted
  <2>4. ResourceOf(p) \in deleted' => ResourceOf(p) \in deleted
    BY <1>2, <2>2, StepMoves DEF Moves
  <2>5. kept' = kept
    BY <1>2, CallsCostNothing
  <2> QED
    BY <2>3, <2>4, <2>5 DEF Elsewhere, Bounded, TasksOf
<1>3. ASSUME NEW t \in Tasks, Expire(t)
      PROVE  Elsewhere(p)' /\ Bounded(p)'
  <2>1. \A u \in TasksOf(p) : status'[u] = status[u]
    BY <1>1, <1>3, ProgramBC DEF Expire, Elsewhere
  <2>2. deleted' = deleted /\ kept' = kept
    BY <1>3 DEF Expire
  <2> QED
    BY <2>1, <2>2 DEF Elsewhere, Bounded, TasksOf
<1>4. CASE Tick
  <2>1. status' = status /\ deleted' = deleted
    BY <1>4 DEF Tick
  <2>2. kept'[HighOf(p)] = 0 /\ kept'[MediumOf(p)] = 0
    BY <1>1, <1>4 DEF Tick, Elsewhere, TasksOf, WorkersOf
  <2>3. 0 <= 3 * Unit /\ 0 <= 5 * Unit
    BY <1>1
  <2> QED
    BY <2>1, <2>2, <2>3 DEF Elsewhere, Bounded
<1> QED
  BY <1>2, <1>3, <1>4 DEF Next

(* What the four tasks are, for the steps below.                           *)
LEMMA TheFour ==
  ASSUME IInv, NEW p \in BC, NEW m, NEW h, NEW d, NEW l,
         m = MainOf(p), h = HighOf(p), d = MediumOf(p), l = LowOf(p)
  PROVE  /\ WorkersOf(p) = {h, d, l} /\ TasksOf(p) = {h, d, l, m}
         /\ m # h /\ m # d /\ m # l /\ h # d /\ h # l /\ d # l
         /\ m \in Tasks /\ h \in Tasks /\ d \in Tasks /\ l \in Tasks
BY TypesBC, ProgramBC DEF TasksOf, WorkersOf

-----------------------------------------------------------------------------
(* The resource is with the same task, or with none, if the two tasks and  *)
(* it stay as they are.                                                    *)
LEMMA ResourceStays ==
  ASSUME IInv, NEW p \in BC, ResourceRight(p),
         pc'[HighOf(p)] = pc[HighOf(p)], pc'[LowOf(p)] = pc[LowOf(p)],
         p = "B" => semVal'["resourceB"] = semVal["resourceB"],
         p = "C" => owner'["resourceC"] = owner["resourceC"]
  PROVE  LowHas(p)' = LowHas(p) /\ HighHas(p)' = HighHas(p) /\ ResourceRight(p)'
<1>1. LowHas(p)' = LowHas(p) /\ HighHas(p)' = HighHas(p)
  BY DEF LowHas, HighHas
<1> QED
  BY <1>1 DEF ResourceRight, BC

(* main starts the three, sleeps for a unit and opens the barrier.         *)
LEMMA GatheringMain ==
  ASSUME IInv, NEW p \in BC, Only(p), Gathering(p), GatherWaits(p), Step(MainOf(p))
  PROVE  \/ Gathering(p)' /\ GatherWaits(p)'
         \/ Working(p)' /\ HighWaits(p)' /\ MediumWaits(p)'
<1> DEFINE m == MainOf(p)
<1> DEFINE h == HighOf(p)
<1> DEFINE d == MediumOf(p)
<1> DEFINE l == LowOf(p)
<1>1. /\ WorkersOf(p) = {h, d, l} /\ TasksOf(p) = {h, d, l, m}
      /\ m # h /\ m # d /\ m # l /\ h # d /\ h # l /\ d # l
      /\ m \in Tasks /\ h \in Tasks /\ d \in Tasks /\ l \in Tasks
  BY TheFour
<1>2. /\ pc \in [Tasks -> Nat] /\ status \in [Tasks -> Status] /\ left \in [Tasks -> Int]
      /\ on \in [Tasks -> Objects \cup {None}] /\ kept \in [Tasks -> Nat]
      /\ Unit \in Nat /\ Unit > 0 /\ Latency \in Nat /\ semVal \in [Sems -> Nat]
  BY TypesBC
<1>3. /\ cpu = m /\ status[m] = "ready" /\ on[m] = None /\ left[m] = 0
      /\ kept' = kept
      /\ \/ pc[m] = 1 /\ TaskStart(m) /\ Obj(m) = h
         \/ pc[m] = 2 /\ TaskStart(m) /\ Obj(m) = d
         \/ pc[m] = 3 /\ TaskStart(m) /\ Obj(m) = l
         \/ pc[m] = 4 /\ Sleep(m) /\ Num(m) = 1
         \/ pc[m] = 5 /\ SemBroadcast(m) /\ Obj(m) = BarrierOf(p)
  <2>1. pc[m] \in 1 .. 5
    BY DEF Gathering
  <2> QED
    BY <2>1, MainCall
<1>4. /\ status[h] = "dormant" => pc[m] <= 1
      /\ status[d] = "dormant" => pc[m] <= 2
      /\ status[l] = "dormant" => pc[m] <= 3
      /\ \A t \in {h, d, l} :
           /\ pc[t] = 1 /\ left[t] = 0
           /\ status[t] \in {"dormant", "ready", "waiting"}
           /\ on[t] = IF status[t] = "waiting" THEN BarrierOf(p) ELSE None
           /\ pc[m] = 5 => status[t] = "waiting"
      /\ semVal[BarrierOf(p)] = 0
      /\ BarrierOf(p) \notin deleted /\ ResourceOf(p) \notin deleted
      /\ ResourceRight(p)
  BY <1>1, <1>3 DEF Gathering
<1>5. \A t \in {h, d} : kept[t] <= IF pc[m] < 5 THEN 0 ELSE Unit + Latency
  <2>1. status[m] # "asleep"
    BY <1>3
  <2> QED
    BY <2>1 DEF GatherWaits
<1> HIDE DEF m, h, d, l
<1>6. CASE pc[m] \in {1, 2, 3}
  <2>1. PICK u \in {h, d, l} :
          /\ TaskStart(m) /\ Obj(m) = u
          /\ pc[m] = 1 => u = h
          /\ pc[m] = 2 => u = d
          /\ pc[m] = 3 => u = l
    BY <1>1, <1>3, <1>6
  <2>2. /\ status' = [status EXCEPT ![u] = IF @ = "dormant" THEN "ready" ELSE @]
        /\ pc' = [pc EXCEPT ![m] = @ + 1]
        /\ UNCHANGED <<on, left, owner, semVal, deleted>>
    BY <2>1 DEF TaskStart, Advance
  <2>3. /\ pc'[m] = pc[m] + 1 /\ pc'[m] \in {2, 3, 4} /\ status'[m] = "ready" /\ left'[m] = 0
        /\ \A t \in {h, d, l} : /\ pc'[t] = pc[t] /\ left'[t] = left[t] /\ on'[t] = on[t]
                                /\ t # u => status'[t] = status[t]
                                /\ t = u => status'[t] = IF status[t] = "dormant" THEN "ready"
                                                         ELSE status[t]
    BY <1>1, <1>2, <1>3, <1>6, <2>1, <2>2
  <2>4. /\ status'[h] = "dormant" => pc'[m] <= 1
        /\ status'[d] = "dormant" => pc'[m] <= 2
        /\ status'[l] = "dormant" => pc'[m] <= 3
    BY <1>1, <1>4, <1>6, <2>1, <2>3
  <2>5. ResourceRight(p)'
    BY <1>1, <1>4, <2>2, <2>3, ResourceStays DEF h, l
  <2>6. \A t \in {h, d, l} :
           /\ pc'[t] = 1 /\ left'[t] = 0
           /\ status'[t] \in {"dormant", "ready", "waiting"}
           /\ on'[t] = IF status'[t] = "waiting" THEN BarrierOf(p) ELSE None
           /\ pc'[m] # 5
    BY <1>4, <2>3
  <2>7. Gathering(p)'
    BY <1>1, <1>3, <1>4, <2>2, <2>3, <2>4, <2>5, <2>6 DEF Gathering, m, h, d, l
  <2>8. GatherWaits(p)'
    BY <1>1, <1>3, <1>5, <1>6, <2>3 DEF GatherWaits, m, h, d
  <2> QED
    BY <2>7, <2>8
<1>7. CASE pc[m] = 4
  <2>1. /\ status' = [status EXCEPT ![m] = "asleep"]
        /\ pc' = [pc EXCEPT ![m] = @ + 1] /\ left' = [left EXCEPT ![m] = 1 * Unit]
        /\ UNCHANGED <<on, owner, semVal, deleted>>
    BY <1>3, <1>7 DEF Sleep, Advance
  <2>2. /\ pc'[m] = 5 /\ status'[m] = "asleep" /\ left'[m] = Unit
        /\ \A t \in {h, d, l} : /\ pc'[t] = pc[t] /\ left'[t] = left[t] /\ on'[t] = on[t]
                                /\ status'[t] = status[t]
    BY <1>1, <1>2, <1>7, <2>1
  <2>3. ResourceRight(p)'
    BY <1>1, <1>4, <2>1, <2>2, ResourceStays DEF h, l
  <2>4. Unit \in -Latency .. Unit /\ ~(Unit < Unit)
    BY <1>2
  <2>5. Gathering(p)'
    BY <1>1, <1>3, <1>4, <1>7, <2>1, <2>2, <2>3, <2>4 DEF Gathering, m, h, d, l
  <2>6. GatherWaits(p)'
    BY <1>1, <1>2, <1>3, <1>5, <1>7, <2>2 DEF GatherWaits, m, h, d
  <2> QED
    BY <2>5, <2>6
<1>8. CASE pc[m] = 5
  <2> DEFINE b == BarrierOf(p)
  <2>1. SemBroadcast(m) /\ Obj(m) = b /\ b \in Sems /\ b # ResourceOf(p) /\ b \in Objects
        /\ b # None /\ ResourceOf(p) # None
    <3>1. b \in Sems /\ b # ResourceOf(p) /\ b \in Objects
      BY ProgramBC DEF Objects
    <3>2. None \notin Objects /\ ResourceOf(p) \in Objects
      BY TypesBC
    <3> QED
      BY <1>3, <1>8, <3>1, <3>2
  <2>2. /\ semVal' = [semVal EXCEPT ![b] = 0] /\ UNCHANGED <<owner, deleted>>
        /\ Pass(m, Waiters(b), b)
    BY <2>1 DEF SemBroadcast
  <2>3. Waiters(b) = {h, d, l}
    <3>1. Waiters(b) \subseteq {h, d, l, m}
      BY <1>1, <2>1, OwnWaiters
    <3>2. on[h] = b /\ on[d] = b /\ on[l] = b /\ on[m] # b
      BY <1>3, <1>4, <1>8, <2>1
    <3> QED
      BY <1>1, <3>1, <3>2 DEF Waiters
  <2>4. /\ pc'[m] = 6 /\ status'[m] = "ready" /\ on'[m] = None /\ left'[m] = 0
        /\ \A t \in {h, d, l} : /\ pc'[t] = 2 /\ status'[t] = "ready" /\ on'[t] = None
                                /\ left'[t] = 0
    BY <1>1, <1>2, <1>3, <1>4, <1>8, <2>2, <2>3 DEF Pass
  <2>5. Spent(p)' = 0
    BY <2>4 DEF Spent, m
  <2>6. ~LowHas(p) /\ ~HighHas(p) /\ ~LowHas(p)' /\ ~HighHas(p)'
    BY <1>1, <1>4, <2>4 DEF LowHas, HighHas, h, l
  <2>7. ResourceRight(p)'
    <3>1. p = "B" => semVal'["resourceB"] = semVal["resourceB"]
      BY <1>2, <2>1, <2>2, ProgramBC DEF ResourceOf
    <3> QED
      BY <1>4, <2>2, <2>6, <3>1 DEF ResourceRight, BC
  <2>8. HighWorks(p)' /\ MediumWorks(p)' /\ LowWorks(p)'
    BY <2>4, <2>5 DEF HighWorks, MediumWorks, LowWorks, h, d, l
  <2>9. InTimeOf(p)'
    BY <1>2, <2>5 DEF InTimeOf
  <2>10. Working(p)'
    BY <1>1, <1>4, <2>2, <2>4, <2>6, <2>7, <2>8, <2>9 DEF Working, m
  <2>11. kept'[h] <= Unit + Latency /\ kept'[d] <= Unit + Latency
    BY <1>1, <1>2, <1>3, <1>5
  <2>12. HighWaits(p)' /\ MediumWaits(p)'
    BY <2>4, <2>11 DEF HighWaits, MediumWaits, h, d
  <2> QED
    BY <2>10, <2>12
<1> QED
  BY <1>3, <1>6, <1>7, <1>8

(* The three come to the barrier and wait.                                 *)
LEMMA GatheringWorker ==
  ASSUME IInv, NEW p \in BC, Only(p), Gathering(p), GatherWaits(p),
         NEW t \in WorkersOf(p), Step(t)
  PROVE  Gathering(p)' /\ GatherWaits(p)'
<1> DEFINE m == MainOf(p)
<1> DEFINE h == HighOf(p)
<1> DEFINE d == MediumOf(p)
<1> DEFINE l == LowOf(p)
<1> DEFINE b == BarrierOf(p)
<1>1. /\ WorkersOf(p) = {h, d, l} /\ TasksOf(p) = {h, d, l, m}
      /\ m # h /\ m # d /\ m # l /\ h # d /\ h # l /\ d # l
      /\ m \in Tasks /\ h \in Tasks /\ d \in Tasks /\ l \in Tasks
  BY TheFour
<1>2. /\ pc \in [Tasks -> Nat] /\ status \in [Tasks -> Status] /\ left \in [Tasks -> Int]
      /\ on \in [Tasks -> Objects \cup {None}] /\ kept \in [Tasks -> Nat]
  BY TypesBC
<1>3. /\ status[t] = "ready" /\ kept' = kept /\ pc[t] = 1
      /\ SemP(t) /\ Obj(t) = b
  <2>1. pc[t] = 1
    BY DEF Gathering
  <2>2. t = h => status[t] = "ready" /\ kept' = kept /\ SemP(t) /\ Obj(t) = b
    BY <2>1, HighCall
  <2>3. t = d => status[t] = "ready" /\ kept' = kept /\ SemP(t) /\ Obj(t) = b
    BY <2>1, MediumCall
  <2>4. t = l => status[t] = "ready" /\ kept' = kept /\ SemP(t) /\ Obj(t) = b
    BY <2>1, LowCall
  <2> QED
    BY <1>1, <2>1, <2>2, <2>3, <2>4
<1>4. b \notin deleted /\ semVal[b] = 0
  BY DEF Gathering
<1>5. /\ status' = [status EXCEPT ![t] = "waiting"] /\ on' = [on EXCEPT ![t] = b]
      /\ UNCHANGED <<pc, left, semVal, owner, deleted>>
  BY <1>3, <1>4 DEF SemP, Block
<1>6. ResourceRight(p)'
  BY <1>5, ResourceStays DEF Gathering
<1>7. /\ status'[m] = status[m] /\ on'[m] = on[m]
      /\ \A u \in {h, d, l} : /\ u # t => status'[u] = status[u] /\ on'[u] = on[u]
                              /\ u = t => status'[u] = "waiting" /\ on'[u] = b
  BY <1>1, <1>2, <1>5
<1> HIDE DEF m, h, d, l, b
<1>8. /\ \A u \in {h, d, l} :
           /\ pc'[u] = 1 /\ left'[u] = 0
           /\ status'[u] \in {"dormant", "ready", "waiting"}
           /\ on'[u] = IF status'[u] = "waiting" THEN b ELSE None
           /\ pc'[m] = 5 /\ (status'[m] = "ready" \/ left'[m] < Unit) => status'[u] = "waiting"
      /\ status'[h] = "dormant" => pc'[m] <= 1
      /\ status'[d] = "dormant" => pc'[m] <= 2
      /\ status'[l] = "dormant" => pc'[m] <= 3
  <2>1. /\ \A u \in {h, d, l} :
             /\ pc[u] = 1 /\ left[u] = 0
             /\ status[u] \in {"dormant", "ready", "waiting"}
             /\ on[u] = IF status[u] = "waiting" THEN b ELSE None
             /\ pc[m] = 5 /\ (status[m] = "ready" \/ left[m] < Unit) => status[u] = "waiting"
        /\ status[h] = "dormant" => pc[m] <= 1
        /\ status[d] = "dormant" => pc[m] <= 2
        /\ status[l] = "dormant" => pc[m] <= 3
    BY <1>1 DEF Gathering, m, h, d, l, b
  <2> QED
    BY <1>1, <1>5, <1>7, <2>1
<1>9. Gathering(p)'
  <2>1. /\ \/ pc'[m] \in 1 .. 5 /\ status'[m] = "ready" /\ left'[m] = 0
           \/ pc'[m] = 5 /\ status'[m] = "asleep" /\ left'[m] \in -Latency .. Unit
        /\ on'[m] = None
    BY <1>5, <1>7 DEF Gathering, m
  <2>2. semVal'[b] = 0 /\ b \notin deleted' /\ ResourceOf(p) \notin deleted'
    BY <1>5 DEF Gathering, b
  <2> QED
    BY <1>1, <1>6, <1>8, <2>1, <2>2 DEF Gathering, m, h, d, l, b
<1>10. GatherWaits(p)'
  BY <1>1, <1>3, <1>5, <1>7 DEF GatherWaits, m, h, d
<1> QED
  BY <1>9, <1>10

(* main wakes from its sleep of a unit, the only one asleep.               *)
LEMMA GatheringExpire ==
  ASSUME IInv, NEW p \in BC, Only(p), Gathering(p), GatherWaits(p),
         NEW t \in Tasks, Expire(t)
  PROVE  Gathering(p)' /\ GatherWaits(p)'
<1> DEFINE m == MainOf(p)
<1> DEFINE h == HighOf(p)
<1> DEFINE d == MediumOf(p)
<1> DEFINE l == LowOf(p)
<1>1. /\ WorkersOf(p) = {h, d, l} /\ TasksOf(p) = {h, d, l, m}
      /\ m # h /\ m # d /\ m # l /\ h # d /\ h # l /\ d # l
      /\ m \in Tasks /\ h \in Tasks /\ d \in Tasks /\ l \in Tasks
  BY TheFour
<1>2. /\ status \in [Tasks -> Status] /\ left \in [Tasks -> Int] /\ kept \in [Tasks -> Nat]
      /\ Unit \in Nat /\ Unit > 0 /\ Latency \in Nat
  BY TypesBC
<1>3. t = m
  BY <1>1 DEF Expire, Only, Gathering
<1>4. /\ pc[m] = 5 /\ left[m] \in -Latency .. Unit /\ left[m] <= 0 /\ left[m] < Unit
      /\ status[m] = "asleep"
  BY <1>2, <1>3 DEF Expire, Gathering
<1>5. /\ UNCHANGED <<pc, on, semVal, owner, deleted, kept>>
      /\ status'[m] = "ready" /\ left'[m] = 0
      /\ \A u \in {h, d, l} : status'[u] = status[u] /\ left'[u] = left[u]
  BY <1>1, <1>2, <1>3 DEF Expire
<1>6. ResourceRight(p)'
  BY <1>5, ResourceStays DEF Gathering
<1> HIDE DEF m, h, d, l
<1>7. Gathering(p)'
  <2>1. \A u \in {h, d, l} :
           /\ pc[u] = 1 /\ left[u] = 0 /\ status[u] = "waiting" /\ on[u] = BarrierOf(p)
    BY <1>1, <1>4 DEF Gathering, m
  <2>2. on[m] = None /\ semVal[BarrierOf(p)] = 0 /\ BarrierOf(p) \notin deleted
        /\ ResourceOf(p) \notin deleted
    BY DEF Gathering, m
  <2>3. 5 \in 1 .. 5
    OBVIOUS
  <2> QED
    BY <1>1, <1>4, <1>5, <1>6, <2>1, <2>2, <2>3 DEF Gathering, m, h, d, l
<1>8. GatherWaits(p)'
  <2>1. ASSUME NEW u \in {h, d} PROVE kept'[u] <= Unit + Latency
    <3>1. kept[u] <= Unit - left[m] /\ kept[u] \in Nat
      BY <1>1, <1>2, <1>4, <2>1 DEF GatherWaits, m, h, d
    <3> QED
      BY <1>1, <1>2, <1>4, <1>5, <3>1
  <2> QED
    BY <1>4, <1>5, <2>1 DEF GatherWaits, m, h, d
<1> QED
  BY <1>7, <1>8

(* Time passes only when all three wait and main sleeps.                   *)
LEMMA GatheringTick ==
  ASSUME IInv, NEW p \in BC, Only(p), Gathering(p), GatherWaits(p), Tick
  PROVE  Gathering(p)' /\ GatherWaits(p)'
<1> DEFINE m == MainOf(p)
<1> DEFINE h == HighOf(p)
<1> DEFINE d == MediumOf(p)
<1> DEFINE l == LowOf(p)
<1>1. /\ WorkersOf(p) = {h, d, l} /\ TasksOf(p) = {h, d, l, m}
      /\ m # h /\ m # d /\ m # l /\ h # d /\ h # l /\ d # l
      /\ m \in Tasks /\ h \in Tasks /\ d \in Tasks /\ l \in Tasks
  BY TheFour
<1>2. /\ status \in [Tasks -> Status] /\ left \in [Tasks -> Int] /\ kept \in [Tasks -> Nat]
      /\ Unit \in Nat /\ Unit > 0 /\ Latency \in Nat
  BY TypesBC
<1>3. cpu \notin Tasks
  <2> SUFFICES ASSUME cpu \in Tasks PROVE FALSE
    OBVIOUS
  <2>1. status[cpu] = "ready"
    BY RunningIsReady DEF IInv
  <2>2. cpu \in {h, d, l, m}
    BY <1>1, <2>1 DEF Only
  <2>3. left[cpu] = 0
    BY <1>1, <2>1, <2>2 DEF Gathering
  <2> QED
    BY <1>1, <2>2, <2>3, NoLoopBC DEF Tick, Consuming
<1>4. \A u \in Tasks : status[u] # "ready"
  BY <1>3 DEF IInv, Scheduled, Ready, Highest
<1>5. /\ pc[m] = 5 /\ left[m] \in -Latency .. Unit /\ status[m] = "asleep"
      /\ status[h] \in {"dormant", "waiting"} /\ status[d] \in {"dormant", "waiting"}
      /\ status[l] \in {"dormant", "waiting"}
  BY <1>1, <1>4 DEF Gathering
<1>6. status[h] = "waiting" /\ status[d] = "waiting" /\ status[l] = "waiting"
  BY <1>5 DEF Gathering
<1>7. /\ UNCHANGED <<pc, status, on, semVal, owner, deleted>>
      /\ left[m] > -Latency /\ left'[m] = left[m] - 1
      /\ \A u \in {h, d, l} : left'[u] = left[u] /\ kept'[u] = kept[u] + 1
  BY <1>1, <1>2, <1>3, <1>5, <1>6 DEF Tick, Asleep
<1>8. ResourceRight(p)'
  BY <1>7, ResourceStays DEF Gathering
<1> HIDE DEF m, h, d, l
<1>9. Gathering(p)'
  <2>1. \A u \in {h, d, l} :
           pc[u] = 1 /\ left[u] = 0 /\ status[u] = "waiting" /\ on[u] = BarrierOf(p)
    BY <1>1, <1>6 DEF Gathering
  <2>2. on[m] = None /\ semVal[BarrierOf(p)] = 0 /\ BarrierOf(p) \notin deleted
        /\ ResourceOf(p) \notin deleted
    BY DEF Gathering, m
  <2>3. left'[m] \in -Latency .. Unit
    BY <1>2, <1>5, <1>7
  <2> QED
    BY <1>1, <1>5, <1>7, <1>8, <2>1, <2>2, <2>3 DEF Gathering, m, h, d, l
<1>10. GatherWaits(p)'
  <2>1. ASSUME NEW u \in {h, d} PROVE kept'[u] <= Unit - left'[m]
    <3>1. kept[u] <= Unit - left[m] /\ kept[u] \in Nat /\ kept'[u] = kept[u] + 1
      BY <1>1, <1>2, <1>5, <1>7, <2>1 DEF GatherWaits, m, h, d
    <3>2. left[m] \in Int
      BY <1>1, <1>2
    <3> QED
      BY <1>2, <1>7, <3>1, <3>2
  <2> QED
    BY <1>5, <1>7, <2>1 DEF GatherWaits, m, h, d
<1> QED
  BY <1>9, <1>10

-----------------------------------------------------------------------------
(* The time account stands if nobody gets more work and nobody comes back. *)
LEMMA InTimeKeeps ==
  ASSUME IInv, NEW p \in BC, Working(p), Spent(p)' = Spent(p),
         \A t \in WorkersOf(p) : status[t] = "gone" => status'[t] = "gone",
         HighWork(p)' \in Int, MediumWork(p)' \in Int, LowWork(p)' \in Int,
         HighWork(p)' <= HighWork(p), MediumWork(p)' <= MediumWork(p),
         LowWork(p)' <= LowWork(p)
  PROVE  InTimeOf(p)'
<1> DEFINE A == HighWork(p)
<1> DEFINE B == MediumWork(p)
<1> DEFINE C == LowWork(p)
<1> DEFINE s == Spent(p)
<1>1. A \in Int /\ B \in Int /\ C \in Int /\ s \in Nat /\ Unit \in Nat /\ Latency \in Nat
  BY WorkTypes, TypesBC
<1> SUFFICES ASSUME \E t \in WorkersOf(p) : status'[t] # "gone"
             PROVE  s' <= 2 * Unit + Latency \/ A' + B' + C' + s' <= 12 * Unit + Latency
  BY DEF InTimeOf
<1>2. s <= 2 * Unit + Latency \/ A + B + C + s <= 12 * Unit + Latency
  BY DEF Working, InTimeOf
<1>3. A' + B' + C' + s' <= A + B + C + s
  <2>1. /\ A \in Int /\ B \in Int /\ C \in Int /\ s \in Nat /\ s' = s
        /\ A' \in Int /\ B' \in Int /\ C' \in Int /\ A' <= A /\ B' <= B /\ C' <= C
    BY <1>1
  <2> HIDE DEF A, B, C, s
  <2> QED
    BY <2>1
<1>4. A + B + C + s \in Int /\ A' + B' + C' + s' \in Int /\ 12 * Unit + Latency \in Int
  BY <1>1
<1> QED
  BY <1>2, <1>3, <1>4

(* main's sleep of 20 units begins: the account of the time starts here.   *)
LEMMA WorkingMain ==
  ASSUME IInv, NEW p \in BC, Only(p), Working(p), HighWaits(p), MediumWaits(p),
         Step(MainOf(p))
  PROVE  Working(p)' /\ HighWaits(p)' /\ MediumWaits(p)'
<1> DEFINE m == MainOf(p)
<1> DEFINE h == HighOf(p)
<1> DEFINE d == MediumOf(p)
<1> DEFINE l == LowOf(p)
<1>1. /\ WorkersOf(p) = {h, d, l} /\ TasksOf(p) = {h, d, l, m}
      /\ m # h /\ m # d /\ m # l /\ h # d /\ h # l /\ d # l
      /\ m \in Tasks /\ h \in Tasks /\ d \in Tasks /\ l \in Tasks
  BY TheFour
<1>2. /\ pc \in [Tasks -> Nat] /\ status \in [Tasks -> Status] /\ left \in [Tasks -> Int]
      /\ Unit \in Nat /\ Unit > 0 /\ Latency \in Nat
  BY TypesBC
<1>3. pc[m] = 6 /\ status[m] = "ready" /\ on[m] = None /\ kept' = kept /\ Sleep(m) /\ Num(m) = 20
  <2>1. status[m] = "ready"
    BY <1>1, StepperRuns
  <2>2. pc[m] = 6
    BY <2>1 DEF Working
  <2> QED
    BY <2>2, MainCall
<1>4. /\ status' = [status EXCEPT ![m] = "asleep"] /\ pc' = [pc EXCEPT ![m] = @ + 1]
      /\ left' = [left EXCEPT ![m] = 20 * Unit]
      /\ UNCHANGED <<on, owner, semVal, deleted>>
  BY <1>3 DEF Sleep, Advance
<1>5. /\ pc'[m] = 7 /\ status'[m] = "asleep" /\ left'[m] = 20 * Unit
      /\ \A t \in {h, d, l} : pc'[t] = pc[t] /\ status'[t] = status[t] /\ left'[t] = left[t]
  BY <1>1, <1>2, <1>3, <1>4
<1>6. Spent(p) = 0 /\ Spent(p)' = 0
  <2>1. 20 * Unit - 20 * Unit = 0
    BY <1>2
  <2> QED
    BY <1>3, <1>5, <2>1 DEF Spent
<1>7. LowHas(p)' = LowHas(p) /\ HighHas(p)' = HighHas(p) /\ ResourceRight(p)'
  BY <1>1, <1>4, <1>5, ResourceStays DEF Working
<1> HIDE DEF m, h, d, l
<1>8. HighWorks(p)' /\ MediumWorks(p)' /\ LowWorks(p)'
  <2>1. HighWorks(p)'
    BY <1>1, <1>5, <1>6, <1>7 DEF Working, HighWorks, h
  <2>2. MediumWorks(p)'
    BY <1>1, <1>5, <1>6 DEF Working, MediumWorks, d
  <2>3. LowWorks(p)'
    BY <1>1, <1>5, <1>6 DEF Working, LowWorks, l
  <2> QED
    BY <2>1, <2>2, <2>3
<1>9. /\ HighWork(p)' = HighWork(p) /\ MediumWork(p)' = MediumWork(p)
      /\ LowWork(p)' = LowWork(p)
  BY <1>1, <1>5 DEF HighWork, MediumWork, LowWork, WorkOf, h, d, l
<1>10. InTimeOf(p)'
  <2>1. 0 <= 2 * Unit + Latency
    BY <1>2
  <2> QED
    BY <1>6, <2>1 DEF InTimeOf
<1>11. Working(p)'
  <2>1. \A t \in TasksOf(p) :
          on'[t] = IF status'[t] = "waiting" THEN ResourceOf(p) ELSE None
    BY <1>1, <1>3, <1>4, <1>5 DEF Working
  <2>2. left'[m] <= 20 * Unit
    BY <1>2, <1>5
  <2> QED
    BY <1>4, <1>5, <1>7, <1>8, <1>10, <2>1, <2>2 DEF Working, m
<1>12. HighWaits(p)' /\ MediumWaits(p)'
  <2>1. HighWaits(p)'
    BY <1>1, <1>3, <1>5, <1>9 DEF HighWaits, h
  <2>2. MediumWaits(p)'
    BY <1>1, <1>3, <1>5, <1>9 DEF MediumWaits, d
  <2> QED
    BY <2>1, <2>2
<1> QED
  BY <1>11, <1>12

(* A step of one of the three leaves main's account where it is.           *)
LEMMA SpentStays ==
  ASSUME NEW p \in BC, pc'[MainOf(p)] = pc[MainOf(p)], left'[MainOf(p)] = left[MainOf(p)]
  PROVE  Spent(p)' = Spent(p)
BY DEF Spent

(* What the others need not know of a step of HIGH.                        *)
LEMMA HighLeaves ==
  ASSUME IInv, NEW p \in BC, Working(p), MediumWaits(p), kept' = kept,
         \A t \in {MainOf(p), MediumOf(p), LowOf(p)} :
           pc'[t] = pc[t] /\ status'[t] = status[t] /\ left'[t] = left[t] /\ on'[t] = on[t],
         deleted' = deleted, ResourceRight(p)', ~(LowHas(p)' /\ HighHas(p)'),
         on'[HighOf(p)] = IF status'[HighOf(p)] = "waiting" THEN ResourceOf(p) ELSE None,
         HighWorks(p)', status[HighOf(p)] = "ready",
         HighWork(p)' \in Int, HighWork(p)' <= HighWork(p)
  PROVE  Working(p)' /\ MediumWaits(p)' /\ LowWork(p)' = LowWork(p)
<1> DEFINE m == MainOf(p)
<1> DEFINE h == HighOf(p)
<1> DEFINE d == MediumOf(p)
<1> DEFINE l == LowOf(p)
<1>1. /\ WorkersOf(p) = {h, d, l} /\ TasksOf(p) = {h, d, l, m}
      /\ m # h /\ m # d /\ m # l /\ h # d /\ h # l /\ d # l
      /\ m \in Tasks /\ h \in Tasks /\ d \in Tasks /\ l \in Tasks
  BY TheFour
<1>2. Spent(p)' = Spent(p)
  BY SpentStays
<1>3. MediumWork(p)' = MediumWork(p) /\ LowWork(p)' = LowWork(p)
  BY DEF MediumWork, LowWork, WorkOf
<1>4. /\ HighWork(p) \in Int /\ MediumWork(p) \in Int /\ LowWork(p) \in Int
      /\ kept \in [Tasks -> Nat] /\ Unit \in Nat
  BY WorkTypes, TypesBC
<1>5. MediumWorks(p)' /\ LowWorks(p)'
  BY <1>2 DEF Working, MediumWorks, LowWorks
<1>6. InTimeOf(p)'
  <2>1. \A t \in WorkersOf(p) : status[t] = "gone" => status'[t] = "gone"
    BY <1>1
  <2> QED
    BY <1>2, <1>3, <1>4, <2>1, InTimeKeeps
<1>7. Working(p)'
  <2>1. \A t \in TasksOf(p) :
          on'[t] = IF status'[t] = "waiting" THEN ResourceOf(p) ELSE None
    BY <1>1 DEF Working
  <2>2. /\ \/ pc'[m] = 6 /\ status'[m] = "ready" /\ left'[m] = 0
           \/ pc'[m] = 7 /\ status'[m] = "asleep" /\ left'[m] <= 20 * Unit
        /\ ResourceOf(p) \notin deleted'
    BY DEF Working
  <2> QED
    BY <1>5, <1>6, <2>1, <2>2 DEF Working
<1>8. MediumWaits(p)'
  <2> HIDE DEF d
  <2> DEFINE A == HighWork(p)
  <2> DEFINE C == LowWork(p)
  <2>1. A \in Int /\ A' \in Int /\ A' <= A /\ C \in Int /\ C' = C /\ kept[d] \in Int
    BY <1>1, <1>3, <1>4
  <2>2. pc'[d] = pc[d] /\ status'[d] = status[d] /\ left'[d] = left[d]
    BY DEF d
  <2>3. kept[d] + A + C <= 5 * Unit => kept[d] + A' + C' <= 5 * Unit
    <3> HIDE DEF A, C
    <3> QED
      BY <1>4, <2>1
  <2> QED
    BY <2>2, <2>3 DEF MediumWaits, d
<1> QED
  BY <1>3, <1>7, <1>8

(* HIGH sleeps 2 units, takes the resource or waits for LOW to give it     *)
(* back, spins 2 units, gives it back and returns.                         *)
LEMMA WorkingHigh ==
  ASSUME IInv, NEW p \in BC, Only(p), Working(p), HighWaits(p), MediumWaits(p),
         Step(HighOf(p))
  PROVE  Working(p)' /\ HighWaits(p)' /\ MediumWaits(p)'
<1> DEFINE m == MainOf(p)
<1> DEFINE h == HighOf(p)
<1> DEFINE d == MediumOf(p)
<1> DEFINE l == LowOf(p)
<1> DEFINE r == ResourceOf(p)
<1> DEFINE s == Spent(p)
<1>1. /\ TasksOf(p) = {h, d, l, m}
      /\ m # h /\ m # d /\ m # l /\ h # d /\ h # l /\ d # l
      /\ m \in Tasks /\ h \in Tasks /\ d \in Tasks /\ l \in Tasks
  BY TheFour
<1>2. /\ pc \in [Tasks -> Nat] /\ status \in [Tasks -> Status] /\ left \in [Tasks -> Int]
      /\ on \in [Tasks -> Objects \cup {None}] /\ kept \in [Tasks -> Nat]
      /\ Unit \in Nat /\ Unit > 0 /\ Latency \in Nat
  BY TypesBC
<1>3. /\ cpu = h /\ status[h] = "ready" /\ on[h] = None /\ left[h] = 0 /\ kept' = kept
      /\ HighWorks(p) /\ ResourceRight(p) /\ r \notin deleted /\ ~(LowHas(p) /\ HighHas(p))
  BY HighCall DEF Working
<1>4. /\ \/ pc[h] = 2 /\ Sleep(h) /\ Num(h) = 2
         \/ pc[h] = 3 /\ Takes(p, h)
         \/ pc[h] = 4 /\ Spin(h) /\ Num(h) = 2
         \/ pc[h] = 5 /\ Gives(p, h)
         \/ pc[h] = 6 /\ Return(h)
      /\ pc[h] = 2 => s = 0
      /\ pc[h] # 2 => s >= 2 * Unit
  <2>1. pc[h] # 1
    BY <1>3 DEF HighWorks
  <2> QED
    BY <1>3, <2>1, HighCall DEF HighWorks
<1>5. /\ p = "C" /\ pc[h] = 2 => kept[h] <= Unit + Latency
      /\ p = "C" /\ pc[h] = 3 => kept[h] = 0
      /\ p = "C" /\ pc[h] > 3 => kept[h] <= 3 * Unit
  BY <1>3 DEF HighWaits
<1>6. HighWork(p) \in 0 .. 2 * Unit /\ LowWork(p) \in 0 .. 3 * Unit
  BY WorkTypes
<1>7. ASSUME \A t \in {m, d, l} : /\ pc'[t] = pc[t] /\ status'[t] = status[t]
                                  /\ left'[t] = left[t] /\ on'[t] = on[t],
             deleted' = deleted, ResourceRight(p)', ~(LowHas(p)' /\ HighHas(p)'),
             on'[h] = IF status'[h] = "waiting" THEN r ELSE None,
             HighWorks(p)', HighWork(p)' \in Int, HighWork(p)' <= HighWork(p)
      PROVE  Working(p)' /\ MediumWaits(p)' /\ LowWork(p)' = LowWork(p) /\ Spent(p)' = Spent(p)
  <2>1. Working(p)' /\ MediumWaits(p)' /\ LowWork(p)' = LowWork(p)
    BY <1>3, <1>7, HighLeaves
  <2>2. Spent(p)' = Spent(p)
    BY <1>7, SpentStays
  <2> QED
    BY <2>1, <2>2
<1> HIDE DEF m, h, d, l, r, s
<1>8. CASE pc[h] = 2
  <2>1. /\ status' = [status EXCEPT ![h] = "asleep"] /\ pc' = [pc EXCEPT ![h] = @ + 1]
        /\ left' = [left EXCEPT ![h] = 2 * Unit]
        /\ UNCHANGED <<on, owner, semVal, deleted>>
    BY <1>4, <1>8 DEF Sleep, Advance
  <2>2. /\ pc'[h] = 3 /\ status'[h] = "asleep" /\ left'[h] = 2 * Unit /\ on'[h] = None
        /\ \A t \in {m, d, l} : /\ pc'[t] = pc[t] /\ status'[t] = status[t]
                                /\ left'[t] = left[t] /\ on'[t] = on[t]
    BY <1>1, <1>2, <1>3, <1>8, <2>1
  <2>3. Spent(p)' = 0
    BY <1>4, <1>8, <2>2, SpentStays DEF m, s
  <2>4. ~HighHas(p) /\ ~HighHas(p)' /\ LowHas(p)' = LowHas(p) /\ ResourceRight(p)'
    <3>1. ~HighHas(p) /\ ~HighHas(p)' /\ LowHas(p)' = LowHas(p)
      BY <1>8, <2>2 DEF HighHas, LowHas, h, l
    <3> QED
      BY <1>3, <2>1, <3>1 DEF ResourceRight
  <2>5. HighWorks(p)'
    <3>1. 2 * Unit = 2 * Unit - 0 /\ 2 * Unit >= -Latency
      BY <1>2
    <3> QED
      BY <2>2, <2>3, <3>1 DEF HighWorks, h
  <2>6. HighWork(p)' = HighWork(p)
    BY <1>8, <2>2 DEF HighWork, WorkOf, h
  <2>7. Working(p)' /\ MediumWaits(p)'
    BY <1>6, <1>7, <2>1, <2>2, <2>4, <2>5, <2>6
  <2>8. HighWaits(p)'
    BY <1>3, <1>5, <1>8, <2>2 DEF HighWaits, h
  <2> QED
    BY <2>7, <2>8
<1>9. CASE pc[h] = 3 /\ LowHas(p)
  <2>1. /\ status' = [status EXCEPT ![h] = "waiting"] /\ on' = [on EXCEPT ![h] = r]
        /\ UNCHANGED <<pc, left, deleted>> /\ ResourceRight(p)'
    BY <1>3, <1>4, <1>9, TakeTaken DEF h, r
  <2>2. /\ pc'[h] = 3 /\ status'[h] = "waiting" /\ left'[h] = 0 /\ on'[h] = r
        /\ \A t \in {m, d, l} : /\ pc'[t] = pc[t] /\ status'[t] = status[t]
                                /\ left'[t] = left[t] /\ on'[t] = on[t]
    BY <1>1, <1>2, <1>3, <1>9, <2>1
  <2>3. Spent(p)' = s
    BY <2>2, SpentStays DEF m, s
  <2>4. LowHas(p)' /\ ~HighHas(p)'
    BY <1>9, <2>1, <2>2 DEF LowHas, HighHas, h
  <2>5. HighWorks(p)'
    BY <1>4, <1>9, <2>2, <2>3, <2>4 DEF HighWorks, h
  <2>6. HighWork(p)' = HighWork(p)
    BY <1>9, <2>2 DEF HighWork, WorkOf, h
  <2>7. Working(p)' /\ MediumWaits(p)' /\ LowWork(p)' = LowWork(p)
    BY <1>6, <1>7, <2>1, <2>2, <2>4, <2>5, <2>6
  <2>8. HighWaits(p)'
    <3>1. p = "C" => kept'[h] + LowWork(p)' <= 3 * Unit
      BY <1>2, <1>3, <1>5, <1>6, <1>9, <2>7
    <3> QED
      BY <2>2, <3>1 DEF HighWaits, h
  <2> QED
    BY <2>7, <2>8
<1>10. CASE pc[h] = 3 /\ ~LowHas(p)
  <2>1. ~HighHas(p)
    BY <1>10 DEF HighHas, h
  <2>2. pc' = [pc EXCEPT ![h] = @ + 1] /\ UNCHANGED <<status, on, left, deleted>>
        /\ ResourceRight(p)'
    BY <1>3, <1>4, <1>10, <2>1, TakeFree DEF h, r
  <2>3. /\ pc'[h] = 4 /\ status'[h] = "ready" /\ left'[h] = 0 /\ on'[h] = None
        /\ \A t \in {m, d, l} : /\ pc'[t] = pc[t] /\ status'[t] = status[t]
                                /\ left'[t] = left[t] /\ on'[t] = on[t]
    BY <1>1, <1>2, <1>3, <1>10, <2>2
  <2>4. Spent(p)' = s
    BY <2>3, SpentStays DEF m, s
  <2>5. ~LowHas(p)'
    BY <1>10, <2>3 DEF LowHas, l
  <2>6. HighWorks(p)'
    BY <1>4, <1>10, <2>3, <2>4 DEF HighWorks, h
  <2>7. HighWork(p)' = HighWork(p)
    BY <1>10, <2>3 DEF HighWork, WorkOf, h
  <2>8. Working(p)' /\ MediumWaits(p)'
    BY <1>6, <1>7, <2>2, <2>3, <2>5, <2>6, <2>7
  <2>9. HighWaits(p)'
    <3>1. p = "C" => kept'[h] <= 3 * Unit
      BY <1>2, <1>3, <1>5, <1>10
    <3> QED
      BY <2>3, <3>1 DEF HighWaits, h
  <2> QED
    BY <2>8, <2>9
<1>11. CASE pc[h] = 4
  <2>1. /\ pc' = [pc EXCEPT ![h] = @ + 1] /\ left' = [left EXCEPT ![h] = 2 * Unit]
        /\ UNCHANGED <<status, on, owner, semVal, deleted>>
    BY <1>4, <1>11 DEF Spin, Advance
  <2>2. /\ pc'[h] = 5 /\ status'[h] = "ready" /\ left'[h] = 2 * Unit /\ on'[h] = None
        /\ \A t \in {m, d, l} : /\ pc'[t] = pc[t] /\ status'[t] = status[t]
                                /\ left'[t] = left[t] /\ on'[t] = on[t]
    BY <1>1, <1>2, <1>3, <1>11, <2>1
  <2>3. Spent(p)' = s
    BY <2>2, SpentStays DEF m, s
  <2>4. HighHas(p) /\ HighHas(p)' /\ LowHas(p)' = LowHas(p) /\ ResourceRight(p)'
    <3>1. HighHas(p) /\ HighHas(p)' /\ LowHas(p)' = LowHas(p)
      BY <1>11, <2>2 DEF HighHas, LowHas, h, l
    <3> QED
      BY <1>3, <2>1, <3>1 DEF ResourceRight
  <2>5. HighWorks(p)'
    <3>1. 2 * Unit \in 0 .. 2 * Unit
      BY <1>2
    <3> QED
      BY <1>4, <1>11, <2>2, <2>3, <3>1 DEF HighWorks, h
  <2>6. HighWork(p)' = HighWork(p)
    BY <1>11, <2>2 DEF HighWork, WorkOf, h
  <2>7. Working(p)' /\ MediumWaits(p)'
    BY <1>3, <1>6, <1>7, <2>1, <2>2, <2>4, <2>5, <2>6
  <2>8. HighWaits(p)'
    BY <1>3, <1>5, <1>11, <2>2 DEF HighWaits, h
  <2> QED
    BY <2>7, <2>8
<1>12. CASE pc[h] = 5
  <2>1. HighHas(p) /\ ~LowHas(p)
    BY <1>3, <1>12 DEF HighHas, h
  <2>2. on[l] = None /\ on[d] = None /\ on[m] = None
    BY <1>1 DEF Working, MediumWorks, LowWorks, m, d, l
  <2>3. /\ pc' = [u \in Tasks |-> IF u \in {} \cup {h} THEN pc[u] + 1 ELSE pc[u]]
        /\ status' = [u \in Tasks |-> IF u \in {} THEN "ready" ELSE status[u]]
        /\ on' = [u \in Tasks |-> IF u \in {} THEN None ELSE on[u]]
        /\ UNCHANGED <<left, deleted>>
        /\ ResourceRight(p)'
    <3>1. {} = IF on[h] = None THEN {} ELSE {h}
      BY <1>3
    <3>2. h # l /\ Gives(p, h) /\ pc[h] = 5 /\ on[h] = None /\ r \notin deleted
      BY <1>1, <1>3, <1>4, <1>12
    <3> QED
      BY <1>3, <2>2, <3>1, <3>2, GiveBack DEF m, h, d, l, r
  <2>4. /\ pc'[h] = 6 /\ status'[h] = "ready" /\ left'[h] = 0 /\ on'[h] = None
        /\ \A t \in {m, d, l} : /\ pc'[t] = pc[t] /\ status'[t] = status[t]
                                /\ left'[t] = left[t] /\ on'[t] = on[t]
    BY <1>1, <1>2, <1>3, <1>12, <2>3
  <2>5. Spent(p)' = s
    BY <2>4, SpentStays DEF m, s
  <2>6. ~HighHas(p)'
    BY <2>4 DEF HighHas, h
  <2>7. HighWorks(p)'
    BY <1>4, <1>12, <2>4, <2>5 DEF HighWorks, h
  <2>8. HighWork(p)' = 0
    BY <2>4 DEF HighWork, WorkOf, h
  <2>9. Working(p)' /\ MediumWaits(p)'
    BY <1>6, <1>7, <2>3, <2>4, <2>6, <2>7, <2>8
  <2>10. HighWaits(p)'
    BY <1>3, <1>5, <1>12, <2>4 DEF HighWaits, h
  <2> QED
    BY <2>9, <2>10
<1>13. CASE pc[h] = 6
  <2>1. h \notin Mains
    BY <1>1, ProgramBC DEF m, h
  <2>2. /\ status' = [u \in Tasks |-> IF u = h THEN "gone" ELSE status[u]]
        /\ UNCHANGED <<pc, on, left, owner, semVal, deleted>>
    BY <1>2, <1>4, <1>13, <2>1 DEF Return
  <2>3. /\ pc'[h] = 6 /\ status'[h] = "gone" /\ left'[h] = 0 /\ on'[h] = None
        /\ \A t \in {m, d, l} : /\ pc'[t] = pc[t] /\ status'[t] = status[t]
                                /\ left'[t] = left[t] /\ on'[t] = on[t]
    BY <1>1, <1>2, <1>3, <1>13, <2>2
  <2>4. Spent(p)' = s
    BY <2>3, SpentStays DEF m, s
  <2>5. LowHas(p)' = LowHas(p) /\ HighHas(p)' = HighHas(p) /\ ResourceRight(p)'
    BY <1>3, <2>2, ResourceStays
  <2>6. HighWorks(p)'
    BY <1>4, <1>13, <2>3, <2>4 DEF HighWorks, h
  <2>7. HighWork(p)' = HighWork(p)
    BY <2>2 DEF HighWork, WorkOf
  <2>8. Working(p)' /\ MediumWaits(p)'
    BY <1>3, <1>6, <1>7, <2>2, <2>3, <2>5, <2>6, <2>7
  <2>9. HighWaits(p)'
    BY <1>3, <1>5, <1>13, <2>3 DEF HighWaits, h
  <2> QED
    BY <2>8, <2>9
<1> QED
  BY <1>4, <1>8, <1>9, <1>10, <1>11, <1>12, <1>13

(* MEDIUM sleeps a unit, spins 5 and returns; it uses no object.           *)
LEMMA WorkingMedium ==
  ASSUME IInv, NEW p \in BC, Only(p), Working(p), HighWaits(p), MediumWaits(p),
         Step(MediumOf(p))
  PROVE  Working(p)' /\ HighWaits(p)' /\ MediumWaits(p)'
<1> DEFINE m == MainOf(p)
<1> DEFINE h == HighOf(p)
<1> DEFINE d == MediumOf(p)
<1> DEFINE l == LowOf(p)
<1> DEFINE s == Spent(p)
<1>1. /\ WorkersOf(p) = {h, d, l} /\ TasksOf(p) = {h, d, l, m}
      /\ m # h /\ m # d /\ m # l /\ h # d /\ h # l /\ d # l
      /\ m \in Tasks /\ h \in Tasks /\ d \in Tasks /\ l \in Tasks
  BY TheFour
<1>2. /\ pc \in [Tasks -> Nat] /\ status \in [Tasks -> Status] /\ left \in [Tasks -> Int]
      /\ kept \in [Tasks -> Nat] /\ Unit \in Nat /\ Unit > 0 /\ Latency \in Nat
  BY TypesBC
<1>3. /\ status[d] = "ready" /\ on[d] = None /\ left[d] = 0 /\ kept' = kept
      /\ MediumWorks(p)
  BY MediumCall DEF Working
<1>4. /\ \/ pc[d] = 2 /\ Sleep(d) /\ Num(d) = 1
         \/ pc[d] = 3 /\ Spin(d) /\ Num(d) = 5
         \/ pc[d] = 4 /\ Return(d)
      /\ pc[d] = 2 => s = 0
      /\ pc[d] # 2 => s >= Unit
  <2>1. pc[d] # 1
    BY <1>3 DEF MediumWorks
  <2> QED
    BY <1>3, <2>1, MediumCall DEF MediumWorks
<1>5. d \notin Mains
  BY <1>1, ProgramBC
<1> HIDE DEF m, h, d, l, s
<1>6. PICK c \in {2, 3, 4} :
        /\ pc[d] = c
        /\ pc' = IF c = 4 THEN pc ELSE [pc EXCEPT ![d] = @ + 1]
        /\ left' = IF c = 4 THEN left
                   ELSE [left EXCEPT ![d] = IF c = 2 THEN Unit ELSE 5 * Unit]
        /\ status' = IF c = 2 THEN [status EXCEPT ![d] = "asleep"]
                     ELSE IF c = 3 THEN status ELSE [status EXCEPT ![d] = "gone"]
        /\ UNCHANGED <<on, semVal, owner, deleted>>
  <2>1. CASE pc[d] = 2
    BY <1>2, <1>4, <2>1 DEF Sleep, Advance
  <2>2. CASE pc[d] = 3
    BY <1>4, <2>2 DEF Spin, Advance
  <2>3. CASE pc[d] = 4
    <3>1. status' = [u \in Tasks |-> IF u = d THEN "gone" ELSE status[u]] /\ on' = on
          /\ UNCHANGED <<pc, left, semVal, owner, deleted>>
      BY <1>2, <1>4, <1>5, <2>3, TypesBC DEF Return
    <3>2. status' = [status EXCEPT ![d] = "gone"]
      BY <1>2, <3>1
    <3>3. UNCHANGED <<on, semVal, owner, deleted>> /\ pc' = pc /\ left' = left
      BY <3>1
    <3> QED
      BY <2>3, <3>2, <3>3
  <2> QED
    BY <1>4, <2>1, <2>2, <2>3
<1>7. /\ \A t \in {h, l, m} : pc'[t] = pc[t] /\ status'[t] = status[t] /\ left'[t] = left[t]
      /\ c = 2 => pc'[d] = 3 /\ left'[d] = Unit /\ status'[d] = "asleep"
      /\ c = 3 => pc'[d] = 4 /\ left'[d] = 5 * Unit /\ status'[d] = "ready"
      /\ c = 4 => pc'[d] = 4 /\ left'[d] = 0 /\ status'[d] = "gone"
  BY <1>1, <1>2, <1>3, <1>6
<1>8. Spent(p)' = s
  BY <1>7, SpentStays DEF m, s
<1>9. LowHas(p)' = LowHas(p) /\ HighHas(p)' = HighHas(p) /\ ResourceRight(p)'
  BY <1>6, <1>7, ResourceStays DEF Working, h, l
<1>10. HighWorks(p)' /\ LowWorks(p)'
  BY <1>7, <1>8, <1>9 DEF Working, HighWorks, LowWorks, h, l, s
<1>11. MediumWorks(p)'
  <2>1. Unit = Unit - 0 /\ Unit >= -Latency /\ 5 * Unit \in 0 .. 5 * Unit
    BY <1>2
  <2> QED
    BY <1>4, <1>6, <1>7, <1>8, <2>1 DEF MediumWorks, d
<1>12. /\ HighWork(p)' = HighWork(p) /\ LowWork(p)' = LowWork(p)
       /\ MediumWork(p)' = MediumWork(p)
  <2>1. HighWork(p)' = HighWork(p) /\ LowWork(p)' = LowWork(p)
    BY <1>7 DEF HighWork, LowWork, WorkOf, h, l
  <2>2. MediumWork(p)' = MediumWork(p)
    BY <1>3, <1>6, <1>7 DEF MediumWork, WorkOf, d
  <2> QED
    BY <2>1, <2>2
<1>13. InTimeOf(p)'
  <2>1. \A t \in WorkersOf(p) : status[t] = "gone" => status'[t] = "gone"
    BY <1>1, <1>3, <1>7
  <2>2. HighWork(p) \in Int /\ MediumWork(p) \in Int /\ LowWork(p) \in Int
    BY WorkTypes
  <2> QED
    BY <1>8, <1>12, <2>1, <2>2, InTimeKeeps DEF s
<1>14. Working(p)'
  <2>1. \A t \in TasksOf(p) :
          on'[t] = IF status'[t] = "waiting" THEN ResourceOf(p) ELSE None
    BY <1>1, <1>3, <1>6, <1>7 DEF Working
  <2>2. /\ \/ pc'[m] = 6 /\ status'[m] = "ready" /\ left'[m] = 0
           \/ pc'[m] = 7 /\ status'[m] = "asleep" /\ left'[m] <= 20 * Unit
        /\ ResourceOf(p) \notin deleted' /\ ~(LowHas(p)' /\ HighHas(p)')
    BY <1>6, <1>7, <1>9 DEF Working, m
  <2> QED
    BY <1>9, <1>10, <1>11, <1>13, <2>1, <2>2 DEF Working, m
<1>15. HighWaits(p)'
  BY <1>3, <1>7, <1>12 DEF HighWaits, h
<1>16. MediumWaits(p)'
  <2>1. /\ pc[d] = 2 => kept[d] <= Unit + Latency
        /\ pc[d] # 2 => kept[d] + HighWork(p) + LowWork(p) <= 5 * Unit
    BY <1>3 DEF MediumWaits, d
  <2> QED
    BY <1>3, <1>6, <1>7, <1>12, <2>1 DEF MediumWaits, d
<1> QED
  BY <1>14, <1>15, <1>16

(* LOW takes the resource before HIGH is back from its sleep, spins 3      *)
(* units, hands the resource to HIGH if HIGH waits for it, and returns.    *)
LEMMA WorkingLow ==
  ASSUME IInv, NEW p \in BC, Only(p), Working(p), HighWaits(p), MediumWaits(p),
         Step(LowOf(p))
  PROVE  Working(p)' /\ HighWaits(p)' /\ MediumWaits(p)'
<1> DEFINE m == MainOf(p)
<1> DEFINE h == HighOf(p)
<1> DEFINE d == MediumOf(p)
<1> DEFINE l == LowOf(p)
<1> DEFINE r == ResourceOf(p)
<1> DEFINE s == Spent(p)
<1>1. /\ WorkersOf(p) = {h, d, l} /\ TasksOf(p) = {h, d, l, m}
      /\ m # h /\ m # d /\ m # l /\ h # d /\ h # l /\ d # l
      /\ m \in Tasks /\ h \in Tasks /\ d \in Tasks /\ l \in Tasks
  BY TheFour
<1>2. /\ pc \in [Tasks -> Nat] /\ status \in [Tasks -> Status] /\ left \in [Tasks -> Int]
      /\ on \in [Tasks -> Objects \cup {None}] /\ kept \in [Tasks -> Nat]
      /\ Unit \in Nat /\ Unit > 0 /\ Latency \in Nat /\ r # None
  BY TypesBC
<1>3. /\ status[l] = "ready" /\ on[l] = None /\ left[l] = 0 /\ kept' = kept
      /\ HighWorks(p) /\ MediumWorks(p) /\ LowWorks(p)
      /\ ResourceRight(p) /\ r \notin deleted /\ ~(LowHas(p) /\ HighHas(p))
  BY LowCall DEF Working
<1>4. /\ \/ pc[l] = 2 /\ Takes(p, l)
         \/ pc[l] = 3 /\ Spin(l) /\ Num(l) = 3
         \/ pc[l] = 4 /\ Gives(p, l)
         \/ pc[l] = 5 /\ Return(l)
      /\ pc[l] = 2 => s = 0
  <2>1. pc[l] # 1
    BY <1>3 DEF LowWorks
  <2> QED
    BY <1>3, <2>1, LowCall DEF LowWorks
<1>5. /\ HighWork(p) \in 0 .. 2 * Unit /\ MediumWork(p) \in 0 .. 5 * Unit
      /\ LowWork(p) \in 0 .. 3 * Unit
  BY WorkTypes
<1>6. ASSUME pc'[m] = pc[m], left'[m] = left[m],
             \A t \in {m, d} : /\ pc'[t] = pc[t] /\ status'[t] = status[t]
                               /\ left'[t] = left[t] /\ on'[t] = on[t],
             \A t \in {h, l} :
               /\ on'[t] = IF status'[t] = "waiting" THEN r ELSE None
               /\ status[t] = "gone" => status'[t] = "gone",
             deleted' = deleted, ResourceRight(p)', ~(LowHas(p)' /\ HighHas(p)'),
             HighWorks(p)', LowWorks(p)', HighWork(p)' = HighWork(p),
             LowWork(p)' \in Int, LowWork(p)' <= LowWork(p)
      PROVE  Working(p)' /\ MediumWaits(p)'
  <2>1. Spent(p)' = Spent(p)
    BY <1>6, SpentStays
  <2>2. MediumWork(p)' = MediumWork(p)
    BY <1>6 DEF MediumWork, WorkOf
  <2>3. MediumWorks(p)'
    BY <1>3, <1>6, <2>1 DEF MediumWorks
  <2>4. InTimeOf(p)'
    <3>1. \A t \in WorkersOf(p) : status[t] = "gone" => status'[t] = "gone"
      BY <1>1, <1>6
    <3> QED
      BY <1>5, <1>6, <2>1, <2>2, <3>1, InTimeKeeps
  <2>5. Working(p)'
    <3>1. \A t \in TasksOf(p) :
            on'[t] = IF status'[t] = "waiting" THEN r ELSE None
      BY <1>1, <1>6 DEF Working
    <3>2. /\ \/ pc'[m] = 6 /\ status'[m] = "ready" /\ left'[m] = 0
             \/ pc'[m] = 7 /\ status'[m] = "asleep" /\ left'[m] <= 20 * Unit
          /\ r \notin deleted'
      BY <1>6 DEF Working
    <3> QED
      BY <1>6, <2>3, <2>4, <3>1, <3>2 DEF Working
  <2>6. MediumWaits(p)'
    <3> HIDE DEF d
    <3> DEFINE A == HighWork(p)
    <3> DEFINE C == LowWork(p)
    <3>1. A \in Int /\ A' = A /\ C \in Int /\ C' \in Int /\ C' <= C /\ kept[d] \in Int
      BY <1>1, <1>2, <1>5, <1>6
    <3>2. pc'[d] = pc[d] /\ status'[d] = status[d] /\ left'[d] = left[d]
      BY <1>6
    <3>3. kept[d] + A + C <= 5 * Unit => kept[d] + A' + C' <= 5 * Unit
      <4> HIDE DEF A, C
      <4> QED
        BY <1>2, <3>1
    <3> QED
      BY <1>3, <3>2, <3>3 DEF MediumWaits, d
  <2> QED
    BY <2>5, <2>6
<1> HIDE DEF m, h, d, l, r, s
<1>7. CASE pc[l] = 2
  <2>1. ~LowHas(p) /\ ~HighHas(p) /\ pc[h] \in {2, 3} /\ status[h] # "waiting"
    BY <1>2, <1>3, <1>4, <1>7 DEF HighWorks, LowHas, HighHas, h, l, s
  <2>2. pc' = [pc EXCEPT ![l] = @ + 1] /\ UNCHANGED <<status, on, left, deleted>>
        /\ ResourceRight(p)'
    BY <1>3, <1>4, <1>7, <2>1, TakeFree DEF l, r
  <2>3. pc'[l] = 3 /\ \A t \in {h, d, m} : pc'[t] = pc[t]
    BY <1>1, <1>2, <1>7, <2>2
  <2>4. Spent(p)' = s
    BY <2>2, <2>3, SpentStays DEF m, s
  <2>5. ~HighHas(p)'
    BY <2>1, <2>3 DEF HighHas, h
  <2>6. HighWorks(p)' /\ LowWorks(p)'
    BY <1>3, <2>1, <2>2, <2>3, <2>4 DEF HighWorks, LowWorks, h, l, s
  <2>7. HighWork(p)' = HighWork(p) /\ LowWork(p)' = LowWork(p)
    BY <1>7, <2>2, <2>3 DEF HighWork, LowWork, WorkOf, h, l
  <2>8. Working(p)' /\ MediumWaits(p)'
    <3>1. \A t \in {h, l} : on[t] = IF status[t] = "waiting" THEN r ELSE None
      BY <1>1 DEF Working, r
    <3> QED
      BY <1>5, <1>6, <2>2, <2>3, <2>5, <2>6, <2>7, <3>1
  <2>9. HighWaits(p)'
    BY <1>3, <2>2, <2>3, <2>7 DEF HighWaits, h
  <2> QED
    BY <2>8, <2>9
<1>8. CASE pc[l] = 3
  <2>1. /\ pc' = [pc EXCEPT ![l] = @ + 1] /\ left' = [left EXCEPT ![l] = 3 * Unit]
        /\ UNCHANGED <<status, on, owner, semVal, deleted>>
    BY <1>4, <1>8 DEF Spin, Advance
  <2>2. /\ pc'[l] = 4 /\ left'[l] = 3 * Unit
        /\ \A t \in {h, d, m} : pc'[t] = pc[t] /\ left'[t] = left[t]
    BY <1>1, <1>2, <1>8, <2>1
  <2>3. Spent(p)' = s
    BY <2>2, SpentStays DEF m, s
  <2>4. LowHas(p) /\ LowHas(p)' /\ ~HighHas(p) /\ ~HighHas(p)' /\ ResourceRight(p)'
    <3>1. LowHas(p) /\ LowHas(p)' /\ HighHas(p)' = HighHas(p)
      BY <1>8, <2>2 DEF LowHas, HighHas, h, l
    <3> QED
      BY <1>3, <2>1, <3>1 DEF ResourceRight
  <2>5. HighWorks(p)' /\ LowWorks(p)'
    <3>1. HighWorks(p)'
      BY <1>3, <2>1, <2>2, <2>3, <2>4 DEF HighWorks, h, s
    <3>2. 3 * Unit \in 0 .. 3 * Unit
      BY <1>2
    <3>3. LowWorks(p)'
      BY <1>3, <2>1, <2>2, <3>2 DEF LowWorks, l
    <3> QED
      BY <3>1, <3>3
  <2>6. HighWork(p)' = HighWork(p) /\ LowWork(p)' = LowWork(p)
    BY <1>8, <2>2 DEF HighWork, LowWork, WorkOf, h, l
  <2>7. Working(p)' /\ MediumWaits(p)'
    <3>1. \A t \in {h, l} : on[t] = IF status[t] = "waiting" THEN r ELSE None
      BY <1>1 DEF Working, r
    <3> QED
      BY <1>5, <1>6, <2>1, <2>2, <2>4, <2>5, <2>6, <3>1
  <2>8. HighWaits(p)'
    BY <1>3, <2>1, <2>2, <2>6 DEF HighWaits, h
  <2> QED
    BY <2>7, <2>8
<1>9. CASE pc[l] = 4
  <2> DEFINE W == IF on[h] = None THEN {} ELSE {h}
  <2>1. LowHas(p) /\ ~HighHas(p)
    BY <1>3, <1>9 DEF LowHas, l
  <2>2. /\ on[d] = None /\ on[m] = None
        /\ on[h] = IF status[h] = "waiting" THEN r ELSE None
        /\ status[h] = "waiting" => pc[h] = 3
    <3>1. \A t \in {h, d, m} : on[t] = IF status[t] = "waiting" THEN r ELSE None
      BY <1>1 DEF Working, r
    <3>2. status[d] # "waiting"
      BY <1>3 DEF MediumWorks, d
    <3>3. status[m] # "waiting"
      BY DEF Working, m
    <3>4. status[h] = "waiting" => pc[h] = 3
      BY <1>3 DEF HighWorks, h
    <3> QED
      BY <3>1, <3>2, <3>3, <3>4
  <2>3. /\ pc' = [u \in Tasks |-> IF u \in W \cup {l} THEN pc[u] + 1 ELSE pc[u]]
        /\ status' = [u \in Tasks |-> IF u \in W THEN "ready" ELSE status[u]]
        /\ on' = [u \in Tasks |-> IF u \in W THEN None ELSE on[u]]
        /\ UNCHANGED <<left, deleted>>
        /\ ResourceRight(p)'
    <3>1. /\ l # h /\ Gives(p, l) /\ pc[l] = 4 /\ on[l] = None /\ r \notin deleted
          /\ on[h] # None => on[h] = r /\ pc[h] = 3
      BY <1>1, <1>3, <1>4, <1>9, <2>2
    <3>2. W = IF on[HighOf(p)] = None THEN {} ELSE {HighOf(p)}
      BY DEF h
    <3> HIDE DEF W
    <3>3. /\ on[MainOf(p)] = None /\ on[MediumOf(p)] = None
          /\ on[HighOf(p)] # None => on[HighOf(p)] = ResourceOf(p) /\ pc[HighOf(p)] = 3
          /\ l = LowOf(p) /\ l # HighOf(p) /\ r = ResourceOf(p)
      BY <2>2, <3>1 DEF m, h, d, l, r
    <3>4. CASE on[HighOf(p)] = None
      <4>1. {} = IF on[HighOf(p)] = None THEN {} ELSE {HighOf(p)}
        BY <3>4
      <4> QED
        BY <1>3, <3>1, <3>2, <3>3, <4>1, GiveBack, SMTT(30)
    <3>5. CASE on[HighOf(p)] # None
      <4>1. {HighOf(p)} = IF on[HighOf(p)] = None THEN {} ELSE {HighOf(p)}
        BY <3>5
      <4> QED
        BY <1>3, <3>1, <3>2, <3>3, <4>1, GiveBack, SMTT(30)
    <3> QED
      BY <3>4, <3>5
  <2>4. /\ pc'[l] = 5 /\ status'[l] = "ready" /\ left'[l] = 0 /\ on'[l] = None
        /\ \A t \in {m, d} : /\ pc'[t] = pc[t] /\ status'[t] = status[t]
                             /\ left'[t] = left[t] /\ on'[t] = on[t]
        /\ left'[h] = left[h] /\ on'[h] = None
        /\ IF status[h] = "waiting" THEN pc'[h] = 4 /\ status'[h] = "ready"
           ELSE pc'[h] = pc[h] /\ status'[h] = status[h]
    BY <1>1, <1>2, <1>3, <1>9, <2>2, <2>3
  <2>5. Spent(p)' = s
    BY <2>4, SpentStays DEF m, s
  <2>6. ~LowHas(p)'
    BY <2>4 DEF LowHas, l
  <2>7. HighWorks(p)'
    <3>1. CASE status[h] = "waiting"
      BY <1>3, <2>4, <2>5, <3>1 DEF HighWorks, h, s
    <3>2. CASE status[h] # "waiting"
      BY <1>3, <2>4, <2>5, <3>2 DEF HighWorks, h, s
    <3> QED
      BY <3>1, <3>2
  <2>8. LowWorks(p)'
    BY <2>4 DEF LowWorks, l
  <2>9. HighWork(p)' = HighWork(p) /\ LowWork(p)' = 0
    <3>1. HighWork(p)' = HighWork(p)
      BY <2>2, <2>4 DEF HighWork, WorkOf, h
    <3>2. LowWork(p)' = 0
      BY <2>4 DEF LowWork, WorkOf, l
    <3> QED
      BY <3>1, <3>2
  <2>10. Working(p)' /\ MediumWaits(p)'
    <3>1. status'[h] # "waiting" /\ (status[h] = "gone" => status'[h] = "gone")
      BY <2>4
    <3>2. 0 \in Int /\ 0 <= LowWork(p)
      BY <1>5
    <3> QED
      BY <1>3, <1>6, <2>3, <2>4, <2>6, <2>7, <2>8, <2>9, <3>1, <3>2
  <2>11. HighWaits(p)'
    <3> SUFFICES ASSUME p = "C" PROVE HighWaits(p)'
      BY DEF HighWaits
    <3>1. CASE status[h] = "waiting"
      <4>1. kept[h] + LowWork(p) <= 3 * Unit
        BY <2>2, <3>1 DEF HighWaits, h
      <4>2. kept[h] <= 3 * Unit
        BY <1>1, <1>2, <1>5, <4>1
      <4> QED
        BY <1>3, <2>4, <3>1, <4>2 DEF HighWaits, h
    <3>2. CASE status[h] # "waiting"
      BY <1>3, <2>4, <3>2 DEF HighWaits, h
    <3> QED
      BY <3>1, <3>2
  <2> QED
    BY <2>10, <2>11
<1>10. CASE pc[l] = 5
  <2>1. l \notin Mains
    BY <1>1, ProgramBC DEF m, l
  <2>2. /\ status' = [u \in Tasks |-> IF u = l THEN "gone" ELSE status[u]]
        /\ UNCHANGED <<pc, on, left, owner, semVal, deleted>>
    BY <1>2, <1>4, <1>10, <2>1 DEF Return
  <2>3. status'[l] = "gone" /\ \A t \in {h, d, m} : status'[t] = status[t]
    BY <1>1, <2>2
  <2>4. Spent(p)' = s
    BY <2>2, SpentStays DEF s
  <2>5. LowHas(p)' = LowHas(p) /\ HighHas(p)' = HighHas(p) /\ ResourceRight(p)'
    BY <1>3, <2>2, ResourceStays
  <2>6. HighWorks(p)' /\ LowWorks(p)'
    BY <1>3, <1>10, <2>2, <2>3, <2>4, <2>5 DEF HighWorks, LowWorks, h, l, s
  <2>7. HighWork(p)' = HighWork(p) /\ LowWork(p)' = LowWork(p)
    BY <2>2 DEF HighWork, LowWork, WorkOf
  <2>8. Working(p)' /\ MediumWaits(p)'
    <3>1. \A t \in {h, l} : on[t] = IF status[t] = "waiting" THEN r ELSE None
      BY <1>1 DEF Working, r
    <3> QED
      BY <1>3, <1>5, <1>6, <2>2, <2>3, <2>5, <2>6, <2>7, <3>1
  <2>9. HighWaits(p)'
    BY <1>3, <2>2, <2>3, <2>7 DEF HighWaits, h
  <2> QED
    BY <2>8, <2>9
<1> QED
  BY <1>4, <1>7, <1>8, <1>9, <1>10

(* HIGH or MEDIUM wakes; and when main does, no wake-up being 8 units      *)
(* late, the others have returned.                                         *)
LEMMA WorkingExpire ==
  ASSUME IInv, NEW p \in BC, Only(p), Working(p), HighWaits(p), MediumWaits(p),
         NEW t \in Tasks, Expire(t), Latency < 8 * Unit
  PROVE  \/ Working(p)' /\ HighWaits(p)' /\ MediumWaits(p)'
         \/ Finishing(p)' /\ Bounded(p)'
<1> DEFINE m == MainOf(p)
<1> DEFINE h == HighOf(p)
<1> DEFINE d == MediumOf(p)
<1> DEFINE l == LowOf(p)
<1> DEFINE s == Spent(p)
<1>1. /\ WorkersOf(p) = {h, d, l} /\ TasksOf(p) = {h, d, l, m}
      /\ m # h /\ m # d /\ m # l /\ h # d /\ h # l /\ d # l
      /\ m \in Tasks /\ h \in Tasks /\ d \in Tasks /\ l \in Tasks
  BY TheFour
<1>2. /\ status \in [Tasks -> Status] /\ left \in [Tasks -> Int] /\ kept \in [Tasks -> Nat]
      /\ Unit \in Nat /\ Unit > 0 /\ Latency \in Nat
      /\ HighWork(p) \in 0 .. 2 * Unit /\ MediumWork(p) \in 0 .. 5 * Unit
      /\ LowWork(p) \in 0 .. 3 * Unit /\ s \in Nat
  BY TypesBC, WorkTypes
<1>3. /\ status[t] = "asleep" /\ left[t] <= 0
      /\ status' = [status EXCEPT ![t] = "ready"] /\ left' = [left EXCEPT ![t] = 0]
      /\ UNCHANGED <<pc, on, semVal, owner, deleted, kept>>
  BY DEF Expire
<1>4. HighWorks(p) /\ MediumWorks(p) /\ LowWorks(p)
  BY DEF Working
<1>5. t \in {h, d, m}
  <2>1. t \in {h, d, l, m}
    BY <1>1, <1>3 DEF Only
  <2>2. status[l] # "asleep"
    BY <1>4 DEF LowWorks
  <2> QED
    BY <1>3, <2>1, <2>2
<1>6. LowHas(p)' = LowHas(p) /\ HighHas(p)' = HighHas(p) /\ ResourceRight(p)'
  BY <1>3, ResourceStays DEF Working
<1>7. ASSUME t \in {h, d}, HighWorks(p)', MediumWorks(p)',
             HighWork(p)' = HighWork(p), MediumWork(p)' = MediumWork(p)
      PROVE  Working(p)' /\ LowWork(p)' = LowWork(p)
  <2>1. /\ status'[m] = status[m] /\ left'[m] = left[m]
        /\ status'[l] = status[l] /\ left'[l] = left[l]
    BY <1>1, <1>2, <1>3, <1>7
  <2>2. LowWork(p)' = LowWork(p) /\ Spent(p)' = Spent(p)
    BY <1>3, <2>1 DEF LowWork, WorkOf, Spent
  <2>3. LowWorks(p)'
    BY <1>3, <1>4, <2>1, <2>2 DEF LowWorks
  <2>4. InTimeOf(p)'
    <3>1. \A u \in WorkersOf(p) : status[u] = "gone" => status'[u] = "gone"
      BY <1>1, <1>2, <1>3
    <3> QED
      BY <1>2, <1>7, <2>2, <3>1, InTimeKeeps
  <2>5. \A u \in TasksOf(p) :
          on'[u] = IF status'[u] = "waiting" THEN ResourceOf(p) ELSE None
    BY <1>1, <1>2, <1>3 DEF Working
  <2>6. /\ \/ pc'[m] = 6 /\ status'[m] = "ready" /\ left'[m] = 0
           \/ pc'[m] = 7 /\ status'[m] = "asleep" /\ left'[m] <= 20 * Unit
        /\ ResourceOf(p) \notin deleted' /\ ~(LowHas(p)' /\ HighHas(p)')
    BY <1>3, <1>6, <2>1 DEF Working
  <2> QED
    BY <1>6, <1>7, <2>2, <2>3, <2>4, <2>5, <2>6 DEF Working
<1> HIDE DEF m, h, d, l, s
<1>8. CASE t = h
  <2>1. pc[h] = 3 /\ left[h] = 2 * Unit - s
    BY <1>3, <1>4, <1>8 DEF HighWorks, h, s
  <2>2. /\ status'[h] = "ready" /\ left'[h] = 0
        /\ status'[m] = status[m] /\ left'[m] = left[m]
        /\ status'[d] = status[d] /\ left'[d] = left[d]
    BY <1>1, <1>2, <1>3, <1>8
  <2>3. s >= 2 * Unit /\ Spent(p)' = s
    BY <1>2, <1>3, <1>8, <2>1, <2>2, SpentStays DEF m, s
  <2>4. HighWorks(p)' /\ MediumWorks(p)'
    BY <1>3, <1>4, <2>1, <2>2, <2>3 DEF HighWorks, MediumWorks, h, d, s
  <2>5. HighWork(p)' = HighWork(p) /\ MediumWork(p)' = MediumWork(p)
    BY <1>3, <2>1, <2>2 DEF HighWork, MediumWork, WorkOf, h, d
  <2>6. Working(p)' /\ LowWork(p)' = LowWork(p)
    BY <1>7, <1>8, <2>4, <2>5
  <2>7. HighWaits(p)'
    <3>1. p = "C" => kept[h] = 0
      <4>1. left[h] # 2 * Unit
        BY <1>2, <1>3, <1>8
      <4> QED
        BY <1>3, <1>8, <2>1, <4>1 DEF HighWaits, h
    <3> QED
      BY <1>3, <2>1, <2>2, <3>1 DEF HighWaits, h
  <2>8. MediumWaits(p)'
    BY <1>3, <2>2, <2>5, <2>6 DEF MediumWaits, d
  <2> QED
    BY <2>6, <2>7, <2>8
<1>9. CASE t = d
  <2>1. pc[d] = 3 /\ left[d] = Unit - s
    BY <1>3, <1>4, <1>9 DEF MediumWorks, d, s
  <2>2. /\ status'[d] = "ready" /\ left'[d] = 0
        /\ status'[m] = status[m] /\ left'[m] = left[m]
        /\ status'[h] = status[h] /\ left'[h] = left[h]
    BY <1>1, <1>2, <1>3, <1>9
  <2>3. s >= Unit /\ Spent(p)' = s
    BY <1>2, <1>3, <1>9, <2>1, <2>2, SpentStays DEF m, s
  <2>4. HighWorks(p)' /\ MediumWorks(p)'
    BY <1>3, <1>4, <1>6, <2>1, <2>2, <2>3 DEF HighWorks, MediumWorks, h, d, s
  <2>5. HighWork(p)' = HighWork(p) /\ MediumWork(p)' = MediumWork(p)
    BY <1>3, <2>1, <2>2 DEF HighWork, MediumWork, WorkOf, h, d
  <2>6. Working(p)' /\ LowWork(p)' = LowWork(p)
    BY <1>7, <1>9, <2>4, <2>5
  <2>7. HighWaits(p)'
    BY <1>3, <2>2, <2>6 DEF HighWaits, h
  <2>8. MediumWaits(p)'
    <3>1. kept[d] = 0
      <4>1. left[d] # Unit
        BY <1>2, <1>3, <1>9
      <4> QED
        BY <1>3, <1>9, <2>1, <4>1 DEF MediumWaits, d
    <3>2. kept'[d] + HighWork(p)' + LowWork(p)' <= 5 * Unit
      BY <1>2, <1>3, <2>5, <2>6, <3>1
    <3> QED
      BY <1>3, <2>1, <2>2, <3>2 DEF MediumWaits, d
  <2> QED
    BY <2>6, <2>7, <2>8
<1>10. CASE t = m
  <2>1. pc[m] = 7 /\ s = 20 * Unit - left[m]
    BY <1>3, <1>10 DEF Working, Spent, m, s
  <2>2. s >= 20 * Unit
    BY <1>1, <1>2, <1>3, <1>10, <2>1
  <2>3. \A u \in WorkersOf(p) : status[u] = "gone"
    <3> SUFFICES ASSUME \E u \in WorkersOf(p) : status[u] # "gone" PROVE FALSE
      OBVIOUS
    <3> DEFINE A == HighWork(p)
    <3> DEFINE B == MediumWork(p)
    <3> DEFINE C == LowWork(p)
    <3>1. s <= 2 * Unit + Latency \/ A + B + C + s <= 12 * Unit + Latency
      BY DEF Working, InTimeOf, s
    <3>2. A \in Nat /\ B \in Nat /\ C \in Nat
      BY <1>2
    <3> HIDE DEF A, B, C
    <3>3. s <= 12 * Unit + Latency
      BY <1>2, <3>1, <3>2
    <3> QED
      BY <1>2, <2>2, <3>3
  <2>4. Finishing(p)'
    <3>1. pc'[m] = 7 /\ status'[m] = "ready"
      BY <1>1, <1>2, <1>3, <1>10, <2>1
    <3>2. \A u \in WorkersOf(p) : status'[u] = "gone"
      BY <1>1, <1>2, <1>3, <1>10, <2>3
    <3>3. 7 \in 7 .. 12
      OBVIOUS
    <3> QED
      BY <3>1, <3>2, <3>3 DEF Finishing, m
  <2>5. Bounded(p)'
    <3>1. status[h] = "gone" /\ status[d] = "gone"
      BY <1>1, <2>3
    <3>2. p = "C" => kept[h] <= 3 * Unit
      <4>1. pc[h] > 3
        BY <1>4, <3>1 DEF HighWorks, h
      <4> QED
        BY <3>1, <4>1 DEF HighWaits, h
    <3>3. kept[d] + HighWork(p) + LowWork(p) <= 5 * Unit
      <4>1. pc[d] = 4
        BY <1>4, <3>1 DEF MediumWorks, d
      <4> QED
        BY <3>1, <4>1 DEF MediumWaits, d
    <3>4. kept[d] <= 5 * Unit
      BY <1>1, <1>2, <3>3
    <3> QED
      BY <1>3, <3>2, <3>4 DEF Bounded, h, d
  <2> QED
    BY <2>4, <2>5
<1> QED
  BY <1>5, <1>8, <1>9, <1>10

-----------------------------------------------------------------------------
(* main deletes what nobody uses any more, and returns.                    *)
LEMMA FinishingStep ==
  ASSUME IInv, NEW p \in BC, Only(p), Finishing(p), Bounded(p), NEW t \in Tasks, Step(t)
  PROVE  \/ Finishing(p)' /\ Bounded(p)'
         \/ Elsewhere(p)' /\ Bounded(p)'
<1> DEFINE m == MainOf(p)
<1> DEFINE h == HighOf(p)
<1> DEFINE d == MediumOf(p)
<1> DEFINE l == LowOf(p)
<1>1. /\ WorkersOf(p) = {h, d, l} /\ TasksOf(p) = {h, d, l, m}
      /\ m # h /\ m # d /\ m # l /\ h # d /\ h # l /\ d # l
      /\ m \in Tasks /\ h \in Tasks /\ d \in Tasks /\ l \in Tasks
  BY TheFour
<1>2. pc \in [Tasks -> Nat] /\ status \in [Tasks -> Status]
  BY TypesBC
<1>3. /\ status[m] = "ready" /\ status[h] = "gone" /\ status[d] = "gone" /\ status[l] = "gone"
      /\ pc[m] \in 7 .. 12
  BY <1>1 DEF Finishing
<1>4. t = m /\ kept' = kept
  <2>1. t \in {h, d, l, m} /\ status[t] = "ready" /\ kept' = kept
    BY <1>1, OnlyKeeps, StepperRuns
  <2> QED
    BY <1>3, <2>1
<1>5. \/ pc[m] = 7 /\ SemDelete(m)
      \/ pc[m] = 8 /\ Drops(p, m)
      \/ pc[m] \in {9, 10, 11} /\ TaskDelete(m) /\ Obj(m) \in WorkersOf(p)
      \/ pc[m] = 12 /\ Return(m)
  BY <1>3, <1>4, MainCall
<1>6. Bounded(p)'
  BY <1>4 DEF Bounded
<1>7. ASSUME pc'[m] = pc[m] + 1, pc[m] # 12,
             \A u \in {h, d, l, m} : status'[u] = status[u]
      PROVE  Finishing(p)'
  <2>1. pc'[m] \in 7 .. 12
    BY <1>3, <1>7
  <2> QED
    BY <1>1, <1>3, <1>7, <2>1 DEF Finishing
<1> HIDE DEF m, h, d, l
<1>8. ASSUME NEW op, NEW S \in SUBSET Objects, Delete(m, op, S), pc[m] # 12
      PROVE  Finishing(p)'
  <2> DEFINE o == Obj(m)
  <2>1. o \in Objects /\ Pass(m, Waiters(o), o)
    BY <1>8 DEF Delete
  <2>2. \A u \in {h, d, l, m} : u \notin Waiters(o)
    <3>1. o # None
      BY <2>1, TypesBC
    <3> QED
      BY <1>1, <1>3, <3>1 DEF IInv, Waiting, Waiters
  <2>3. pc'[m] = pc[m] + 1 /\ \A u \in {h, d, l, m} : status'[u] = status[u]
    BY <1>1, <2>1, <2>2 DEF Pass
  <2> QED
    BY <1>7, <1>8, <2>3
<1>9. CASE pc[m] = 7 /\ SemDelete(m)
  BY <1>6, <1>8, <1>9 DEF SemDelete, Objects
<1>10. CASE pc[m] = 8 /\ Drops(p, m)
  BY <1>6, <1>8, <1>10 DEF Drops, SemDelete, MutexDelete, Objects, BC
<1>11. CASE pc[m] \in {9, 10, 11} /\ TaskDelete(m) /\ Obj(m) \in WorkersOf(p)
  <2>1. /\ status' = [status EXCEPT ![Obj(m)] = "gone"] /\ pc' = [pc EXCEPT ![m] = @ + 1]
        /\ Obj(m) \in {h, d, l}
    BY <1>1, <1>11 DEF TaskDelete, Advance
  <2>2. pc'[m] = pc[m] + 1 /\ \A u \in {h, d, l, m} : status'[u] = status[u]
    BY <1>1, <1>2, <1>3, <2>1
  <2> QED
    BY <1>6, <1>7, <1>11, <2>2
<1>12. CASE pc[m] = 12 /\ Return(m)
  <2>1. m \in Mains
    BY ProgramBC DEF m
  <2>2. \A u \in Tasks : status'[u] = "gone"
    BY <1>12, <2>1 DEF Return
  <2>3. Elsewhere(p)'
    BY <1>1, <2>2 DEF Elsewhere
  <2> QED
    BY <1>6, <2>3
<1> QED
  BY <1>5, <1>6, <1>9, <1>10, <1>11, <1>12

(* Time may pass meanwhile: nobody is kept from running by it.             *)
LEMMA FinishingTime ==
  ASSUME IInv, NEW p \in BC, Only(p), Finishing(p), Bounded(p),
         Tick \/ \E t \in Tasks : Expire(t)
  PROVE  Finishing(p)' /\ Bounded(p)'
<1>1. /\ WorkersOf(p) = {HighOf(p), MediumOf(p), LowOf(p)}
      /\ TasksOf(p) = {HighOf(p), MediumOf(p), LowOf(p), MainOf(p)}
      /\ HighOf(p) \in Tasks /\ MediumOf(p) \in Tasks
  BY TheFour
<1>2. CASE Tick
  <2>1. pc' = pc /\ status' = status
    BY <1>2 DEF Tick
  <2>2. kept'[HighOf(p)] = 0 /\ kept'[MediumOf(p)] = 0
    BY <1>1, <1>2 DEF Tick, Finishing
  <2>3. 0 <= 3 * Unit /\ 0 <= 5 * Unit
    BY TypesBC
  <2> QED
    BY <2>1, <2>2, <2>3 DEF Finishing, Bounded
<1>3. ASSUME NEW t \in Tasks, Expire(t) PROVE FALSE
  <2>1. status[t] = "asleep"
    BY <1>3 DEF Expire
  <2>2. t \in TasksOf(p)
    BY <2>1 DEF Only
  <2> QED
    BY <1>1, <2>1, <2>2 DEF Finishing
<1> QED
  BY <1>2, <1>3

(* A step of the program takes it through its phases.                      *)
LEMMA PhasesKeep ==
  ASSUME IInv, NEW p \in BC, Only(p), Phases(p), Latency < 8 * Unit, Next
  PROVE  \/ Elsewhere(p)' /\ Bounded(p)'
         \/ Only(p)' /\ Phases(p)'
<1>1. ASSUME NEW t \in Tasks, Step(t)
      PROVE  (Elsewhere(p)' /\ Bounded(p)') \/ Phases(p)'
  <2>1. t \in WorkersOf(p) \/ t = MainOf(p)
    BY <1>1, OnlyKeeps DEF TasksOf
  <2>2. CASE Gathering(p) /\ GatherWaits(p)
    BY <1>1, <2>1, <2>2, GatheringMain, GatheringWorker DEF Phases
  <2>3. CASE Working(p) /\ HighWaits(p) /\ MediumWaits(p)
    <3>1. t \in {HighOf(p), MediumOf(p), LowOf(p), MainOf(p)}
      BY <2>1 DEF WorkersOf
    <3>2. Working(p)' /\ HighWaits(p)' /\ MediumWaits(p)'
      BY <1>1, <2>3, <3>1, WorkingMain, WorkingHigh, WorkingMedium, WorkingLow
    <3> QED
      BY <3>2 DEF Phases
  <2>4. CASE Finishing(p) /\ Bounded(p)
    BY <1>1, <2>4, FinishingStep DEF Phases
  <2> QED
    BY <2>2, <2>3, <2>4 DEF Phases
<1>2. ASSUME NEW t \in Tasks, Expire(t) PROVE Only(p)' /\ Phases(p)'
  <2>1. Only(p)'
    <3>1. status' = [status EXCEPT ![t] = "ready"] /\ bprio' = bprio /\ status[t] = "asleep"
      BY <1>2 DEF Expire
    <3>2. t \in TasksOf(p) /\ status \in [Tasks -> Status]
      BY <3>1, TypesBC DEF Only
    <3> QED
      BY <3>1, <3>2 DEF Only
  <2>2. CASE Gathering(p) /\ GatherWaits(p)
    BY <1>2, <2>1, <2>2, GatheringExpire DEF Phases
  <2>3. CASE Working(p) /\ HighWaits(p) /\ MediumWaits(p)
    BY <1>2, <2>1, <2>3, WorkingExpire DEF Phases
  <2>4. CASE Finishing(p) /\ Bounded(p)
    BY <1>2, <2>1, <2>4, FinishingTime DEF Phases
  <2> QED
    BY <2>2, <2>3, <2>4 DEF Phases
<1>3. CASE Tick
  <2>1. Only(p)'
    BY <1>3 DEF Tick, Only
  <2>2. CASE Gathering(p) /\ GatherWaits(p)
    BY <1>3, <2>1, <2>2, GatheringTick DEF Phases
  <2>3. CASE Working(p) /\ HighWaits(p) /\ MediumWaits(p)
    BY <1>3, <2>1, <2>3, WorkingTick DEF Phases
  <2>4. CASE Finishing(p) /\ Bounded(p)
    BY <1>3, <2>1, <2>4, FinishingTime DEF Phases
  <2> QED
    BY <2>2, <2>3, <2>4 DEF Phases
<1>4. (\E t \in Tasks : Step(t)) => Only(p)'
  BY OnlyKeeps
<1> QED
  BY <1>1, <1>2, <1>3, <1>4 DEF Next

(* Every step keeps the invariant of B and C.                              *)
LEMMA InvarianceBC ==
  ASSUME NEW p \in BC, Latency < 8 * Unit
  PROVE  IInv /\ IInvBC(p) /\ [Next]_vars => IInvBC(p)'
<1> SUFFICES ASSUME IInv, IInvBC(p), [Next]_vars PROVE IInvBC(p)'
  OBVIOUS
<1>1. CASE Next
  BY <1>1, PhasesKeep, ElsewhereKeeps DEF IInvBC
<1>2. CASE UNCHANGED vars
  <2>1. UNCHANGED <<pc, status, on, left, bprio, semVal, owner, deleted, kept>>
    BY <1>2 DEF vars
  <2>2. Elsewhere(p)' = Elsewhere(p) /\ Bounded(p)' = Bounded(p) /\ Only(p)' = Only(p)
    BY <2>1 DEF Elsewhere, Bounded, Only
  <2>3. /\ Spent(p)' = Spent(p) /\ LowHas(p)' = LowHas(p) /\ HighHas(p)' = HighHas(p)
        /\ ResourceRight(p)' = ResourceRight(p)
        /\ HighWork(p)' = HighWork(p) /\ MediumWork(p)' = MediumWork(p)
        /\ LowWork(p)' = LowWork(p)
    BY <2>1 DEF Spent, LowHas, HighHas, ResourceRight, HighWork, MediumWork, LowWork, WorkOf
  <2>4. Gathering(p)' = Gathering(p) /\ GatherWaits(p)' = GatherWaits(p)
    BY <2>1, <2>3 DEF Gathering, GatherWaits
  <2>5. /\ HighWorks(p)' = HighWorks(p) /\ MediumWorks(p)' = MediumWorks(p)
        /\ LowWorks(p)' = LowWorks(p) /\ InTimeOf(p)' = InTimeOf(p)
    BY <2>1, <2>3 DEF HighWorks, MediumWorks, LowWorks, InTimeOf
  <2>6. Working(p)' = Working(p)
    BY <2>1, <2>3, <2>5 DEF Working
  <2>7. HighWaits(p)' = HighWaits(p) /\ MediumWaits(p)' = MediumWaits(p)
    BY <2>1, <2>3 DEF HighWaits, MediumWaits
  <2>8. Finishing(p)' = Finishing(p)
    BY <2>1 DEF Finishing
  <2> QED
    BY <2>2, <2>4, <2>6, <2>7, <2>8 DEF IInvBC, Phases
<1> QED
  BY <1>1, <1>2

(* It holds when main starts, of either program or of another.             *)
LEMMA InitBC ==
  ASSUME NEW p \in BC, Init
  PROVE  IInvBC(p)
<1> DEFINE m == MainOf(p)
<1> DEFINE h == HighOf(p)
<1> DEFINE d == MediumOf(p)
<1> DEFINE l == LowOf(p)
<1>1. IInv
  BY InitIInv
<1>2. /\ WorkersOf(p) = {h, d, l} /\ TasksOf(p) = {h, d, l, m}
      /\ m # h /\ m # d /\ m # l /\ h # d /\ h # l /\ d # l
      /\ m \in Tasks /\ h \in Tasks /\ d \in Tasks /\ l \in Tasks
  BY <1>1, TheFour
<1>3. Unit \in Nat /\ Latency \in Nat
  BY KernelAssumption
<1>4. /\ \A t \in Tasks : /\ pc[t] = 1 /\ on[t] = None /\ left[t] = 0 /\ kept[t] = 0
                          /\ bprio[t] = Priority[t]
                          /\ status[t] = IF t = cpu THEN "ready" ELSE "dormant"
      /\ semVal = SemInit /\ deleted = {} /\ \A x \in Mutexes : owner[x] = None
      /\ cpu \in Mains
  BY DEF Init
<1> HIDE DEF m, h, d, l
<1>5. CASE cpu = m
  <2>1. Only(p)
    BY <1>2, <1>4, <1>5 DEF Only
  <2>2. ~LowHas(p) /\ ~HighHas(p)
    BY <1>2, <1>4 DEF LowHas, HighHas, h, l
  <2>3. ResourceRight(p)
    <3>1. CASE p = "B"
      <4>1. ResourceOf(p) = "resourceB" /\ SemInit[ResourceOf(p)] = 1
        BY <3>1, ProgramBC DEF ResourceOf
      <4> QED
        BY <1>4, <2>2, <3>1, <4>1 DEF ResourceRight
    <3>2. CASE p = "C"
      <4>1. ResourceOf(p) = "resourceC" /\ ResourceOf(p) \in Mutexes
        BY <3>2, ProgramBC DEF ResourceOf
      <4> QED
        BY <1>4, <2>2, <3>2, <4>1 DEF ResourceRight
    <3> QED
      BY <3>1, <3>2 DEF BC
  <2>4. semVal[BarrierOf(p)] = 0
    BY <1>4, ProgramBC
  <2>5. Gathering(p)
    BY <1>2, <1>4, <1>5, <2>3, <2>4 DEF Gathering, m, h, d, l
  <2>6. GatherWaits(p)
    <3>1. pc[m] = 1 /\ kept[h] = 0 /\ kept[d] = 0
      BY <1>2, <1>4
    <3> QED
      BY <3>1 DEF GatherWaits, m, h, d
  <2> QED
    BY <2>1, <2>5, <2>6 DEF IInvBC, Phases
<1>6. CASE cpu # m
  <2>1. cpu \notin TasksOf(p)
    BY <1>4, <1>6, ProgramBC DEF m
  <2>2. Elsewhere(p)
    BY <1>2, <1>4, <2>1 DEF Elsewhere
  <2>3. Bounded(p)
    BY <1>2, <1>3, <1>4 DEF Bounded, h, d
  <2> QED
    BY <2>2, <2>3 DEF IInvBC
<1> QED
  BY <1>5, <1>6

-----------------------------------------------------------------------------
(* How far the tasks are tells whether the barrier is open, and which of   *)
(* HIGH and LOW is at the resource.                                        *)
Together(p) == \A t \in WorkersOf(p) : pc[t] > 1 <=> pc[MainOf(p)] > 5

AtResource(p) ==
  /\ ResourceOf(p) \in inside[LowOf(p)] => LowHas(p)
  /\ ResourceOf(p) \in inside[HighOf(p)] => HighHas(p)
  /\ ~(LowHas(p) /\ HighHas(p))

(* Both stand while the three are where they are, and main goes on.        *)
LEMMA CourseStands ==
  ASSUME IInv, NEW p \in BC, Together(p), AtResource(p),
         \A t \in WorkersOf(p) : pc'[t] = pc[t] /\ inside'[t] = inside[t],
         LET m == MainOf(p) IN pc'[m] = pc[m] \/ (pc[m] > 5 /\ pc'[m] > 5)
  PROVE  Together(p)' /\ AtResource(p)'
<1>1. LowHas(p)' = LowHas(p) /\ HighHas(p)' = HighHas(p)
  BY DEF LowHas, HighHas, WorkersOf
<1>2. AtResource(p)'
  BY <1>1 DEF AtResource, WorkersOf
<1>3. Together(p)'
  BY DEF Together
<1> QED
  BY <1>2, <1>3

(* Before main's broadcast, and from there until it wakes, each of the     *)
(* three is where its phase has it.                                        *)
LEMMA CourseInPhase ==
  ASSUME NEW p \in BC, Gathering(p)' \/ Working(p)'
  PROVE  Together(p)' /\ ~(LowHas(p)' /\ HighHas(p)')
<1> DEFINE m == MainOf(p)
<1>1. CASE Gathering(p)'
  <2>1. pc'[m] \in 1 .. 5 /\ \A t \in WorkersOf(p) : pc'[t] = 1
    BY <1>1 DEF Gathering
  <2>2. ~(pc'[m] > 5) /\ \A t \in WorkersOf(p) : ~(pc'[t] > 1)
    BY <2>1
  <2>3. ~LowHas(p)'
    BY <2>1 DEF LowHas, WorkersOf
  <2> QED
    BY <2>2, <2>3 DEF Together
<1>2. CASE Working(p)'
  <2>1. pc'[m] > 5
    BY <1>2 DEF Working
  <2>2. pc'[HighOf(p)] > 1
    BY <1>2 DEF Working, HighWorks
  <2>3. pc'[MediumOf(p)] > 1
    BY <1>2 DEF Working, MediumWorks
  <2>4. pc'[LowOf(p)] > 1
    BY <1>2 DEF Working, LowWorks
  <2>5. Together(p)'
    BY <2>1, <2>2, <2>3, <2>4 DEF Together, WorkersOf
  <2> QED
    BY <1>2, <2>5 DEF Working
<1> QED
  BY <1>1, <1>2

(* While another program runs the four stay where they are.                *)
LEMMA CourseElsewhere ==
  ASSUME IInv, NEW p \in BC, Elsewhere(p), Together(p), AtResource(p), NEW t \in Tasks, Step(t)
  PROVE  Together(p)' /\ AtResource(p)'
<1>1. ASSUME NEW u \in TasksOf(p) PROVE pc'[u] = pc[u] /\ inside'[u] = inside[u]
  <2>1. u \in Tasks /\ u # t /\ status[u] # "waiting"
    BY ProgramBC, StepperRuns DEF Elsewhere
  <2>2. on[u] = None /\ None \notin Objects
    BY <2>1, KernelAssumption DEF IInv, Waiting
  <2> QED
    BY <2>1, <2>2, StepMoves DEF Moves
<1> QED
  BY <1>1, CourseStands DEF TasksOf

(* Before the broadcast nobody comes to the resource.                      *)
LEMMA CourseGathering ==
  ASSUME IInv, NEW p \in BC, Only(p), Gathering(p), GatherWaits(p), AtResource(p),
         NEW t \in TasksOf(p), Step(t)
  PROVE  Together(p)' /\ AtResource(p)'
<1> DEFINE h == HighOf(p)
<1> DEFINE l == LowOf(p)
<1> DEFINE r == ResourceOf(p)
<1>1. Gathering(p)' \/ Working(p)'
  BY GatheringMain, GatheringWorker DEF TasksOf
<1>2. t \in Tasks /\ h \in Tasks /\ l \in Tasks
  BY TypesBC, ProgramBC
<1>3. Moves(t) => Obj(t) # r
  <2> SUFFICES ASSUME Moves(t) PROVE Obj(t) # r
    OBVIOUS
  <2>1. CASE t \in WorkersOf(p)
    <3>1. pc[t] = 1
      BY <2>1 DEF Gathering
    <3>2. Obj(t) = BarrierOf(p)
      BY <2>1, <3>1, HighCall, MediumCall, LowCall DEF WorkersOf
    <3> QED
      BY <3>2, ProgramBC
  <2>2. CASE t = MainOf(p)
    <3>1. pc[t] \in 1 .. 5
      BY <2>2 DEF Gathering
    <3>2. Obj(t) \in {h, MediumOf(p), l, BarrierOf(p), None}
      <4>1. Sleep(t) /\ pc[t] = 4 => Obj(t) = None
        BY <2>2, CallsBC DEF Obj, rt_task_sleep, Call
      <4> QED
        BY <2>2, <3>1, <4>1, MainCall
    <3>3. r # BarrierOf(p) /\ r # None /\ r \in Objects
      BY TypesBC, ProgramBC
    <3>4. r \notin {h, MediumOf(p), l}
      BY DEF ResourceOf, HighOf, MediumOf, LowOf
    <3> QED
      BY <3>2, <3>3, <3>4
  <2> QED
    BY <2>1, <2>2 DEF TasksOf
<1>4. r \notin inside[h] /\ r \notin inside[l]
  <2>1. pc[h] = 1 /\ pc[l] = 1
    BY DEF Gathering, WorkersOf
  <2> QED
    BY <2>1 DEF AtResource, LowHas, HighHas
<1>5. ASSUME NEW u \in {h, l} PROVE r \notin inside'[u]
  <2>1. CASE UNCHANGED <<pc, inside, deleted>>
    BY <1>4, <2>1
  <2>2. CASE Moves(t)
    <3> HIDE DEF h, l, r
    <3> QED
      BY <1>2, <1>3, <1>4, <2>2 DEF Moves
  <2> QED
    BY <1>2, <2>1, <2>2, StepMoves
<1> QED
  BY <1>1, <1>5, CourseInPhase DEF AtResource

(* A task that shares the resource, by its k-th call, is inside while it   *)
(* spins and until it has given it back.                                   *)
LEMMA UserKeeps ==
  ASSUME IInv, NEW p \in BC, NEW t \in Tasks, Step(t), NEW u, NEW k,
         (u = LowOf(p) /\ k = 2) \/ (u = HighOf(p) /\ k = 3),
         pc[u] > 1, on[u] # None => pc[u] = k,
         ResourceOf(p) \in inside[u] => pc[u] \in {k + 1, k + 2}
  PROVE  ResourceOf(p) \in inside'[u] => pc'[u] \in {k + 1, k + 2}
<1> DEFINE r == ResourceOf(p)
<1> SUFFICES ASSUME r \in inside'[u] PROVE pc'[u] \in {k + 1, k + 2}
  OBVIOUS
<1>1. u \in Tasks /\ pc \in [Tasks -> Nat] /\ k \in Nat /\ None \notin Objects
  BY TypesBC
<1>2. CASE UNCHANGED <<pc, inside, deleted>>
  BY <1>2
<1>3. CASE Moves(t) /\ t # u
  <2>1. \/ pc'[u] = pc[u] /\ inside'[u] = inside[u]
        \/ on[u] # None /\ pc'[u] = pc[u] + 1
    BY <1>1, <1>3 DEF Moves
  <2> QED
    BY <2>1
<1>4. CASE Moves(t) /\ t = u
  <2>1. \/ pc[u] = k /\ Takes(p, u)
        \/ pc[u] = k + 1 /\ Spin(u)
        \/ pc[u] = k + 2 /\ Gives(p, u)
        \/ pc[u] \notin {k + 1, k + 2} /\ (Sleep(u) \/ Return(u))
    <3>1. CASE u = LowOf(p) /\ k = 2
      BY <1>4, <3>1, LowCall
    <3>2. CASE u = HighOf(p) /\ k = 3
      BY <1>4, <3>2, HighCall
    <3> QED
      BY <3>1, <3>2
  <2>2. CASE pc[u] = k
    <3>1. r \notin inside[u]
      BY <1>1, <2>2
    <3>2. pc'[u] = pc[u] + 1
      BY <1>4, <3>1 DEF Moves
    <3> QED
      BY <2>2, <3>2
  <2>3. CASE pc[u] = k + 1 /\ Spin(u)
    <3>1. pc'[u] = pc[u] + 1
      BY <1>1, <2>3 DEF Spin, Advance
    <3> QED
      BY <1>1, <2>3, <3>1
  <2>4. CASE pc[u] = k + 2 /\ Gives(p, u)
    <3>1. Obj(u) = r /\ (SemV(u) \/ MutexRelease(u))
      BY <2>4 DEF Gives, BC
    <3> QED
      BY <1>4, <3>1 DEF Moves
  <2>5. CASE pc[u] \notin {k + 1, k + 2} /\ (Sleep(u) \/ Return(u))
    BY <2>5 DEF Sleep, Return
  <2> QED
    BY <2>1, <2>2, <2>3, <2>4, <2>5
<1> QED
  BY <1>2, <1>3, <1>4, StepMoves

(* Then LOW and HIGH take the resource and give it back in turn.           *)
LEMMA CourseWorking ==
  ASSUME IInv, NEW p \in BC, Only(p), Working(p), HighWaits(p), MediumWaits(p), AtResource(p),
         NEW t \in TasksOf(p), Step(t)
  PROVE  Together(p)' /\ AtResource(p)'
<1> DEFINE h == HighOf(p)
<1> DEFINE l == LowOf(p)
<1> DEFINE r == ResourceOf(p)
<1>1. Working(p)'
  BY WorkingMain, WorkingHigh, WorkingMedium, WorkingLow DEF TasksOf, WorkersOf
<1>2. t \in Tasks
  BY ProgramBC
<1>3. /\ on[h] = IF status[h] = "waiting" THEN r ELSE None
      /\ on[l] = IF status[l] = "waiting" THEN r ELSE None
  BY DEF Working, TasksOf, WorkersOf
<1>4. pc[h] > 1 /\ (on[h] # None => pc[h] = 3)
  BY <1>3 DEF Working, HighWorks
<1>5. pc[l] > 1 /\ (on[l] # None => pc[l] = 2)
  BY <1>3 DEF Working, LowWorks
<1>6. /\ r \in inside[h] => pc[h] \in {3 + 1, 3 + 2}
      /\ r \in inside[l] => pc[l] \in {2 + 1, 2 + 2}
  BY DEF AtResource, HighHas, LowHas
<1>7. r \in inside'[h] => pc'[h] \in {3 + 1, 3 + 2}
  BY <1>2, <1>4, <1>6, UserKeeps
<1>8. r \in inside'[l] => pc'[l] \in {2 + 1, 2 + 2}
  BY <1>2, <1>5, <1>6, UserKeeps
<1> QED
  BY <1>1, <1>7, <1>8, CourseInPhase DEF AtResource, HighHas, LowHas

(* Every step keeps both.                                                  *)
LEMMA CourseKeeps ==
  ASSUME NEW p \in BC
  PROVE  IInv /\ IInvBC(p) /\ Together(p) /\ AtResource(p) /\ [Next]_vars
           => Together(p)' /\ AtResource(p)'
<1> SUFFICES ASSUME IInv, IInvBC(p), Together(p), AtResource(p), [Next]_vars
             PROVE  Together(p)' /\ AtResource(p)'
  OBVIOUS
<1>1. CASE UNCHANGED <<pc, inside>>
  BY <1>1, CourseStands
<1>2. ASSUME NEW t \in Tasks, Step(t) PROVE Together(p)' /\ AtResource(p)'
  <2>1. CASE Elsewhere(p)
    BY <1>2, <2>1, CourseElsewhere
  <2>2. CASE Only(p) /\ Gathering(p) /\ GatherWaits(p)
    BY <1>2, <2>2, OnlyKeeps, CourseGathering
  <2>3. CASE Only(p) /\ Working(p) /\ HighWaits(p) /\ MediumWaits(p)
    BY <1>2, <2>3, OnlyKeeps, CourseWorking
  <2>4. CASE Only(p) /\ Finishing(p)
    <3> DEFINE m == MainOf(p)
    <3>1. ASSUME NEW u \in WorkersOf(p) PROVE pc'[u] = pc[u] /\ inside'[u] = inside[u]
      <4>1. u \in Tasks /\ status[u] = "gone"
        BY <2>4, ProgramBC DEF TasksOf, Finishing
      <4>2. u # t /\ on[u] = None /\ None \notin Objects
        BY <1>2, <4>1, StepperRuns, KernelAssumption DEF IInv, Waiting
      <4> QED
        BY <1>2, <4>1, <4>2, StepMoves DEF Moves
    <3>2. pc[m] > 5 /\ pc'[m] > 5
      <4>1. pc[m] \in 7 .. 12 /\ m \in Tasks
        BY <2>4, TypesBC DEF Finishing
      <4>2. pc'[m] \in {pc[m], pc[m] + 1}
        BY <1>2, <4>1, StepMoves DEF Moves
      <4> QED
        BY <4>1, <4>2
    <3> QED
      BY <3>1, <3>2, CourseStands
  <2> QED
    BY <2>1, <2>2, <2>3, <2>4 DEF IInvBC, Phases
<1>3. ASSUME NEW t \in Tasks, Expire(t) PROVE Together(p)' /\ AtResource(p)'
  BY <1>1, <1>3 DEF Expire
<1>4. CASE Tick
  BY <1>1, <1>4 DEF Tick
<1> QED
  BY <1>1, <1>2, <1>3, <1>4 DEF Next, vars

(* They hold when main starts.                                             *)
LEMMA CourseStarts ==
  ASSUME NEW p \in BC, Init
  PROVE  Together(p) /\ AtResource(p)
<1>1. IInv
  BY InitIInv
<1>2. HighOf(p) \in Tasks /\ LowOf(p) \in Tasks /\ TasksOf(p) \subseteq Tasks
  BY <1>1, TypesBC, ProgramBC
<1>3. \A t \in Tasks : pc[t] = 1 /\ inside[t] = {}
  BY DEF Init
<1>4. Together(p)
  <2>1. pc[MainOf(p)] = 1 /\ \A t \in WorkersOf(p) : pc[t] = 1
    BY <1>2, <1>3 DEF TasksOf
  <2> QED
    BY <2>1 DEF Together
<1>5. AtResource(p)
  BY <1>2, <1>3 DEF AtResource, LowHas
<1> QED
  BY <1>4, <1>5

(* main's sleep of 20 units outlasts the others, 10 units of spinning and  *)
(* 2 of sleep, as long as no wake-up is 8 units late: rt_sem_delete and    *)
(* rt_mutex_delete come when no task will call the resource again.         *)
THEOREM DeletedWhenGone ==
  ASSUME Latency < 8 * Unit
  PROVE  Spec => []DeletedAfterUse
<1> DEFINE J == IInvBC("B") /\ IInvBC("C")
<1>1. Init => J
  BY InitBC DEF BC
<1>2. IInv /\ J /\ [Next]_vars => J'
  BY InvarianceBC DEF BC
<1>3. J => DeletedAfterUse
  <2> SUFFICES ASSUME IInvBC("B"), IInvBC("C") PROVE DeletedAfterUse
    OBVIOUS
  <2>1. ASSUME NEW p \in BC, IInvBC(p), ResourceOf(p) \in deleted
        PROVE  \A t \in WorkersOf(p) : status[t] = "gone"
    BY <2>1 DEF IInvBC, Phases, Elsewhere, Gathering, Working, Finishing
  <2>2. /\ WorkersOf("B") = WorkersB /\ ResourceOf("B") = "resourceB"
        /\ WorkersOf("C") = WorkersC /\ ResourceOf("C") = "resourceC"
    BY DEF WorkersOf, HighOf, MediumOf, LowOf, ResourceOf, WorkersB, WorkersC
  <2> QED
    BY <2>1, <2>2 DEF DeletedAfterUse, BC
<1> QED
  BY <1>1, <1>2, <1>3, Invariance, PTL DEF Spec

(* The three tasks of B, and those of C, are past the barrier when main    *)
(* has made its broadcast and not before, as long as no wake-up is 8 units *)
(* late: no task is left behind at the barrier.                            *)
THEOREM AllStartTogether ==
  ASSUME Latency < 8 * Unit
  PROVE  Spec => []StartTogether
<1> DEFINE J == \A p \in BC : IInvBC(p) /\ Together(p) /\ AtResource(p)
<1>1. Init => J
  BY InitBC, CourseStarts
<1>2. IInv /\ J /\ [Next]_vars => J'
  BY InvarianceBC, CourseKeeps
<1>3. J => StartTogether
  <2> SUFFICES ASSUME J PROVE StartTogether
    OBVIOUS
  <2>1. Together("B") /\ Together("C")
    BY DEF BC
  <2>2. /\ WorkersOf("B") = WorkersB /\ MainOf("B") = "mainB"
        /\ WorkersOf("C") = WorkersC /\ MainOf("C") = "mainC"
    BY DEF WorkersOf, HighOf, MediumOf, LowOf, MainOf, WorkersB, WorkersC
  <2> QED
    BY <2>1, <2>2 DEF StartTogether, Together
<1> QED
  BY <1>1, <1>2, <1>3, Invariance, PTL DEF Spec

(* HIGH and LOW are never both at the resource, in B with its semaphore of *)
(* one unit as in C with its mutex: main deletes it only when both are     *)
(* gone, as long as no wake-up is 8 units late.                            *)
THEOREM NeverBothAtTheResource ==
  ASSUME Latency < 8 * Unit
  PROVE  Spec => []OneAtTheResource
<1> DEFINE J == \A p \in BC : IInvBC(p) /\ Together(p) /\ AtResource(p)
<1>1. Init => J
  BY InitBC, CourseStarts
<1>2. IInv /\ J /\ [Next]_vars => J'
  BY InvarianceBC, CourseKeeps
<1>3. J => OneAtTheResource
  <2> SUFFICES ASSUME J PROVE OneAtTheResource
    OBVIOUS
  <2>1. AtResource("B") /\ AtResource("C")
    BY DEF BC
  <2> QED
    BY <2>1 DEF OneAtTheResource, AtResource, ResourceOf, HighOf, LowOf
<1> QED
  BY <1>1, <1>2, <1>3, Invariance, PTL DEF Spec

(* In task C HIGH is kept from running for LOW's critical section of 3     *)
(* units at most, whatever MEDIUM does, and MEDIUM for the 5 units the     *)
(* others spin; before the barrier opens, for the unit main sleeps and its *)
(* lateness, which must not be more than 2 units for the bound to hold.    *)
THEOREM BlockingBounded ==
  ASSUME Latency <= 2 * Unit
  PROVE  Spec => []BoundedBlocking
<1> DEFINE J == IInvBC("C")
<1>0. Latency < 8 * Unit
  BY KernelAssumption
<1>1. Init => J
  BY InitBC DEF BC
<1>2. IInv /\ J /\ [Next]_vars => J'
  BY <1>0, InvarianceBC DEF BC
<1>3. IInv /\ J => BoundedBlocking
  <2> SUFFICES ASSUME IInv, J PROVE BoundedBlocking
    OBVIOUS
  <2> DEFINE h == HighOf("C")
  <2> DEFINE d == MediumOf("C")
  <2>1. /\ h \in Tasks /\ d \in Tasks /\ kept \in [Tasks -> Nat] /\ left \in [Tasks -> Int]
        /\ Unit \in Nat /\ Unit > 0 /\ Latency \in Nat /\ MainOf("C") \in Tasks
    BY TypesBC DEF BC
  <2>2. IInvBC("C")
    BY <2>1
  <2> HIDE DEF J, h, d
  <2>3. kept[h] <= 3 * Unit /\ kept[d] <= 5 * Unit
    <3>1. CASE Bounded("C")
      BY <3>1 DEF Bounded, h, d
    <3>2. CASE Gathering("C") /\ GatherWaits("C")
      <4>1. \A t \in {h, d} : kept[t] <= Unit + Latency
        <5>1. status[MainOf("C")] = "asleep" => left[MainOf("C")] >= -Latency
          BY <2>1, <3>2 DEF Gathering
        <5> QED
          BY <2>1, <3>2, <5>1 DEF GatherWaits, h, d
      <4> QED
        BY <2>1, <4>1
    <3>3. CASE Working("C") /\ HighWaits("C") /\ MediumWaits("C")
      <4>1. /\ HighWork("C") \in 0 .. 2 * Unit /\ LowWork("C") \in 0 .. 3 * Unit
        BY <3>3, WorkTypes DEF BC
      <4>2. \/ kept[h] <= Unit + Latency \/ kept[h] = 0 \/ kept[h] + LowWork("C") <= 3 * Unit
            \/ kept[h] <= 3 * Unit
        BY <3>3 DEF HighWaits, h
      <4>3. kept[d] <= Unit + Latency \/ kept[d] + HighWork("C") + LowWork("C") <= 5 * Unit
        BY <3>3 DEF MediumWaits, d
      <4>4. kept[h] \in Nat /\ kept[d] \in Nat
        BY <2>1
      <4> QED
        BY <2>1, <4>1, <4>2, <4>3, <4>4
    <3> QED
      BY <2>2, <3>1, <3>2, <3>3 DEF IInvBC, Phases
  <2> QED
    BY <2>3 DEF BoundedBlocking, KeptAtMost, h, d, HighOf, MediumOf
<1> QED
  BY <1>1, <1>2, <1>3, Invariance, PTL DEF Spec
-----------------------------------------------------------------------------
TasksA == DOMAIN ProgA

(* The three tasks of task A, its barrier, and that they are its own.      *)
LEMMA ProgramA ==
  /\ TasksA = {"mainA", "Task1", "Task2"} /\ WorkersA = {"Task1", "Task2"}
  /\ TasksA \subseteq Tasks /\ TasksA \cap Mains = {"mainA"}
  /\ "semaA" \in Sems /\ SemInit["semaA"] = 0
  /\ Prog["mainA"] = MainA /\ \A t \in WorkersA : Prog[t] = XenFunc
  /\ \A t \in Tasks \ TasksA : \A i \in 1 .. Len(Prog[t]) : Prog[t][i].obj \notin TasksA
<1>1. TasksA = {"mainA", "Task1", "Task2"} /\ WorkersA = {"Task1", "Task2"}
  BY DEF TasksA, ProgA, WorkersA
<1>2. ProgA["mainA"] = MainA /\ \A t \in WorkersA : ProgA[t] = XenFunc
  BY DEF ProgA, WorkersA
<1>3. SemInitA["semaA"] = 0 /\ DOMAIN SemInitA = {"semaA"}
  BY DEF SemInitA
<1>4. \A t \in Tasks : DOMAIN Prog[t] = 1 .. Len(Prog[t])
  BY KernelAssumption
<1>5. /\ TasksA \subseteq Tasks /\ TasksA \cap Mains = {"mainA"}
      /\ "semaA" \in Sems /\ SemInit["semaA"] = 0
      /\ Prog["mainA"] = MainA /\ \A t \in WorkersA : Prog[t] = XenFunc
  BY <1>1, <1>2, <1>3, TaskAAssumption DEF TasksA
<1>6. \A t \in Tasks \ TasksA : \A i \in 1 .. Len(Prog[t]) : Prog[t][i].obj \notin TasksA
  BY <1>4, TaskAAssumption DEF TasksA
<1> QED
  BY <1>1, <1>5, <1>6

(* Another program runs, or this one has ended.                            *)
ElsewhereA == \A t \in TasksA : status[t] \in {"dormant", "gone"}

(* This program runs and nothing else does.                                *)
OnlyA == \A t \in Tasks \ TasksA : status[t] \in {"dormant", "gone"}

(* Until the broadcast: main starts the two and sleeps, and both are at    *)
(* the barrier before a tick of its sleep can pass.                        *)
GatheringA ==
  LET m == "mainA" IN
  /\ \/ pc[m] \in 1 .. 4 /\ status[m] = "ready" /\ left[m] = 0
     \/ pc[m] = 4 /\ status[m] = "asleep" /\ left[m] <= Unit
  /\ on[m] = None
  /\ status["Task1"] = "dormant" => pc[m] <= 1
  /\ status["Task2"] = "dormant" => pc[m] <= 2
  /\ \A t \in WorkersA :
       /\ pc[t] = 1 /\ left[t] = 0
       /\ status[t] \in {"dormant", "ready", "waiting"}
       /\ on[t] = IF status[t] = "waiting" THEN "semaA" ELSE None
       /\ pc[m] = 4 /\ (status[m] = "ready" \/ left[m] < Unit) => status[t] = "waiting"
  /\ semVal["semaA"] = 0 /\ "semaA" \notin deleted

(* After it all are past the barrier.                                      *)
OpenA == pc["mainA"] > 4 /\ \A t \in WorkersA : pc[t] > 1

IInvA == (ElsewhereA /\ BarrierHolds) \/ (OnlyA /\ GatheringA) \/ OpenA

(* The types of what the steps of A change.                                *)
LEMMA TypesA ==
  ASSUME IInv
  PROVE  /\ "mainA" \in Tasks /\ "Task1" \in Tasks /\ "Task2" \in Tasks
         /\ pc \in [Tasks -> Nat] /\ status \in [Tasks -> Status] /\ left \in [Tasks -> Int]
         /\ on \in [Tasks -> Objects \cup {None}] /\ semVal \in [Sems -> Nat]
         /\ Unit \in Nat /\ Unit > 0 /\ None \notin Objects /\ None # "semaA"
<1>1. "mainA" \in Tasks /\ "Task1" \in Tasks /\ "Task2" \in Tasks
  BY ProgramA
<1>2. Unit \in Nat /\ Unit > 0 /\ None \notin Objects /\ None # "semaA"
  BY ProgramA, KernelAssumption DEF Objects
<1> QED
  BY <1>1, <1>2 DEF IInv, TypeOK

(* The steps of main up to the broadcast, and of a task at the barrier.    *)
LEMMA MainACall ==
  ASSUME IInv, Step("mainA"), pc["mainA"] \in 1 .. 4
  PROVE  LET m == "mainA" IN
         /\ status[m] = "ready" /\ on[m] = None /\ left[m] = 0
         /\ \/ pc[m] = 1 /\ TaskStart(m) /\ Obj(m) = "Task1"
            \/ pc[m] = 2 /\ TaskStart(m) /\ Obj(m) = "Task2"
            \/ pc[m] = 3 /\ Sleep(m) /\ Num(m) = 1
            \/ pc[m] = 4 /\ SemBroadcast(m) /\ Obj(m) = "semaA"
<1> DEFINE m == "mainA"
<1> DEFINE k == pc[m]
<1>1. m \in Tasks
  BY ProgramA
<1>2. /\ Len(Prog[m]) = 8 /\ Prog[m][1] = rt_task_start("Task1")
      /\ Prog[m][2] = rt_task_start("Task2") /\ Prog[m][3] = rt_task_sleep(1)
      /\ Prog[m][4] = rt_sem_broadcast("semaA")
  BY ProgramA DEF MainA
<1>3. status[m] = "ready" /\ on[m] = None /\ left[m] = 0 /\ (k # 9 => Makes(m, Prog[m][k]))
  <2>1. Len(Prog[m]) \in Nat
    BY <1>2
  <2>2. /\ status[m] = "ready" /\ on[m] = None /\ left[m] = 0
        /\ pc[m] # Len(Prog[m]) + 1 => Makes(m, Prog[m][pc[m]])
    BY <1>1, <2>1, NextCall
  <2> QED
    BY <1>2, <2>2
<1>4. k \in {1, 2, 3, 4}
  OBVIOUS
<1> HIDE DEF k
<1>5. CASE k \in {1, 2}
  BY <1>2, <1>3, <1>5 DEF rt_task_start, Call, Makes, k
<1>6. CASE k = 3
  BY <1>2, <1>3, <1>6 DEF rt_task_sleep, Call, Makes, k
<1>7. CASE k = 4
  BY <1>2, <1>3, <1>7 DEF rt_sem_broadcast, Call, Makes, k
<1> QED
  BY <1>4, <1>5, <1>6, <1>7

(* A task of task A that has taken its unit only spins, for ever, and      *)
(* before that it makes one call on the semaphore, its wait.               *)
LEMMA WorkerACall ==
  ASSUME IInv, NEW t \in WorkersA, Step(t), pc[t] = 1
  PROVE  status[t] = "ready" /\ SemP(t) /\ Obj(t) = "semaA"
<1>1. t \in Tasks
  BY ProgramA
<1>2. Len(Prog[t]) = 2 /\ Prog[t][1] = rt_sem_p("semaA")
  <2>1. Prog[t] = <<rt_sem_p("semaA"), loop>>
    BY ProgramA DEF XenFunc
  <2> QED
    BY <2>1
<1>3. Len(Prog[t]) \in Nat /\ pc[t] # Len(Prog[t]) + 1
  BY <1>2
<1>4. status[t] = "ready" /\ Makes(t, Prog[t][pc[t]])
  BY <1>1, <1>3, NextCall
<1> QED
  BY <1>2, <1>4 DEF rt_sem_p, Call, Makes

(* main starts the two, sleeps for a unit and opens the barrier.           *)
LEMMA GatheringAMain ==
  ASSUME IInv, OnlyA, GatheringA, Step("mainA")
  PROVE  GatheringA' \/ OpenA'
<1> DEFINE m == "mainA"
<1>1. /\ m \in Tasks /\ "Task1" \in Tasks /\ "Task2" \in Tasks /\ WorkersA = {"Task1", "Task2"}
      /\ pc \in [Tasks -> Nat] /\ status \in [Tasks -> Status] /\ left \in [Tasks -> Int]
      /\ on \in [Tasks -> Objects \cup {None}] /\ semVal \in [Sems -> Nat] /\ Unit \in Nat
  BY TypesA, ProgramA
<1>2. /\ status[m] = "ready" /\ on[m] = None /\ left[m] = 0
      /\ \/ pc[m] = 1 /\ TaskStart(m) /\ Obj(m) = "Task1"
         \/ pc[m] = 2 /\ TaskStart(m) /\ Obj(m) = "Task2"
         \/ pc[m] = 3 /\ Sleep(m) /\ Num(m) = 1
         \/ pc[m] = 4 /\ SemBroadcast(m) /\ Obj(m) = "semaA"
  <2>1. pc[m] \in 1 .. 4
    BY DEF GatheringA
  <2> QED
    BY <2>1, MainACall
<1>3. /\ status["Task1"] = "dormant" => pc[m] <= 1
      /\ status["Task2"] = "dormant" => pc[m] <= 2
      /\ \A t \in WorkersA :
           /\ pc[t] = 1 /\ left[t] = 0
           /\ status[t] \in {"dormant", "ready", "waiting"}
           /\ on[t] = IF status[t] = "waiting" THEN "semaA" ELSE None
           /\ pc[m] = 4 => status[t] = "waiting"
      /\ semVal["semaA"] = 0 /\ "semaA" \notin deleted
  BY <1>2 DEF GatheringA
<1>4. CASE pc[m] \in {1, 2}
  <2>1. PICK u \in WorkersA :
          /\ TaskStart(m) /\ Obj(m) = u
          /\ pc[m] = 1 => u = "Task1"
          /\ pc[m] = 2 => u = "Task2"
    BY <1>1, <1>2, <1>4
  <2>2. /\ status' = [status EXCEPT ![u] = IF @ = "dormant" THEN "ready" ELSE @]
        /\ pc' = [pc EXCEPT ![m] = @ + 1]
        /\ UNCHANGED <<on, left, semVal, deleted>>
    BY <2>1 DEF TaskStart, Advance
  <2>3. /\ pc'[m] = pc[m] + 1 /\ pc'[m] \in {2, 3} /\ status'[m] = "ready" /\ left'[m] = 0
        /\ \A t \in WorkersA : /\ pc'[t] = pc[t] /\ left'[t] = left[t] /\ on'[t] = on[t]
                               /\ t # u => status'[t] = status[t]
                               /\ t = u => status'[t] = IF status[t] = "dormant" THEN "ready"
                                                        ELSE status[t]
    BY <1>1, <1>2, <1>4, <2>1, <2>2
  <2>4. /\ status'["Task1"] = "dormant" => pc'[m] <= 1
        /\ status'["Task2"] = "dormant" => pc'[m] <= 2
    BY <1>1, <1>3, <1>4, <2>1, <2>3
  <2>5. \A t \in WorkersA :
           /\ pc'[t] = 1 /\ left'[t] = 0
           /\ status'[t] \in {"dormant", "ready", "waiting"}
           /\ on'[t] = IF status'[t] = "waiting" THEN "semaA" ELSE None
           /\ pc'[m] # 4
    BY <1>3, <2>3
  <2>6. GatheringA'
    BY <1>2, <1>3, <2>2, <2>3, <2>4, <2>5 DEF GatheringA
  <2> QED
    BY <2>6
<1>5. CASE pc[m] = 3
  <2>1. /\ status' = [status EXCEPT ![m] = "asleep"]
        /\ pc' = [pc EXCEPT ![m] = @ + 1] /\ left' = [left EXCEPT ![m] = 1 * Unit]
        /\ UNCHANGED <<on, semVal, deleted>>
    BY <1>2, <1>5 DEF Sleep, Advance
  <2>2. /\ pc'[m] = 4 /\ status'[m] = "asleep" /\ left'[m] = Unit
        /\ \A t \in WorkersA : /\ pc'[t] = pc[t] /\ left'[t] = left[t] /\ on'[t] = on[t]
                               /\ status'[t] = status[t]
    BY <1>1, <1>5, <2>1
  <2>3. Unit <= Unit /\ ~(Unit < Unit)
    BY <1>1
  <2>4. GatheringA'
    BY <1>2, <1>3, <1>5, <2>1, <2>2, <2>3, ProgramA DEF GatheringA
  <2> QED
    BY <2>4
<1>6. CASE pc[m] = 4
  <2>1. SemBroadcast(m) /\ Obj(m) = "semaA"
    BY <1>2, <1>6
  <2>2. Pass(m, Waiters("semaA"), "semaA")
    BY <2>1 DEF SemBroadcast
  <2>3. WorkersA \subseteq Waiters("semaA")
    BY <1>1, <1>3, <1>6 DEF Waiters
  <2>4. pc'[m] = 5 /\ \A t \in WorkersA : pc'[t] = 2
    BY <1>1, <1>3, <1>6, <2>2, <2>3 DEF Pass
  <2> QED
    BY <2>4 DEF OpenA
<1> QED
  BY <1>2, <1>4, <1>5, <1>6

(* The two come to the barrier and wait.                                   *)
LEMMA GatheringAWorker ==
  ASSUME IInv, OnlyA, GatheringA, NEW t \in WorkersA, Step(t)
  PROVE  GatheringA'
<1> DEFINE m == "mainA"
<1>1. /\ m \in Tasks /\ WorkersA \subseteq Tasks /\ m \notin WorkersA
      /\ "Task1" \in WorkersA /\ "Task2" \in WorkersA
      /\ status \in [Tasks -> Status] /\ on \in [Tasks -> Objects \cup {None}]
  BY TypesA, ProgramA
<1>2. SemP(t) /\ Obj(t) = "semaA" /\ status[t] = "ready"
  BY WorkerACall DEF GatheringA
<1>3. /\ status' = [status EXCEPT ![t] = "waiting"] /\ on' = [on EXCEPT ![t] = "semaA"]
      /\ UNCHANGED <<pc, left, semVal, deleted>>
  BY <1>2 DEF GatheringA, SemP, Block
<1>4. /\ status'[m] = status[m] /\ on'[m] = on[m]
      /\ \A u \in WorkersA : /\ u # t => status'[u] = status[u] /\ on'[u] = on[u]
                             /\ u = t => status'[u] = "waiting" /\ on'[u] = "semaA"
  BY <1>1, <1>3
<1>5. \A u \in WorkersA :
        /\ pc'[u] = 1 /\ left'[u] = 0
        /\ status'[u] \in {"dormant", "ready", "waiting"}
        /\ on'[u] = IF status'[u] = "waiting" THEN "semaA" ELSE None
        /\ pc'[m] = 4 /\ (status'[m] = "ready" \/ left'[m] < Unit) => status'[u] = "waiting"
  BY <1>3, <1>4 DEF GatheringA
<1>6. /\ status'["Task1"] = "dormant" => pc'[m] <= 1
      /\ status'["Task2"] = "dormant" => pc'[m] <= 2
  BY <1>1, <1>3, <1>4 DEF GatheringA
<1> QED
  BY <1>3, <1>4, <1>5, <1>6 DEF GatheringA

(* main wakes from its sleep of a unit, the only one asleep; both wait.    *)
LEMMA GatheringAExpire ==
  ASSUME IInv, OnlyA, GatheringA, NEW t \in Tasks, Expire(t)
  PROVE  OnlyA' /\ GatheringA'
<1> DEFINE m == "mainA"
<1>1. /\ m \in Tasks /\ WorkersA = {"Task1", "Task2"} /\ TasksA = WorkersA \cup {m}
      /\ m \notin WorkersA /\ WorkersA \subseteq Tasks
      /\ status \in [Tasks -> Status] /\ left \in [Tasks -> Int] /\ Unit \in Nat /\ Unit > 0
  BY TypesA, ProgramA
<1>2. t = m
  BY <1>1 DEF Expire, OnlyA, GatheringA
<1>3. pc[m] = 4 /\ left[m] < Unit /\ status[m] = "asleep"
  BY <1>1, <1>2 DEF Expire, GatheringA
<1>4. /\ UNCHANGED <<pc, on, semVal, deleted>>
      /\ status' = [status EXCEPT ![m] = "ready"] /\ left' = [left EXCEPT ![m] = 0]
  BY <1>2 DEF Expire
<1>5. /\ status'[m] = "ready" /\ left'[m] = 0
      /\ \A u \in Tasks \ {m} : status'[u] = status[u] /\ left'[u] = left[u]
  BY <1>1, <1>4
<1>6. OnlyA'
  BY <1>1, <1>5 DEF OnlyA
<1>7. \A u \in WorkersA : status[u] = "waiting"
  BY <1>3 DEF GatheringA
<1>8. \A u \in WorkersA : status'[u] = status[u] /\ left'[u] = left[u]
  BY <1>1, <1>5
<1>9. GatheringA'
  <2>1. on[m] = None /\ semVal["semaA"] = 0 /\ "semaA" \notin deleted
        /\ \A u \in WorkersA : pc[u] = 1 /\ left[u] = 0 /\ on[u] = "semaA"
    BY <1>7 DEF GatheringA
  <2>2. status'["Task1"] = "waiting" /\ status'["Task2"] = "waiting"
    BY <1>1, <1>7, <1>8
  <2> QED
    BY <1>3, <1>4, <1>5, <1>7, <1>8, <2>1, <2>2 DEF GatheringA
<1> QED
  BY <1>6, <1>9

(* Time passes only when both wait and main sleeps.                        *)
LEMMA GatheringATick ==
  ASSUME IInv, OnlyA, GatheringA, Tick
  PROVE  OnlyA' /\ GatheringA'
<1> DEFINE m == "mainA"
<1>1. /\ m \in Tasks /\ WorkersA = {"Task1", "Task2"} /\ TasksA = WorkersA \cup {m}
      /\ WorkersA \subseteq Tasks
      /\ status \in [Tasks -> Status] /\ left \in [Tasks -> Int] /\ Unit \in Nat
  BY TypesA, ProgramA
<1>2. cpu \notin Tasks
  <2> SUFFICES ASSUME cpu \in Tasks PROVE FALSE
    OBVIOUS
  <2>1. status[cpu] = "ready"
    BY RunningIsReady DEF IInv
  <2>2. cpu \in TasksA
    BY <2>1 DEF OnlyA
  <2>3. left[cpu] = 0
    BY <1>1, <2>1, <2>2 DEF GatheringA
  <2>4. Calling(cpu, "loop")
    BY <1>1, <2>2, <2>3 DEF Tick, Consuming
  <2>5. CASE cpu \in WorkersA
    <3>1. pc[cpu] = 1 /\ Prog[cpu][1] = rt_sem_p("semaA")
      BY <2>5, ProgramA DEF GatheringA, XenFunc
    <3> QED
      BY <2>4, <3>1 DEF Calling, rt_sem_p, Call
  <2>6. CASE cpu = m
    <3>1. pc[m] \in {1, 2, 3, 4}
      BY DEF GatheringA
    <3>2. Prog[m][1].op = "task_start" /\ Prog[m][2].op = "task_start"
          /\ Prog[m][3].op = "sleep" /\ Prog[m][4].op = "sem_broadcast"
      BY ProgramA DEF MainA, rt_task_start, rt_task_sleep, rt_sem_broadcast, Call
    <3> QED
      BY <2>4, <2>6, <3>1, <3>2 DEF Calling
  <2> QED
    BY <1>1, <2>2, <2>5, <2>6
<1>3. \A u \in Tasks : status[u] # "ready"
  BY <1>2 DEF IInv, Scheduled, Ready, Highest
<1>4. pc[m] = 4 /\ status[m] = "asleep" /\ left[m] <= Unit
  BY <1>1, <1>3 DEF GatheringA
<1>5. \A u \in WorkersA : status[u] = "waiting"
  <2>1. status["Task1"] # "dormant" /\ status["Task2"] # "dormant"
    BY <1>4 DEF GatheringA
  <2>2. \A u \in WorkersA : status[u] \in {"dormant", "ready", "waiting"}
    BY DEF GatheringA
  <2> QED
    BY <1>1, <1>3, <2>1, <2>2
<1>6. /\ UNCHANGED <<pc, status, on, semVal, deleted>>
      /\ left'[m] = left[m] - 1 /\ \A u \in WorkersA : left'[u] = left[u]
  BY <1>1, <1>2, <1>4, <1>5 DEF Tick, Asleep
<1>7. left'[m] <= Unit
  BY <1>1, <1>4, <1>6
<1>8. GatheringA'
  <2>1. on[m] = None /\ semVal["semaA"] = 0 /\ "semaA" \notin deleted
        /\ \A u \in WorkersA : pc[u] = 1 /\ left[u] = 0 /\ on[u] = "semaA"
    BY <1>5 DEF GatheringA
  <2>2. status["Task1"] = "waiting" /\ status["Task2"] = "waiting"
    BY <1>1, <1>5
  <2> QED
    BY <1>4, <1>5, <1>6, <1>7, <2>1, <2>2 DEF GatheringA
<1>9. OnlyA'
  BY <1>6 DEF OnlyA
<1> QED
  BY <1>8, <1>9

(* While task A gathers it starts only its own two.                        *)
LEMMA OnlyAKeeps ==
  ASSUME IInv, OnlyA, GatheringA, NEW t \in Tasks, Step(t)
  PROVE  t \in TasksA /\ OnlyA'
<1>1. t \in TasksA
  BY StepperRuns DEF OnlyA
<1>2. Calling(t, "task_start") => Obj(t) \in TasksA
  <2> SUFFICES ASSUME Calling(t, "task_start") PROVE Obj(t) \in TasksA
    OBVIOUS
  <2>1. \A op : op # "task_start" => ~Calling(t, op)
    BY DEF Calling
  <2>2. ~SemP(t) /\ ~Sleep(t) /\ ~SemBroadcast(t)
    BY <2>1 DEF SemP, Sleep, SemBroadcast
  <2>3. t \notin WorkersA
    BY <2>2, WorkerACall DEF GatheringA
  <2>4. t = "mainA" /\ pc["mainA"] \in 1 .. 4
    BY <1>1, <2>3, ProgramA DEF GatheringA
  <2>5. Obj(t) \in {"Task1", "Task2"}
    BY <2>2, <2>4, MainACall
  <2> QED
    BY <2>5, ProgramA
<1>3. ASSUME NEW u \in Tasks \ TasksA PROVE status'[u] \in {"dormant", "gone"}
  <2>1. u # t /\ status[u] \in {"dormant", "gone"} /\ ~(Calling(t, "task_start") /\ u = Obj(t))
    BY <1>1, <1>2 DEF OnlyA
  <2>2. status'[u] \in {status[u], "gone"}
    BY <2>1, OnlyStarted
  <2> QED
    BY <2>1, <2>2
<1> QED
  BY <1>1, <1>3 DEF OnlyA

(* While another program runs the three stay where they are.               *)
LEMMA ElsewhereAKeeps ==
  ASSUME IInv, ElsewhereA, BarrierHolds, NEW t \in Tasks, Step(t)
  PROVE  ElsewhereA' /\ BarrierHolds'
<1>1. t \notin TasksA
  BY StepperRuns DEF ElsewhereA
<1>2. \A op : Calling(t, op) => Obj(t) \notin TasksA
  <2> SUFFICES ASSUME NEW op, Calling(t, op) PROVE Obj(t) \notin TasksA
    OBVIOUS
  <2>1. pc[t] \in 1 .. Len(Prog[t])
    BY CallerFacts
  <2> QED
    BY <1>1, <2>1, ProgramA DEF Obj
<1>3. ASSUME NEW u \in TasksA
      PROVE  status'[u] \in {"dormant", "gone"} /\ pc'[u] = pc[u]
  <2>1. u \in Tasks /\ u # t /\ status[u] \in {"dormant", "gone"}
    BY <1>1, ProgramA DEF ElsewhereA
  <2>2. status'[u] \in {status[u], "gone"}
    BY <1>2, <2>1, OnlyStarted
  <2>3. on[u] = None /\ None \notin Objects
    BY <2>1, KernelAssumption DEF IInv, Waiting
  <2>4. pc'[u] = pc[u]
    BY <2>1, <2>3, StepMoves DEF Moves
  <2> QED
    BY <2>1, <2>2, <2>4
<1>4. "mainA" \in TasksA /\ WorkersA \subseteq TasksA
  BY ProgramA
<1> QED
  BY <1>3, <1>4 DEF ElsewhereA, BarrierHolds

(* No task goes back.                                                      *)
LEMMA OpenAKeeps ==
  ASSUME IInv, OpenA, NEW t \in Tasks, Step(t)
  PROVE  OpenA'
<1>1. \A u \in Tasks : pc'[u] \in {pc[u], pc[u] + 1}
  BY StepMoves DEF Moves
<1>2. /\ "mainA" \in Tasks /\ WorkersA \subseteq Tasks /\ pc \in [Tasks -> Nat]
  BY TypesA, ProgramA
<1>3. pc'["mainA"] > 4
  BY <1>1, <1>2 DEF OpenA
<1>4. ASSUME NEW u \in WorkersA PROVE pc'[u] > 1
  <2>1. pc[u] \in Nat /\ pc[u] > 1 /\ pc'[u] \in {pc[u], pc[u] + 1}
    BY <1>1, <1>2 DEF OpenA
  <2> QED
    BY <2>1
<1> QED
  BY <1>3, <1>4 DEF OpenA

(* Every step keeps the invariant of A.                                    *)
LEMMA InvarianceA == IInv /\ IInvA /\ [Next]_vars => IInvA'
<1> SUFFICES ASSUME IInv, IInvA, [Next]_vars PROVE IInvA'
  OBVIOUS
<1>1. CASE OnlyA /\ GatheringA /\ Next
  <2>1. ASSUME NEW t \in Tasks, Step(t) PROVE IInvA'
    <3>1. OnlyA' /\ (t = "mainA" \/ t \in WorkersA)
      BY <1>1, <2>1, OnlyAKeeps, ProgramA
    <3> QED
      BY <1>1, <2>1, <3>1, GatheringAMain, GatheringAWorker DEF IInvA
  <2>2. ASSUME NEW t \in Tasks, Expire(t) PROVE IInvA'
    BY <1>1, <2>2, GatheringAExpire DEF IInvA
  <2>3. CASE Tick
    BY <1>1, <2>3, GatheringATick DEF IInvA
  <2> QED
    BY <1>1, <2>1, <2>2, <2>3 DEF Next
<1>2. CASE ElsewhereA /\ BarrierHolds /\ Next
  <2>1. ASSUME NEW t \in Tasks, Expire(t) PROVE IInvA'
    <3>1. status' = [status EXCEPT ![t] = "ready"] /\ status[t] = "asleep" /\ pc' = pc
      BY <2>1 DEF Expire
    <3>2. t \notin TasksA /\ status \in [Tasks -> Status] /\ TasksA \subseteq Tasks
      BY <1>2, <3>1, TypesA, ProgramA DEF ElsewhereA
    <3>3. ElsewhereA'
      BY <1>2, <3>1, <3>2 DEF ElsewhereA
    <3>4. BarrierHolds'
      BY <1>2, <3>1 DEF BarrierHolds
    <3> QED
      BY <3>3, <3>4 DEF IInvA
  <2>2. CASE Tick
    BY <1>2, <2>2 DEF Tick, IInvA, ElsewhereA, BarrierHolds
  <2> QED
    BY <1>2, <2>1, <2>2, ElsewhereAKeeps DEF Next, IInvA
<1>3. CASE OpenA /\ Next
  <2>1. pc' = pc => OpenA'
    BY <1>3 DEF OpenA
  <2> QED
    BY <1>3, <2>1, OpenAKeeps DEF Next, Expire, Tick, IInvA
<1>4. CASE UNCHANGED vars
  BY <1>4 DEF vars, IInvA, ElsewhereA, BarrierHolds, OnlyA, GatheringA, OpenA
<1> QED
  BY <1>1, <1>2, <1>3, <1>4 DEF IInvA

(* It holds when main starts, of task A or of another.                     *)
LEMMA InitA == Init => IInvA
<1> SUFFICES ASSUME Init PROVE IInvA
  OBVIOUS
<1>1. /\ \A t \in Tasks : /\ pc[t] = 1 /\ on[t] = None /\ left[t] = 0
                          /\ status[t] = IF t = cpu THEN "ready" ELSE "dormant"
      /\ semVal = SemInit /\ deleted = {} /\ cpu \in Mains
  BY DEF Init
<1>2. /\ TasksA = {"mainA", "Task1", "Task2"} /\ WorkersA = {"Task1", "Task2"}
      /\ TasksA \subseteq Tasks /\ TasksA \cap Mains = {"mainA"} /\ SemInit["semaA"] = 0
  BY ProgramA
<1>3. CASE cpu = "mainA"
  <2>1. OnlyA
    BY <1>1, <1>2, <1>3 DEF OnlyA
  <2>2. /\ pc["mainA"] = 1 /\ status["mainA"] = "ready" /\ left["mainA"] = 0
        /\ on["mainA"] = None /\ semVal["semaA"] = 0 /\ "semaA" \notin deleted
        /\ \A t \in WorkersA : pc[t] = 1 /\ left[t] = 0 /\ on[t] = None /\ status[t] = "dormant"
    BY <1>1, <1>2, <1>3
  <2>3. GatheringA
    BY <2>2 DEF GatheringA
  <2> QED
    BY <2>1, <2>3 DEF IInvA
<1>4. CASE cpu # "mainA"
  <2>1. cpu \notin TasksA
    BY <1>1, <1>2, <1>4
  <2>2. ElsewhereA
    BY <1>1, <1>2, <2>1 DEF ElsewhereA
  <2>3. pc["mainA"] = 1 /\ \A t \in WorkersA : pc[t] = 1
    BY <1>1, <1>2
  <2>4. BarrierHolds
    BY <2>3 DEF BarrierHolds
  <2> QED
    BY <2>2, <2>4 DEF IInvA
<1> QED
  BY <1>3, <1>4

(* The tasks of A are past the barrier when main has made its broadcast    *)
(* and not before, however late main wakes up from the unit it sleeps: no  *)
(* task is left behind at the barrier.                                     *)
THEOREM BarrierOfA == Spec => []BarrierHolds
<1>1. IInv /\ IInvA => BarrierHolds
  <2> SUFFICES ASSUME IInv, IInvA PROVE BarrierHolds
    OBVIOUS
  <2>1. CASE GatheringA
    <3>1. pc["mainA"] \in 1 .. 4 /\ \A t \in WorkersA : pc[t] = 1
      BY <2>1 DEF GatheringA
    <3>2. ~(pc["mainA"] > 4) /\ \A t \in WorkersA : ~(pc[t] > 1)
      BY <3>1
    <3> QED
      BY <3>2 DEF BarrierHolds
  <2>2. CASE OpenA
    BY <2>2 DEF OpenA, BarrierHolds
  <2> QED
    BY <2>1, <2>2 DEF IInvA
<1> QED
  BY <1>1, InitA, InvarianceA, Invariance, PTL DEF Spec
=============================================================================
