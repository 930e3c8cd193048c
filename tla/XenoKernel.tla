----------------------------- MODULE XenoKernel -----------------------------
(***************************************************************************)
(* The slice of Xenomai's native skin that the programs of Ex7 run on: a   *)
(* single CPU (every task is created with T_CPU(1)) scheduled by fixed     *)
(* priorities with preemption, counting semaphores created S_PRIO, mutexes *)
(* with priority inheritance, rt_task_sleep, and busy-waits that consume   *)
(* CPU time.  Xenomai itself is not in the repository; its calls are       *)
(* modelled from how Ex7/main_task[A-E].c use them.                        *)
(*                                                                         *)
(* A program is data: Prog[t] is the sequence of native-skin calls task t  *)
(* makes, in source order.  Task A is in module TaskA, tasks B and C in    *)
(* TaskBC, tasks D and E in TaskDE, and Ex7 puts the five side by side:    *)
(* one main starts, and only the tasks it starts ever run.                 *)
(*                                                                         *)
(* Time is counted in ticks, Unit of them to the 100 ms of the exercise.   *)
(* A call takes no time; time passes (Tick) only while the CPU busy-waits, *)
(* loops or is idle.  An expired sleep makes its task ready at any point   *)
(* among the calls of the same instant, and up to Latency ticks late.      *)
(***************************************************************************)
EXTENDS Integers, Sequences

CONSTANTS
  Tasks,     \* the tasks of all programs, their shadowed mains among them
  Mains,     \* the tasks rt_task_shadow makes of main(), one a program
  Prog,      \* Prog[t]: the calls of t, in source order
  Priority,  \* the priority given to rt_task_create / rt_task_shadow
  Sems,      \* RT_SEM objects
  SemInit,   \* the count each is created with
  Mutexes,   \* RT_MUTEX objects
  Unit,      \* ticks to the 100 ms the exercise counts time in
  Latency    \* how many ticks late a sleeper may be woken

Objects == Sems \cup Mutexes
None == "none"
Idle == "idle"

Ops == {"sem_p", "sem_v", "sem_broadcast", "sem_delete",
        "mutex_acquire", "mutex_release", "mutex_delete",
        "sleep", "spin", "set_priority", "task_start", "task_delete",
        "loop", "pause"}

(* A call: its name, the object or task it is about, and its number.       *)
Call(op, obj, n) == [op |-> op, obj |-> obj, n |-> n]

Calls == [op : Ops, obj : Objects \cup Tasks \cup {None}, n : Nat]

(* The calls as the sources write them.  busy_wait_us(100000) is one unit   *)
(* of rt_timer_spin, rt_task_sleep(100*1000*1000) one unit of sleep; loop  *)
(* is while(1){} and pause is while(1) sleep(-1).                          *)
rt_sem_p(s) == Call("sem_p", s, 0)
rt_sem_v(s) == Call("sem_v", s, 0)
rt_sem_broadcast(s) == Call("sem_broadcast", s, 0)
rt_sem_delete(s) == Call("sem_delete", s, 0)
rt_mutex_acquire(m) == Call("mutex_acquire", m, 0)
rt_mutex_release(m) == Call("mutex_release", m, 0)
rt_mutex_delete(m) == Call("mutex_delete", m, 0)
rt_task_sleep(n) == Call("sleep", None, n)
busy_wait_us(n) == Call("spin", None, n)
rt_task_set_priority(n) == Call("set_priority", None, n)
rt_task_start(u) == Call("task_start", u, 0)
rt_task_delete(u) == Call("task_delete", u, 0)
loop == Call("loop", None, 0)
pause == Call("pause", None, 0)

ASSUME KernelAssumption ==
  /\ Mains \subseteq Tasks
  /\ Prog \in [Tasks -> Seq(Calls)]
  /\ Priority \in [Tasks -> Nat]
  /\ SemInit \in [Sems -> Nat]
  /\ Sems \cap Mutexes = {}
  /\ None \notin Objects \cup Tasks
  /\ Idle \notin Tasks
  /\ Unit \in Nat \ {0}
  /\ Latency \in Nat

VARIABLES
  pc,        \* pc[t]: the index in Prog[t] of the next call of t
  status,    \* dormant, ready, asleep, waiting, paused or gone
  on,        \* the object t is waiting for, or None
  left,      \* ticks left of t's sleep or busy-wait
  bprio,     \* base priorities, changed by rt_task_set_priority
  semVal,    \* the count of each semaphore
  owner,     \* the owner of each mutex, or None
  deleted,   \* objects deleted so far
  cpu,       \* the running task, or Idle
  inside,    \* objects t is past the P or acquire of, not yet past the V
             \* or release of: what t believes it holds
  kept       \* ticks t has been kept from running since it last ran

vars == <<pc, status, on, left, bprio, semVal, owner, deleted, cpu, inside, kept>>

Status == {"dormant", "ready", "asleep", "waiting", "paused", "gone"}

TypeOK ==
  /\ pc \in [Tasks -> Nat]
  /\ \A t \in Tasks : pc[t] \in 1 .. Len(Prog[t]) + 1
  /\ status \in [Tasks -> Status]
  /\ on \in [Tasks -> Objects \cup {None}]
  /\ left \in [Tasks -> Int]
  /\ bprio \in [Tasks -> Nat]
  /\ semVal \in [Sems -> Nat]
  /\ owner \in [Mutexes -> Tasks \cup {None}]
  /\ deleted \in SUBSET Objects
  /\ cpu \in Tasks \cup {Idle}
  /\ inside \in [Tasks -> SUBSET Objects]
  /\ kept \in [Tasks -> Nat]

-----------------------------------------------------------------------------
(* Scheduling.                                                             *)

Ready == {t \in Tasks : status[t] = "ready"}

Waiters(o) == {t \in Tasks : on[t] = o}

(* The base priorities t runs with: its own and, by inheritance, those of  *)
(* the tasks waiting for a mutex t owns.  The current priority is their    *)
(* maximum.  One level is enough here: a task waits for a mutex whose      *)
(* owner itself waits only in the deadlock of task D.                      *)
(*                                                                         *)
(* PriosWithoutInheritance is the variant a mutex without it would give.   *)
PriosWithoutInheritance(t) == {bprio[t]}

Prios(t) ==
  {bprio[t]} \cup {bprio[u] : u \in {v \in Tasks : /\ on[v] \in Mutexes
                                                   /\ owner[on[v]] = t}}

(* The current priority of t is at least that of u.                        *)
AtLeast(t, u) == \A p \in Prios(u) : \E q \in Prios(t) : p <= q

(* The members of S with the highest current priority.  Tasks of equal     *)
(* priority are taken in any order.                                        *)
Highest(S) == {t \in S : \A u \in S : AtLeast(t, u)}

(* The CPU goes to a ready task of highest priority; the running task      *)
(* keeps it unless a ready task has a strictly higher one.                 *)
Reschedule ==
  cpu' \in IF Ready' = {} THEN {Idle}
           ELSE IF cpu \in Highest(Ready)' THEN {cpu} ELSE Highest(Ready)'

-----------------------------------------------------------------------------
(* The calls.                                                              *)

(* t runs and its next call is op.                                         *)
Calling(t, op) ==
  /\ cpu = t
  /\ left[t] = 0
  /\ pc[t] <= Len(Prog[t])
  /\ Prog[t][pc[t]].op = op

Obj(t) == Prog[t][pc[t]].obj
Num(t) == Prog[t][pc[t]].n

Advance(t) == pc' = [pc EXCEPT ![t] = @ + 1]

(* t completes a call on o, which lets the tasks of W past their P or      *)
(* acquire of o; if t is not itself let past, it has left o.               *)
Pass(t, W, o) ==
  /\ pc' = [u \in Tasks |-> IF u \in W \cup {t} THEN pc[u] + 1 ELSE pc[u]]
  /\ status' = [u \in Tasks |-> IF u \in W THEN "ready" ELSE status[u]]
  /\ on' = [u \in Tasks |-> IF u \in W THEN None ELSE on[u]]
  /\ inside' = [u \in Tasks |->
       IF u \in W THEN inside[u] \cup {o}
       ELSE IF u = t THEN inside[u] \ {o} ELSE inside[u]]
  /\ UNCHANGED <<left, bprio, kept>>
  /\ Reschedule

Block(t, o) ==
  /\ status' = [status EXCEPT ![t] = "waiting"]
  /\ on' = [on EXCEPT ![t] = o]
  /\ UNCHANGED <<pc, left, bprio, semVal, owner, inside, kept>>
  /\ Reschedule

(* rt_sem_p(s, TM_INFINITE).  On a deleted semaphore it returns an error   *)
(* no program looks at.                                                    *)
SemP(t) ==
  LET s == Obj(t) IN
  /\ Calling(t, "sem_p") /\ s \in Sems
  /\ UNCHANGED <<owner, deleted>>
  /\ \/ /\ s \in deleted
        /\ Pass(t, {t}, s)
        /\ UNCHANGED semVal
     \/ /\ s \notin deleted /\ semVal[s] > 0
        /\ semVal' = [semVal EXCEPT ![s] = @ - 1]
        /\ Pass(t, {t}, s)
     \/ /\ s \notin deleted /\ semVal[s] = 0
        /\ Block(t, s)

(* rt_sem_v(s): hands the unit to the waiter of highest priority, or       *)
(* counts it.                                                              *)
SemV(t) ==
  LET s == Obj(t) IN
  /\ Calling(t, "sem_v") /\ s \in Sems
  /\ UNCHANGED <<owner, deleted>>
  /\ \/ /\ s \in deleted
        /\ Pass(t, {}, s)
        /\ UNCHANGED semVal
     \/ /\ s \notin deleted /\ Waiters(s) = {}
        /\ semVal' = [semVal EXCEPT ![s] = @ + 1]
        /\ Pass(t, {}, s)
     \/ /\ s \notin deleted
        /\ \E w \in Highest(Waiters(s)) : Pass(t, {w}, s)
        /\ UNCHANGED semVal

(* rt_sem_broadcast(s): every waiter passes, the count becomes 0.          *)
SemBroadcast(t) ==
  LET s == Obj(t) IN
  /\ Calling(t, "sem_broadcast") /\ s \in Sems
  /\ semVal' = [semVal EXCEPT ![s] = 0]
  /\ UNCHANGED <<owner, deleted>>
  /\ Pass(t, Waiters(s), s)

(* rt_sem_delete(s) and rt_mutex_delete(m): the waiters' calls return an   *)
(* error no program looks at.                                              *)
Delete(t, op, S) ==
  LET o == Obj(t) IN
  /\ Calling(t, op) /\ o \in S
  /\ deleted' = deleted \cup {o}
  /\ UNCHANGED <<semVal, owner>>
  /\ Pass(t, Waiters(o), o)

SemDelete(t) == Delete(t, "sem_delete", Sems)
MutexDelete(t) == Delete(t, "mutex_delete", Mutexes)

(* rt_mutex_acquire(m, TM_INFINITE).  No program acquires a mutex it       *)
(* already owns.                                                           *)
MutexAcquire(t) ==
  LET m == Obj(t) IN
  /\ Calling(t, "mutex_acquire") /\ m \in Mutexes
  /\ \/ /\ m \in deleted
        /\ UNCHANGED owner
        /\ Pass(t, {t}, m)
     \/ /\ m \notin deleted /\ owner[m] = None
        /\ owner' = [owner EXCEPT ![m] = t]
        /\ Pass(t, {t}, m)
     \/ /\ m \notin deleted /\ owner[m] \notin {None, t}
        /\ Block(t, m)
  /\ UNCHANGED <<semVal, deleted>>

(* rt_mutex_release(m): refused unless t owns m; otherwise the waiter of   *)
(* highest priority owns m next.                                           *)
MutexRelease(t) ==
  LET m == Obj(t) IN
  /\ Calling(t, "mutex_release") /\ m \in Mutexes
  /\ \/ /\ m \in deleted \/ owner[m] # t
        /\ UNCHANGED owner
        /\ Pass(t, {}, m)
     \/ /\ m \notin deleted /\ owner[m] = t /\ Waiters(m) = {}
        /\ owner' = [owner EXCEPT ![m] = None]
        /\ Pass(t, {}, m)
     \/ /\ m \notin deleted /\ owner[m] = t
        /\ \E w \in Highest(Waiters(m)) :
             /\ owner' = [owner EXCEPT ![m] = w]
             /\ Pass(t, {w}, m)
  /\ UNCHANGED <<semVal, deleted>>

(* rt_task_sleep of n units.                                               *)
Sleep(t) ==
  /\ Calling(t, "sleep")
  /\ left' = [left EXCEPT ![t] = Num(t) * Unit]
  /\ status' = [status EXCEPT ![t] = "asleep"]
  /\ Advance(t)
  /\ UNCHANGED <<on, bprio, owner>>
  /\ Reschedule
  /\ UNCHANGED <<semVal, deleted, inside, kept>>

(* busy_wait_us of n units: the task goes on when Tick has used them up.   *)
Spin(t) ==
  /\ Calling(t, "spin")
  /\ left' = [left EXCEPT ![t] = Num(t) * Unit]
  /\ Advance(t)
  /\ UNCHANGED <<status, on, bprio, semVal, owner, deleted, cpu, inside, kept>>

(* rt_task_set_priority(self, n).                                          *)
SetPriority(t) ==
  /\ Calling(t, "set_priority")
  /\ bprio' = [bprio EXCEPT ![t] = Num(t)]
  /\ Advance(t)
  /\ UNCHANGED <<status, on, left, owner>>
  /\ Reschedule
  /\ UNCHANGED <<semVal, deleted, inside, kept>>

(* rt_task_create and rt_task_start of task Obj(t).                        *)
TaskStart(t) ==
  LET u == Obj(t) IN
  /\ Calling(t, "task_start") /\ u \in Tasks
  /\ status' = [status EXCEPT ![u] = IF @ = "dormant" THEN "ready" ELSE @]
  /\ Advance(t)
  /\ UNCHANGED <<on, left, bprio, owner>>
  /\ Reschedule
  /\ UNCHANGED <<semVal, deleted, inside, kept>>

(* rt_task_delete(u), an error no program looks at if u is gone already.   *)
TaskDelete(t) ==
  LET u == Obj(t) IN
  /\ Calling(t, "task_delete") /\ u \in Tasks
  /\ status' = [status EXCEPT ![u] = "gone"]
  /\ on' = [on EXCEPT ![u] = None]
  /\ Advance(t)
  /\ UNCHANGED <<left, bprio, owner>>
  /\ Reschedule
  /\ UNCHANGED <<semVal, deleted, inside, kept>>

(* while(1) sleep(-1): t never wants the CPU again.                        *)
Pause(t) ==
  /\ Calling(t, "pause")
  /\ status' = [status EXCEPT ![t] = "paused"]
  /\ UNCHANGED <<pc, on, left, bprio, owner>>
  /\ Reschedule
  /\ UNCHANGED <<semVal, deleted, inside, kept>>

(* t's function returns; when main() returns the process exits and takes   *)
(* every task with it.                                                     *)
Return(t) ==
  /\ cpu = t /\ left[t] = 0 /\ pc[t] = Len(Prog[t]) + 1
  /\ status' = [u \in Tasks |-> IF u = t \/ t \in Mains THEN "gone" ELSE status[u]]
  /\ on' = [u \in Tasks |-> IF t \in Mains THEN None ELSE on[u]]
  /\ UNCHANGED <<pc, left, bprio, owner>>
  /\ Reschedule
  /\ UNCHANGED <<semVal, deleted, inside, kept>>

-----------------------------------------------------------------------------
(* Time.                                                                   *)

Asleep == {t \in Tasks : status[t] = "asleep"}

(* The timer of a sleep that is over readies its task.                     *)
Expire(t) ==
  /\ status[t] = "asleep" /\ left[t] <= 0
  /\ status' = [status EXCEPT ![t] = "ready"]
  /\ left' = [left EXCEPT ![t] = 0]
  /\ UNCHANGED <<pc, on, bprio, owner>>
  /\ Reschedule
  /\ UNCHANGED <<semVal, deleted, inside, kept>>

(* The running task, if there is one, is in a busy-wait or in while(1){}.  *)
Consuming == cpu \in Tasks => left[cpu] > 0 \/ Calling(cpu, "loop")

(* One tick passes.  No wake-up is more than Latency ticks late.           *)
Tick ==
  /\ Consuming
  /\ Asleep # {} \/ cpu \in Tasks
  /\ \A t \in Asleep : left[t] > -Latency
  /\ left' = [t \in Tasks |->
       IF t \in Asleep \/ (t = cpu /\ left[t] > 0) THEN left[t] - 1 ELSE left[t]]
  /\ kept' = [t \in Tasks |->
       IF t # cpu /\ status[t] \in {"ready", "waiting"} THEN kept[t] + 1 ELSE 0]
  /\ UNCHANGED <<pc, status, on, bprio, semVal, owner, deleted, cpu, inside>>

-----------------------------------------------------------------------------
Init ==
  /\ pc = [t \in Tasks |-> 1]
  /\ cpu \in Mains
  /\ status = [t \in Tasks |-> IF t = cpu THEN "ready" ELSE "dormant"]
  /\ on = [t \in Tasks |-> None]
  /\ left = [t \in Tasks |-> 0]
  /\ bprio = Priority
  /\ semVal = SemInit
  /\ owner = [m \in Mutexes |-> None]
  /\ deleted = {}
  /\ inside = [t \in Tasks |-> {}]
  /\ kept = [t \in Tasks |-> 0]

Step(t) ==
  \/ SemP(t) \/ SemV(t) \/ SemBroadcast(t) \/ SemDelete(t)
  \/ MutexAcquire(t) \/ MutexRelease(t) \/ MutexDelete(t)
  \/ Sleep(t) \/ Spin(t) \/ SetPriority(t)
  \/ TaskStart(t) \/ TaskDelete(t) \/ Pause(t) \/ Return(t)

Next == (\E t \in Tasks : Step(t) \/ Expire(t)) \/ Tick

(* The CPU and the timer never stop.                                       *)
Spec == Init /\ [][Next]_vars /\ WF_vars(Next)

-----------------------------------------------------------------------------
(* What the programs' properties are put together from.                    *)

(* The wait of t, if any, has been at most n units long.                   *)
KeptAtMost(t, n) == kept[t] <= n * Unit

(* The program whose main is m is the one that was started.                *)
Runs(m) == status[m] # "dormant"

(* Every task has ended and the process is gone.                           *)
AllGone == \A t \in Tasks : status[t] = "gone"
=============================================================================
