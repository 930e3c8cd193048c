# Verification of the real-time systems exercises

TLA+ models of the programs in this repository, the TLC configurations that
check them and the proofs TLAPS checks. The repository holds the exercises of a
course on real-time systems (Ex1 to Ex7) and a small project, `miniproject`: C
programs for Linux, Xenomai and an AVR32 board. Most were written to show a
hazard of concurrency, or its cure, so the properties here say what each program
shows, and where a program does something other than its comments say.

    tlc -config Philosophers.cfg Philosophers.tla     one run
    tlapm PhilosophersProofs.tla                      one proof module

`PROJECT.json` lists components, runs, hazards and theorems, and maps every
definition to the lines it models.

## The system

The programs do not call each other. Nine small systems are meant to be right,
or wrong, because of the order in which several actors take their steps, or
because of arithmetic at a boundary.

| Component | State | Operations | What makes it hard | What makes it right |
|---|---|---|---|---|
| Ex7 tasks A-E (Xenomai) | where each task is, priorities, semaphores, mutexes, sleeps | `xen_func*`, `main`, native-skin calls | preemption on one CPU, wake-up times, priority inversion, circular waits, clean-up after a fixed sleep | barrier; exclusive resource; inversion in B, bounded in C; deadlock in D, none in E; the ends the programs have |
| FreeRTOS scheduler (under Ex4) | ready, delayed, suspended, event and termination lists, tick count, missed ticks, priorities | the task API of `tasks.c`, the tick interrupt, the idle task | a tick count that overflows, two delayed lists that change places, ticks and events while the scheduler is suspended, priorities changed while waiting | every task in one list, woken at its tick, the most urgent one running, time shared among equals |
| Ex4 response tasks | test and response pins, three tasks of different priority | `responseTask`, `responseTaskC` | a task that stays busy while its pin is low, starvation, a tester slower than the next look | one pulse or two for a test, a bound on the most urgent answer, no starvation without need |
| Miniproject controller | mutex, semaphores, `controlActive`, the buffer, datagrams | `main`, `controller_func`, `recv_func`, `send_ack_func`, `control` | a mutex locked twice, datagrams lost or repeated, threads that wait for what never comes | the program starts, computes with the answer to its GET, and stops |
| Miniproject ring buffer | slots, head, tail, semaphore, mutex | `put_item_in_buffer`, `get_item_from_buffer` | several threads in it, indices that wrap, no check for a full buffer | a queue |
| Ex3 interrupts (AVR32) | test and response pins, interrupt flags, `isTestA..C` | `interrupt_J3`, main's loop | handler between any two steps of main, edges in the middle of an answer, one line delaying another | no edge lost, one pulse for each test, answered within a round |
| Ex2 dining philosophers | forks (mutexes), rounds, main's loops | `philFunc`, `main` | two trylocks and the unlocks they call for, life of the mutexes | neighbours exclude each other, legal use of the mutexes, no deadlock, everyone eats |
| Ex2 singleton, shared counter | pointer, members, semaphore; counter, registers | `getSingleton`, `singletonUser`; `incrementFunc`; `main` | a pointer published before the members; a data race in one of two builds | one instance, complete when it is seen; nothing lost with the semaphore |
| Ex1 array, busy-wait | indices, capacity, shared block; seconds and nanoseconds | `array_*`; `timespec_*`, `busy_wait` | copies after realloc, the end of the block; carry, borrow, a long compared as an int | behaves as a sequence; waits as long as it is told |

They interact inside each program only: by shared variables, semaphores and
mutexes (Ex2, Ex5, Ex7, miniproject), through an interrupt handler (Ex3), through
a scheduler (Ex4, Ex6, Ex7), and with an outside partner: the tester that pulls
pins low and times the answers (Ex3 to Ex6), and the miniproject's server.

The rest of the tree is the vendored AVR32 framework with FreeRTOS (nearly all of
its 90000 lines; the framework is there three times), exercise texts,
measurements and binaries. Of it only the scheduler is modelled. The calls the
programs make into the drivers, and into Xenomai and pthreads, which are not in
the tree, are modelled from how they are used.

## The modules

### XenoKernel, TaskA, TaskBC, TaskDE, Ex7: Ex7

`XenoKernel` is the slice of Xenomai's native skin that Ex7 uses: one CPU (every
task has `T_CPU(1)`), fixed priorities with preemption, `S_PRIO` semaphores with
broadcast, mutexes with priority inheritance, sleeps, deletion. A program is
data: `Prog[t]` is the list of calls of task `t` in the order of the source, and
each call is one action, the wake-ups and the rescheduling it causes included. As
the kernel is not in the repository, no property is about it alone: each says what
the calls of a program, in their order, make of it.
`TaskA`, `TaskBC` and `TaskDE` give the five programs as such lists; those lists
are what is translated from `main_task[A-E].c` (`main` is a task too), the
actions of `XenoKernel` are external. `Ex7` puts the five on one kernel and
starts one of them: `Mains` are the tasks that may have the CPU at first, and the
tasks of the other programs stay dormant.

A call takes no time. `Tick` passes time while the CPU busy-waits, loops or is
idle. `busy_wait_us(100000)` and `rt_task_sleep(100*1000*1000)` are both one unit
of the exercise text, `Unit` ticks. A sleep that is over makes its task ready
before or after the other calls of that instant and up to `Latency` ticks late,
so what is checked does not hang on wake-ups being exact. `inside` and `kept` are
history: what a task believes it holds, and how long it has been kept from
running.

Simplifications. Inheritance is one level deep: a chain of two would need a task
that holds one mutex and waits for a second whose owner waits as well, which
happens only in task D's deadlock, where nobody runs again. In task E the mutex
descriptors are copied into `resources[]`; a descriptor is a handle, so the
copies are modelled as the two mutexes they name. Creation is part of the
initial state and of `rt_task_start`. Printing is left out.

### TickTime, DelayLists, FreeRTOSTasks, FreeRTOS: the scheduler of Ex4

`TickTime` is the arithmetic on a tick count that runs from 0 to `portMAX_DELAY`
and over: the wake time of a delay, the comparisons of `vTaskDelayUntil`, the
time-outs of `xTaskCheckForTimeOut`.

`DelayLists` is what delays promise. Every sleeping task has a number of ticks
left, a count that does not overflow; it is in one of two sets, the wake
times of this round of the tick count and those of the next. Sets change places
when the tick count overflows. Ticks (`Elapse`) wake exactly the tasks with nothing
left; the one exception is `released`, tasks an event reached while the scheduler
was suspended (`Release`; those of `xPendingReadyList`), which wake before the ticks
that were missed. Whatever ends a wait otherwise (`Leave`: an event, a suspension, a
deletion) ends it for one task, and no tick passes in that step.

`FreeRTOSTasks` is the code of `tasks.c`, `list.c` and the AVR32 port in the
configuration of `FreeRTOSConfig.h` (preemption, time slicing, task deletion and
suspension; no mutexes, timers, hooks or co-routines): creation, deletion, delays,
priorities, suspension, events with a timeout, from tasks and from interrupts,
missed ticks, pending tasks, the idle task. A list is the sequence of its owners
beginning after `pxIndex`, so that insertion at the end and round-robin are
`Append` and a rotation. A critical section is one action. So is the part of
`vTaskDelay` and its like up to `xTaskResumeAll`, as an interrupt finds there
nothing it may touch; `xTaskResumeAll` is the next action and interrupts come
before it. `due` is history: how many ticks of the clock a task still has to
sleep. With it `Delays` maps `FreeRTOSTasks` to `DelayLists`, also over the time
in which ticks are only counted in `uxMissedTicks`. `FreeRTOS` has the instances
of it. Not modelled: a task that suspends the scheduler while it is suspended. No
call of the model does, so `uxSchedulerSuspended` is 0 or 1 and the test that it is
back at 0 (tasks.c:1179) always succeeds.

### ResponseTasks: Ex4

The three tasks of `main.c` on `FreeRTOSTasks`, in the version that is compiled,
and the tester of the pins. `Look`, `Rest` (which is `vTaskDelay(1)` of the
scheduler), the busy delay and the two writes of the response pin are one action
each. Time is what `busy_delay_ms` takes: a millisecond of it fills the time from
one tick to the next, everything else takes none, and the tester lets go of a pin
within a millisecond of the answer. The commented-out versions of the file are
variants.

### Philosophers: Ex2/dinPhil

The four loops of `main` (init, create, join, destroy) and a thread for each
philosopher, every pthread call a step. `fork[f]` is the philosopher that holds
the mutex, `Free`, or `Unusable` before init and after destroy. `meals` is
history: rounds in which the philosopher did eat, beside the code's `cntMeals`,
which counts every round.

### Singleton and OnceCell: Ex2/double_checked.c

`getSingleton` with each member's assignment a step and the pointer set before
the first of them. The outer check is commented out in the source (lines 33 and
51) and so it is here; with it the model shows the classical failure. `OnceCell`
is the promise: a cell filled once, with a complete instance, and everybody gets
that one. `Singleton` implements it with the cell mapped to the pointer once all
members are assigned, and to nothing before. `NULL` is 0.

### SharedCounter: Ex2/threads_semaphores

Both builds: `WITH_SEMAPHORE` is chosen in the initial state. Without it
`sharedVar++` is a data race; what a build can produce is a load, a number of
increments in a register (one, or more where the compiler merges turns of the
loop) and a store, in any interleaving.

### BigWhile: Ex3

Interrupt handling is deferred: the handler only sets variables, and one big
while loop in `main` answers. `flag` is the pin's interrupt flag, `isTest` the
variables, `response` the response pins. The handler runs between any two steps
of `main`, which goes on only when nothing is pending. The tester is the other
side: it pulls a pin low (`Begin`), lets it go when it sees the response
(`See`), or gives up (`Overflow`). Edges come at any moment, also while the
handler is between reading a flag, clearing it and setting the variable. On a
*patient* line the tester begins only when `main` is done with the test before;
other lines begin when they like. A pulse is long enough to be seen, as the
exercise text requires. The response pins start low: `main` configures them
without `GPIO_INIT_HIGH`, so they are low until the end of the first pulse.
`early` marks a test begun between the start of a pulse and the clearing of the
variable; such a test the code may wipe out, and only such a test.

### AnswerBuffer and AnswerQueue: miniproject ring buffer

`put_item_in_buffer` and `get_item_from_buffer`, one action for each statement,
any number of threads on both sides. An answer is the number of its put. Nothing
in the code looks whether the buffer is full, so the abstract `AnswerQueue` says
what follows: a queue as long as no more answers are outstanding than it has
room for; past that a put overwrites the answer `Capacity` places before it, the
get that was due for the old answer returns the new one, and so will its own.
The copy of both functions in `communication.c` is the same but that
`get_item_from_buffer` there has no `return`; `main.c` uses its own.

### Controller: miniproject/controller/main.c

`main`, the threads that control, receive and acknowledge, the mutex and the flag
`controlActive`, the semaphore of the acknowledges, and the server behind a
channel that keeps order, loses GETs and their answers (`Lose`) and repeats any
datagram (`Repeat`). The ring buffer is the queue that `AnswerBuffer` shows it to
be while it has room, and at most as many answers are under way as there are GETs
and repetitions, far fewer than 128.

The file does not compile as it is committed: mutexes are passed where pointers
are due, and `control()` uses names it does not declare. They are read as passed
by address and as the names of `controller_func`. Then two statements keep the
program from working, and `repairs` says which of them are put right: "unlock",
that `update_control_active` and `get_control_active` unlock the mutex where they
lock it a second time, and "match", that an answer is recognised by its beginning
and not by `strcmp` with `"GET_ACK:"`. The initial state has every choice; with
none of them it is the code as it is written.

### GrowingArray: Ex1/array

The indices `front` and `back` into a block that `realloc` enlarges, reserves of
any size that holds what is in use, and one copy made by `array_save`, which
copies the struct and not the block. `queue` is history, what callers have put
and not taken; `snapshot`, `lowest` and `moved` are the history of the copy: what
the array held then, how far `back` has come down since, and whether the block has
moved. A `realloc` may move the block or not. Callers keep to what the functions
take for granted: they do not pop from an empty array. Memory does not run out.

### BusyWait: Ex1/times1.c

`timespec_cmp`, `timespec_add`, `timespec_sub`, the loops of
`timespec_normalized` one turn at a time, and `busy_wait` on a clock that goes on
at any moment by any amount. `main` never assigns the nanoseconds of its delay,
so they are any number. The module has no run: nanoseconds and the width of an
int are beyond TLC, and the properties are proved for all numbers instead.

Operators called *variants* in comments are not part of any model: each is a
mistake one could make in that code (a dropped guard, a swapped order), kept
because putting it in the place of the real definition breaks a property of a
run, which shows that the property says something.

## The runs

| Run | Distinct states | What it shows |
|---|---:|---|
| `ex7` | 3339 | Tasks A, B, C: all tasks pass the barrier with the broadcast, none before it and none left behind (`BarrierHolds`, `StartTogether`). Tasks B, C: HIGH and LOW are never both at the resource (`OneAtTheResource`). Task B: MEDIUM runs while HIGH waits, and HIGH waits longer than LOW's critical section, however late the wake-ups (`ShowsInversion`). Task C: HIGH waits 3 units at most, MEDIUM 5 (`BoundedBlocking`). Task D always ends in its circular wait (`Deadlocks`). Task E: no lock ever waits, HIGH waits 5 units at most (`NeverWaits`, `CeilingBlocking`). Tasks B, C: objects are deleted only after use (`DeletedAfterUse`). All: the programs end (`ProgramsEnd`) |
| `freertos` | 124168 | the scheduler's lists agree with each other and with what tasks wait for; the running task is the most urgent; `FreeRTOSTasks` implements `DelayLists`: a tick wakes who is due then and nobody else; a task that is among the most urgent and keeps its priority keeps getting the processor |
| `event_order` | | a violation: see the findings |
| `response_tasks` | 153484 | at most two pulses for a test; A's tests are answered within three ticks; every test is answered if the more urgent lines are quiet |
| `controller` | 182435 | where the committed program stops and where each repair takes it; the answer control() computes with is that to its GET, older only by what was repeated; one lost GET or answer stops control for ever; with both repairs and nothing lost the simulation is run to its end, and then the program ends or hangs in one of three named ways |
| `answer_buffer` | 51004 | the buffer implements `AnswerQueue`, with and without room |
| `big_while` | 76962 | a test is noticed and kept unless it began early; one pulse for each test, within one round; patient lines are always answered |
| `philosophers` | 15350 | neighbours exclude each other, unlocks are legal, mutexes exist while used, every fork comes back, main exits |
| `philosophers_meals` | | a violation: see the findings |
| `singleton` | 1216 | members complete when read; refinement of `OnceCell`; the program exits |
| `shared_counter` | 13032 | exact with the semaphore; without it at least 2 of the increments remain; both builds end |
| `growing_array` | 264400 | the array is the sequence callers put into it; a copy keeps showing what it was made of until the block moves, but for what was popped at the back |

### Bounds

- Ex7: `Unit` 4 and `Latency` 3: wake-ups at every tick before the next unit
  begins. Within a unit every order of calls of one instant and every lateness of
  two sleepers relative to each other occurs; more ticks refine the grid and add
  no order. A latency of a unit or more would not be a working real-time system:
  task D, say, would no longer deadlock.
- FreeRTOS: two tasks and the idle task, two priorities, `MaxDelay` 3, so a tick
  count of four values that overflows over and over in every state of the lists,
  and delays longer and shorter than what is left to the overflow; `MaxMissed` 2,
  so two ticks are made up for in one `xTaskResumeAll`. Three lists can hold two
  tasks in either order. `event_order` has three tasks, the least that show it,
  and `MaxDelay` 1.
- ResponseTasks: the three tasks and four priorities of the source; `MaxDelay` 1,
  as each delay is one tick; `MaxWait` 4, one more than the bound it checks.
- Controller: 2 GETs (one in each half, or two in one), 1 SIGNAL, 1 datagram lost
  and 1 repeated: an answer older by one, a loss made good by a repetition, and
  each hang at the end happen.
- GrowingArray: 2 values, a block of 1 word and 4 insertions, so it is enlarged
  twice and more, with reserves between.
- Philosophers: 3, with 2 rounds each. With 3 a philosopher's left and right
  neighbour are different and a circle of waits is possible; with 2 rounds a
  fork is taken again after it came back. The source has 5 and 10.
- Singleton: 4 threads, so several wait while one builds and others come after.
- SharedCounter: 4 iterations, enough for a stale store to wipe out the other
  thread's whole work and for its last load to precede that store. The source
  has 50000000.
- BigWhile: the three lines of the code, 1 and 3 patient and 2 not. All lines
  run the same code.
- AnswerBuffer: 3 slots, up to 5 answers outstanding, so the tail laps the head,
  7 puts so that both indices pass the end of the buffer twice, 2 threads on each
  side. The source has 128 slots; `Puts` and `InFlight` are bounds of the model
  (guards of `Receive`), not of the code.

### Fairness

Each thread of Ex2 goes on while it can (WF for each): the operating system runs
them. Nothing is assumed of the order in which a semaphore or mutex lets threads
through. In Ex7 `WF_vars(Next)` says that the CPU and the timer do not stop;
which task runs is never left to fairness, it is the scheduler's doing. The same
holds of FreeRTOS and ResponseTasks, which assume only that the clock goes on
(the tick count changes again and again): that a task gets on is the scheduler's
doing. In BigWhile the handler and the tester's look at the response pin are
weakly fair; the main loop is strongly fair, as edges keep interrupting it, and
edges are not so frequent that it is interrupted for ever (`[]<>Uninterrupted`):
no program on that processor could do anything about such a train of edges. In
Controller the server and main are weakly fair, the three other threads strongly:
they contend for one mutex, two of them by asking for it again and again, and the
operating system lets each have it in the end. Nothing is assumed of the network.
AnswerBuffer, GrowingArray and BusyWait have no liveness.

Deadlock is not checked where the system really stops: programs that end, task
D, which ends in its deadlock, tasks D and E, whose main sleeps for ever, the
buffer, which is empty or at the bound of its puts, and the controller, which
ends, hangs, or blocks itself as committed. It is checked in BigWhile, FreeRTOS,
ResponseTasks and GrowingArray.

## The findings

- `philosophers_meals`: "every philosophers will have a specified number of
  meals" (dinPhil/main.c:21). `cntMeals++` counts rounds in which a trylock
  failed, so a philosopher may finish without having eaten.
- `event_order`: a task that waits for an event "is placed in the list in
  priority order so the highest priority task is the first to be woken by the
  event" (tasks.c:1744). `vTaskPrioritySet` (tasks.c:875) changes the value of
  the waiting task's event item and leaves it where it is in the list, so after
  it the event may wake a less urgent task first. No program here meets it: the
  tasks of Ex4 wait for no event.

## The proofs

For every value of the constants the named ASSUME of each module allows. What
they ask is what the source has: at least one task or thread, positive bounds,
in `FreeRTOSTasks` that main creates no task twice and gives each a priority
below `configMAX_PRIORITIES`, in `TaskA`, `TaskBC` and `TaskDE` that the tasks of `Prog`
with their names are those of the program (`Prog` being data) and that no other
program uses the objects of A, B and C or starts the tasks of any of A, B, C and E. How late
wake-ups are is left open, but for a bound on it where a theorem states one. The
proofs of safety have the same course: an inductive invariant,
that it holds initially, that every step keeps it (a lemma for each actor, call
or kernel function) and that it implies the property.

| Module | About | Theorems that state properties of the runs |
|---|---|---|
| `Ex7Proofs` | XenoKernel, TaskA, TaskBC, TaskDE | `BarrierOfA`, `AllStartTogether`, `NeverBothAtTheResource`, `DeletedWhenGone`, `BlockingBounded`, `CeilingNeverWaits`, `CeilingBounds` |
| `FreeRTOSProofs` | FreeRTOSTasks, ResponseTasks | `ListsStayConsistent`, `UrgentRuns`, `DelaysImplemented`, `TestsRunByUrgency`, `TwoPulsesAtMost`, `AnsweredWithinThree` |
| `DelayListsProofs` | TickTime, DelayLists | |
| `MiniprojectProofs` | AnswerBuffer, Controller | `Refinement`, `ControlStops`, `AnswerIsRecent`, `LossIsFatal` |
| `BigWhileProofs` | BigWhile | `Noticed`, `InTurn`, `NoPulseUnasked` |
| `PhilosophersProofs` | Philosophers | `Exclusion`, `UnlocksAreSafe`, `MutexLifetime` |
| `Ex2Proofs` | Singleton, SharedCounter | `CompleteWhenPrinted`, `Refinement`, `SemaphoreExact`, `RaceKeepsTwo` |
| `Ex1Proofs` | GrowingArray, BusyWait | `Contents`, `CopiesStay` |

`Ex7Proofs`. The invariant `IInv` of the kernel is a lemma (`Invariance`), for every
program, priority, tick and latency: types, that a waiting task stands at the call it
waits in (`Waiting`), and that the CPU is with a most urgent ready task
(`Scheduled`). The theorems are about the programs and rest on it.
`BarrierOfA`: up to the broadcast (`GatheringA`) main starts the two and sleeps, and
as it gives up the processor for at least one tick of its sleep and they are the only
others, both wait before that tick can pass; so the broadcast finds both, and all are
past the barrier from there (`OpenA`). It needs no bound on how late main wakes up.
`CeilingNeverWaits`: in task E who holds a mutex runs at the ceiling
(`Ceiling`), so of main and the two tasks only one can be past its lock
(`OnlyE`), and as the processor does not leave it before it unlocks, a second
locker finds the mutex free; the other programs' tasks stay dormant
(`OtherThanE`). `CeilingBounds` adds a clock account (`InTimeE`): how long HIGH
has been kept from running is what LOW has used of its time at the ceiling.
`DeletedWhenGone` and `BlockingBounded` are about tasks B and C, whose proofs are
one, for a program `p` and its resource. The invariant `IInvBC` follows the program
through three phases: the tasks come to the barrier (`Gathering`), work while main
sleeps its 20 units (`Working`), and main deletes what they used (`Finishing`). In
the second it says at which call each of the three can be after which part of
main's sleep, who has the resource, and that what the three have left to spin and
what main has slept make no more than 12 units and one lateness, until they have
returned (`InTimeOf`): nobody sleeps any more after 2 units and one lateness, so
every tick from there is one of their 10 units of spinning. So main finds them gone
unless its wake-ups are 8 units late or more, which `DeletedWhenGone` excludes
(`Latency < 8 * Unit`; at the code's 100 ms, 0.8 s). `AllStartTogether` and
`NeverBothAtTheResource` go beside it: `Together` says at every call of the three
whether main has broadcast, `AtResource` that who believes to be at the resource has
B's only unit or owns C's mutex. Both have the same bound, and the second needs it: a
call on a deleted object returns at once and lets its caller in. `BlockingBounded`
adds what HIGH and MEDIUM can still be kept waiting by: HIGH by the rest of LOW's section, as
LOW runs when HIGH waits for its mutex (`WhoRuns`), MEDIUM by what the two others
have left to spin. Before the barrier opens both wait for main's sleep of a unit,
however late it ends, so a lateness of more than 2 units would break the 3 of HIGH:
the theorem has `Latency <= 2 * Unit`.

`FreeRTOSProofs`. The invariant `IInv` of `KernelInvariance` has three parts.
`Sound(k)` is about the lists alone: each task in one list of a kind at most and
once, the delayed lists in the order of wake times, ready lists by priority,
`uxTopReadyPriority` no lower than any of them, the idle task ready. Every function
of `tasks.c` keeps it, and what it does besides is said in a lemma of its own
(`UnblockAllKeeps`, `CheckKeeps`, `UnwindKeeps`, `SwitchKeeps`, ...).
`EventsAsleep` says that whoever waits for an event sleeps or is suspended.
`Controlled` ties the lists to the points the tasks have reached: with the
scheduler working nothing is put off, and the task that runs is most urgent or
about to yield; with it suspended only that task is in a call. Without
`Controlled`, `MostUrgentRuns` is not inductive: after a call that makes a task
ready while the scheduler is suspended it rests on `xMissedYield`. The loops of
the kernel, over the heads of a list and over missed ticks, are recursive
functions on numbers, and what holds of them up to every number is proved by
looking at the least number of which it does not (`LeastNat`, `InductionUpTo`).
`TestsRunByUrgency` shows that a step of ResponseTasks is one FreeRTOSTasks
allows. `TwoPulsesAtMost` needs where a task may be when its line has been
answered once or twice already (`PulseInv`). One thing the proof found: a CASE of
`ResumeAll` had guards that overlapped, which TLC resolves by their order and
TLA+ does not; they are disjoint now.

`DelaysImplemented` is the refinement `ImplementsDelays`. Its invariant `Timed` says
that the delayed lists mean of the kernel what they are proved to mean of
DelayLists, that no wake time is left behind, and that the sleepers in
`xPendingReadyList` are those released. A call is then a `DelayFor`, a `Leave` or a
`Release`, the tick interrupt an `Elapse` of one tick in which nobody is released,
and a resumption one of all the ticks that were missed. What is taken off the lists is
always said: the pending tasks by the resumption, one task by a call, and nobody by a
tick but those who are due.

`AnsweredWithinThree` assumes of the constants what makes the test of line A the
first of all (`FirstOfAll`): it is created, its priority is above 0 and above every
other, and the bound is 4 at least. Task A then runs unless it sleeps, even while
the scheduler is suspended (`Calm`), and sleeps to the next tick at most (`Naps`);
no interrupted task works on while ticks are missed. `AnswerInv` is an account
kept from those: `TicksLeft` says for each point of the test how many ticks may
still pass before the answer, and the wait so far and that make 3 at most.

`DelayListsProofs`, for every set of tasks and every size of the tick count:
`DelayUntilExact` and `TimeOutExact` (arithmetic over the overflow, the second
with the proviso that the count overflows once at most during the wait),
`WokenOnTime` and `ListsMeanTime`. The invariant is what the two lists say of
the ticks each task has left (`ListsMeanWhatTheySay`), which is what makes one
comparison with the tick count enough. That `FreeRTOSTasks` implements `DelayLists`
is `DelaysImplemented` above.

`MiniprojectProofs`. The buffer, for every length, any number of threads and
answers: `TypeCorrect` and `Refinement`, `Spec` implies `AnswerQueue`'s.
`Counted` says that the semaphore and the threads on their way count the
answers in the buffer, so no getter reads where nothing was put; `Laps` that
the indices are the remainders of what was stored and taken, which with some
arithmetic of `%` says which answer is in which slot, whether or not the tail
has lapped the head. The controller, for every number of GETs, losses and
repetitions: `ControlIInv` says for each choice of repairs who can hold the
mutex (`Unrepaired`, `Unmatched`) and which threads exist (`NotYetCreated`),
that GETs, answers and semaphore balance (`Balance`), and how old each answer
under way may be (`Ages`), from which the three theorems follow.

`BigWhileProofs`, for any number of lines, patient or not. The invariant is
`NoticedUnlessEarly` with three parts. `Order`: in the middle of an answer main
has not cleared the variable yet, a test that waits at the end of the pulse began
in it, and the handler clears only a flag that is set. `Behind`: a line that was
answered since a test began, and once at most, lies behind that test in main's
round (`Ahead` counts the lines before it), which is what bounds the wait by a
round. `Punctual`: a patient line never begins early, and what is flagged or noted
of it is a test.

`PhilosophersProofs`, for any number of philosophers from two and any number
of rounds: `TypeCorrect`, `Exclusion`, `UnlocksAreSafe`, `MutexLifetime`. The
property alone is not inductive: `HeldBy` says that a fork is held only by its
philosopher or by the one that eats with it, `Phases` what main's loops have
done so far, `Counts` bounds the rounds.

`Ex2Proofs`. `getSingleton()`, for any number of threads: `TypeCorrect`,
`CompleteWhenPrinted`, `BuiltOnce`, and `Refinement`: `Spec` implies
`OnceCell`'s. `Built` says which members are assigned when the thread inside
the semaphore is at which step, `Returned` that a thread past it sees the
complete instance. The counter, for any number of iterations: `CounterTypes`,
`SemaphoreExact`, and `NoIncrementInvented` for both builds. `Alternating` (one
thread inside, and the semaphore 0, when it is used) makes the register current
(`Registers`), which makes the count exact at every step (`Exact`).
`RaceKeepsTwo`: a register of 0 was loaded by a thread that has made no turn yet,
which therefore stores all its turns or has turns left to make (`Survives`).

`Ex1Proofs`. The array, for every capacity and sequence of calls: `Contents` and
`CopiesStay`. The property is not inductive alone; `Indices` adds where `front`,
`back` and the copy's indices may be in the block. Times, for all numbers:
`SumsAdd`, `OneTurn`, `ComparisonAgrees` (a difference of nanoseconds keeps its
sign in an int, as both are normalized), `NormalizationTerminates` (every turn
brings the nanoseconds nearer to their range), `WaitIsLongEnough`, by an
invariant that says what `then` stands for.

Only model-checked:

- all liveness, as `ENABLED` and fairness are out of the prover's reach:
  `ShowsInversion` and `Deadlocks` of Ex7, `FairShareOfSecond` of FreeRTOS, `Answered`
  of ResponseTasks, and that the programs end or go on;
- `MostUrgentFirst` and the meals of the philosophers, which do not hold.

## Not modelled

- Ex5 and Ex6. What matters of their threads is when Linux runs a polling and a
  periodic thread, and how Xenomai counts missed periods; neither is in the
  repository, and a model would show only what it assumed of them. Their timespec
  arithmetic is BusyWait's.
- FreeRTOS' queues, timers and co-routines, which no program here calls (the list
  of tasks waiting at a queue is in FreeRTOSTasks); its statistics and trace
  functions, hooks, and mutexes with inheritance, which are not configured;
  the end of the scheduler, which never returns on this port.
- The AVR32 framework: drivers for USB, pins, interrupts and clocks. The programs
  reach them by calls that set or read a pin or a flag.
- Ex3's course template (an empty handler), Ex1's measurements (durations and
  sizes), `times2.c`, which waits for processor time.
- The miniproject's server, a binary; Controller has what its messages show.
- Failures of malloc, pthread_create and the other calls whose results the
  programs ignore.
- The `init()` functions of Ex3 and Ex4, folded into initial states, and the
  alternatives in comments.
- Durations other than those of Ex4 and Ex7: the sleeps of the philosophers set
  no order, and the delays in Ex3 matter only in that a pulse is seen.

## The plan

Done, in this order: XenoKernel with tasks A to E and its proofs; Philosophers;
SharedCounter; Singleton with its refinement; BigWhile; AnswerBuffer; the
scheduler with its refinement and the proofs about delays; ResponseTasks;
Controller; GrowingArray and BusyWait with their proofs; the refinement proof of
AnswerBuffer; the proofs of tasks A, B, C and E, BigWhile, Controller and the scheduler,
that the scheduler implements DelayLists, and that line A is answered in time.

Left:

1. FreeRTOS' queues, on the event list that FreeRTOSTasks has, should a program
   come to use them.
2. Ex5 and Ex6, given the scheduling they rely on.
