--------------------------------- MODULE Ex7 ---------------------------------
(***************************************************************************)
(* The five programs of Ex7 on the kernel of XenoKernel.  Any one of them  *)
(* is started; the tasks of the other four stay dormant.                   *)
(***************************************************************************)
EXTENDS TaskA, TaskBC, TaskDE, TLC

MainsEx7 == {"mainA", "mainB", "mainC", "mainD", "mainE"}
TasksEx7 == MainsEx7 \cup WorkersA \cup WorkersB \cup WorkersC \cup WorkersD \cup WorkersE
SemInitEx7 == SemInitA @@ SemInitB @@ SemInitC @@ SemInitDE
SemsEx7 == DOMAIN SemInitEx7
MutexesEx7 == MutexesC \cup MutexesDE
ProgEx7 == ProgA @@ ProgB @@ ProgC @@ ProgD @@ ProgE
PriorityEx7 == PriorityA @@ PriorityBC @@ PriorityD @@ PriorityE

(* Every program comes to the end it has: A, B and C to the exit of the    *)
(* process, E to the end of both its tasks.                                *)
ProgramsEnd == ExitsA /\ ExitsBC /\ BothFinish
=============================================================================
