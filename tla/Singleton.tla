----------------------------- MODULE Singleton ------------------------------
(***************************************************************************)
(* Ex2/double_checked.c: threads call getSingleton(), which builds the     *)
(* instance member by member on the first call.  A semaphore of count 1  *)
(* is around the test and the building; the pointer is read for the return *)
(* after the semaphore has been given back.                                *)
(***************************************************************************)
EXTENDS Naturals, Sequences

CONSTANT NumThreads

ASSUME SingletonAssumption == NumThreads \in Nat \ {0}

Users == 1 .. NumThreads
Members == {"a", "b", "c", "d"}
Null == 0

VARIABLES
  mainAt,     \* create, join or exit
  i,          \* main's index in its loop
  initSem,    \* g_singletonInitSem
  pointer,    \* g_singleton: Null, or the index of an instance in heap
  heap,       \* the instances malloc has returned, each the set of its
              \* members that have been assigned
  at,         \* at[u]: the next step of thread u
  got         \* got[u]: s in singletonUser

vars == <<mainAt, i, initSem, pointer, heap, at, got>>

Critical == {"test", "malloc", "a", "b", "c", "d", "post"}
Steps == {"new", "wait", "return", "print", "finished"} \cup Critical

TypeOK ==
  /\ mainAt \in {"create", "join", "exit"}
  /\ i \in Users
  /\ initSem \in {0, 1}
  /\ heap \in Seq(SUBSET Members)
  /\ pointer \in 0 .. Len(heap)
  /\ at \in [Users -> Steps]
  /\ got \in [Users -> 0 .. Len(heap)]

Init ==
  /\ mainAt = "create" /\ i = 1
  /\ initSem = 1
  /\ pointer = Null
  /\ heap = <<>>
  /\ at = [u \in Users |-> "new"]
  /\ got = [u \in Users |-> Null]

-----------------------------------------------------------------------------
Turn(here, next) ==
  /\ mainAt = here
  /\ IF i < NumThreads
     THEN i' = i + 1 /\ mainAt' = here
     ELSE i' = 1 /\ mainAt' = next

CreateThread ==
  /\ Turn("create", "join")
  /\ at' = [at EXCEPT ![i] = "wait"]
  /\ UNCHANGED <<initSem, pointer, heap, got>>

JoinThread ==
  /\ at[i] = "finished"
  /\ Turn("join", "exit")
  /\ UNCHANGED <<initSem, pointer, heap, at, got>>

-----------------------------------------------------------------------------
Go(u, from, to) ==
  /\ at[u] = from
  /\ at' = [at EXCEPT ![u] = to]
  /\ UNCHANGED <<mainAt, i>>

(* A variant: the double-checked locking the comments in lines 33 and 51   *)
(* leave out.                                                              *)
SemWaitDoubleChecked(u) ==
  /\ IF pointer # Null
     THEN Go(u, "wait", "return") /\ UNCHANGED initSem
     ELSE initSem > 0 /\ initSem' = initSem - 1 /\ Go(u, "wait", "test")
  /\ UNCHANGED <<pointer, heap, got>>

SemWait(u) ==
  /\ initSem > 0
  /\ initSem' = initSem - 1
  /\ Go(u, "wait", "test")
  /\ UNCHANGED <<pointer, heap, got>>

Test(u) ==
  /\ Go(u, "test", IF pointer = Null THEN "malloc" ELSE "post")
  /\ UNCHANGED <<initSem, pointer, heap, got>>

(* g_singleton points to the new instance before its members are assigned. *)
Malloc(u) ==
  /\ Go(u, "malloc", "a")
  /\ heap' = Append(heap, {})
  /\ pointer' = Len(heap) + 1
  /\ UNCHANGED <<initSem, got>>

Assign(u, m, next) ==
  /\ Go(u, m, next)
  /\ heap' = [heap EXCEPT ![pointer] = @ \cup {m}]
  /\ UNCHANGED <<initSem, pointer, got>>

AssignMembers(u) ==
  Assign(u, "a", "b") \/ Assign(u, "b", "c") \/ Assign(u, "c", "d") \/ Assign(u, "d", "post")

(* A variant: the unit not given back.                                     *)
SemPostGivingNothing(u) ==
  /\ Go(u, "post", "return")
  /\ UNCHANGED <<initSem, pointer, heap, got>>

SemPost(u) ==
  /\ Go(u, "post", "return")
  /\ initSem' = initSem + 1
  /\ UNCHANGED <<pointer, heap, got>>

Return(u) ==
  /\ Go(u, "return", "print")
  /\ got' = [got EXCEPT ![u] = pointer]
  /\ UNCHANGED <<initSem, pointer, heap>>

(* singletonUser prints the members of what it got.                        *)
PrintMembers(u) ==
  /\ Go(u, "print", "finished")
  /\ UNCHANGED <<initSem, pointer, heap, got>>

-----------------------------------------------------------------------------
Main == CreateThread \/ JoinThread

User(u) ==
  \/ SemWait(u) \/ Test(u) \/ Malloc(u) \/ AssignMembers(u) \/ SemPost(u)
  \/ Return(u) \/ PrintMembers(u)

Next == Main \/ \E u \in Users : User(u)

(* Every thread goes on while it can.  Each waits for the semaphore once,  *)
(* so that nobody can be overtaken for ever.                               *)
Spec == Init /\ [][Next]_vars /\ WF_vars(Main) /\ \A u \in Users : WF_vars(User(u))

-----------------------------------------------------------------------------
(* Nobody reads a member that has not been assigned (line 62).             *)
PrintsComplete == \A u \in Users : at[u] = "print" => got[u] # Null /\ heap[got[u]] = Members

(* The instance is allocated once, so none leaks and none is lost.         *)
OneInstance == Len(heap) <= 1

(* Everyone gets the instance and main exits.                              *)
ProgramExits == <>(mainAt = "exit" /\ \A u \in Users : got[u] # Null)

(* getSingleton implements OnceCell: the cell is filled by the assignment  *)
(* of the last member (line 47).                                           *)
Complete == pointer # Null /\ heap[pointer] = Members

Once == INSTANCE OnceCell
  WITH Instances <- Nat \ {0}, cell <- IF Complete THEN pointer ELSE Null

ImplementsOnce == Once!Spec
=============================================================================
