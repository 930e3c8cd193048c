------------------------------ MODULE OnceCell ------------------------------
(***************************************************************************)
(* What getSingleton() of Ex2/double_checked.c promises its users: there   *)
(* is one instance, it appears complete, and everyone who gets an instance *)
(* gets that one.                                                          *)
(***************************************************************************)
CONSTANTS
  Users,      \* the threads that call getSingleton()
  Instances,  \* what a pointer to a singleton may be
  Null        \* no pointer yet; not in Instances

VARIABLES
  cell,  \* the complete instance, or Null before there is one
  got    \* got[u]: what getSingleton() has returned to u, or Null

Init ==
  /\ cell = Null
  /\ got = [u \in Users |-> Null]

(* The instance is complete.                                               *)
Fill ==
  /\ cell = Null
  /\ cell' \in Instances
  /\ UNCHANGED got

(* getSingleton() returns to u.                                            *)
Get(u) ==
  /\ cell # Null /\ got[u] = Null
  /\ got' = [got EXCEPT ![u] = cell]
  /\ UNCHANGED cell

Next == Fill \/ \E u \in Users : Get(u)

Spec == Init /\ [][Next]_<<cell, got>>
=============================================================================
