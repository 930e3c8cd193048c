---------------------------- MODULE AnswerQueue -----------------------------
(***************************************************************************)
(* What the ring buffer of miniproject/controller does for its users: the  *)
(* answers put into it are got in the order they were put, each once, as   *)
(* long as no more wait than there is room for.  A put that finds no room  *)
(* is not refused: the answer Capacity places before it is lost, and the   *)
(* get it was for returns the new one, as will the get in turn.            *)
(***************************************************************************)
EXTENDS Naturals, Sequences

CONSTANTS
  Getters,  \* the threads that call get_item_from_buffer()
  Capacity  \* how many answers there is room for

VARIABLES
  queue,  \* what the gets to come return; an answer is its number
  stored, \* the number of answers put
  val     \* val[g]: the answer getter g got last, 0 before the first

Init ==
  /\ queue = <<>>
  /\ stored = 0
  /\ val = [g \in Getters |-> 0]

Put ==
  /\ stored' = stored + 1
  /\ queue' = [k \in 1 .. Len(queue) + 1 |->
                IF (Len(queue) + 1 - k) % Capacity = 0 THEN stored' ELSE queue[k]]
  /\ UNCHANGED val

Get(g) ==
  /\ queue # <<>>
  /\ val' = [val EXCEPT ![g] = Head(queue)]
  /\ queue' = Tail(queue)
  /\ UNCHANGED stored

Next == Put \/ \E g \in Getters : Get(g)

Spec == Init /\ [][Next]_<<queue, stored, val>>
=============================================================================
