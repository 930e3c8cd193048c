---------------------------- MODULE AnswerBuffer ----------------------------
(***************************************************************************)
(* miniproject/controller: the ring buffer through which the thread that   *)
(* receives hands the answers of the server to the thread that controls.   *)
(* put_item_in_buffer() and get_item_from_buffer() are in main.c 67-94 and *)
(* again in communication.c 65-91.  A semaphore counts the answers, a      *)
(* mutex is around the slots and indices, and nothing counts free slots.   *)
(*                                                                         *)
(* An answer is the number of its put; 0 is a slot malloc left as it was.  *)
(* InFlight is the most answers the server has under way or in the buffer. *)
(* control() asks for one at a time, a datagram that arrives twice makes   *)
(* it more.  Puts bounds a run.                                            *)
(***************************************************************************)
EXTENDS Naturals, Sequences, FiniteSets

CONSTANTS Putters, Getters, BUF_LEN, InFlight, Puts

Threads == Putters \cup Getters
Slots == 0 .. BUF_LEN - 1
Nobody == "nobody"

ASSUME AnswerBufferAssumption ==
  /\ BUF_LEN \in 1 .. 255   \* head and tail are uint8_t
  /\ InFlight \in Nat \ {0}
  /\ Puts \in Nat
  /\ IsFiniteSet(Threads) /\ Nobody \notin Threads
  /\ Putters \cap Getters = {}

VARIABLES
  buffer, head, tail, \* *ringBuf
  mtxBuffer,          \* the thread that holds it, or Nobody
  semaCntYVal,        \* its count
  at,                 \* at[t]: the next step of thread t
  val,                \* val[g]: val in get_item_from_buffer
  \* not in the code
  stored,             \* the number of answers stored so far
  taken               \* the answers read from the buffer, in that order

vars == <<buffer, head, tail, mtxBuffer, semaCntYVal, at, val, stored, taken>>

Inside == {"store", "advance_tail", "unlock_put", "load", "advance_head", "unlock_get"}

(* The indices stay in the buffer, and one thread at most is between       *)
(* pthread_mutex_lock and pthread_mutex_unlock: the one that holds it.     *)
TypeOK ==
  /\ stored \in Nat
  /\ buffer \in [Slots -> 0 .. stored]
  /\ head \in Slots /\ tail \in Slots
  /\ mtxBuffer \in Threads \cup {Nobody}
  /\ semaCntYVal \in 0 .. stored
  /\ at \in [Threads -> Inside \cup {"call", "lock_put", "post", "wait", "lock_get"}]
  /\ val \in [Getters -> 0 .. stored]
  /\ taken \in Seq(0 .. stored)
  /\ {t \in Threads : at[t] \in Inside} = {mtxBuffer} \ {Nobody}

(* main 284-288; the mutex is static and free.                             *)
Init ==
  /\ buffer = [s \in Slots |-> 0]
  /\ head = 0 /\ tail = 0
  /\ mtxBuffer = Nobody
  /\ semaCntYVal = 0
  /\ at = [t \in Threads |-> IF t \in Putters THEN "call" ELSE "wait"]
  /\ val = [g \in Getters |-> 0]
  /\ stored = 0
  /\ taken = <<>>

Go(t, from, to) ==
  /\ at[t] = from
  /\ at' = [at EXCEPT ![t] = to]

Lock(t, from, to) ==
  /\ Go(t, from, to)
  /\ mtxBuffer = Nobody
  /\ mtxBuffer' = t
  /\ UNCHANGED <<buffer, head, tail, semaCntYVal, val, stored, taken>>

Unlock(t, from, to) ==
  /\ Go(t, from, to)
  /\ mtxBuffer' = Nobody
  /\ UNCHANGED <<buffer, head, tail, semaCntYVal, val, stored, taken>>

-----------------------------------------------------------------------------
Outstanding == stored - Len(taken)
Storing == {p \in Putters : at[p] \in {"lock_put", "store"}}

(* put_item_in_buffer is called: an answer has arrived.                    *)
Receive(p) ==
  /\ Outstanding + Cardinality(Storing) < InFlight
  /\ stored + Cardinality(Storing) < Puts
  /\ Go(p, "call", "lock_put")
  /\ UNCHANGED <<buffer, head, tail, mtxBuffer, semaCntYVal, val, stored, taken>>

LockPut(p) == Lock(p, "lock_put", "store")

Store(p) ==
  /\ Go(p, "store", "advance_tail")
  /\ stored' = stored + 1
  /\ buffer' = [buffer EXCEPT ![tail] = stored']
  /\ UNCHANGED <<head, tail, mtxBuffer, semaCntYVal, val, taken>>

(* A variant: the last slot left out of the ring.                          *)
AdvanceTailShort(p) ==
  /\ Go(p, "advance_tail", "unlock_put")
  /\ tail' = (tail + 1) % (BUF_LEN - 1)
  /\ UNCHANGED <<buffer, head, mtxBuffer, semaCntYVal, val, stored, taken>>

AdvanceTail(p) ==
  /\ Go(p, "advance_tail", "unlock_put")
  /\ tail' = (tail + 1) % BUF_LEN
  /\ UNCHANGED <<buffer, head, mtxBuffer, semaCntYVal, val, stored, taken>>

UnlockPut(p) == Unlock(p, "unlock_put", "post")

Post(p) ==
  /\ Go(p, "post", "call")
  /\ semaCntYVal' = semaCntYVal + 1
  /\ UNCHANGED <<buffer, head, tail, mtxBuffer, val, stored, taken>>

-----------------------------------------------------------------------------
Wait(g) ==
  /\ Go(g, "wait", "lock_get")
  /\ semaCntYVal > 0
  /\ semaCntYVal' = semaCntYVal - 1
  /\ UNCHANGED <<buffer, head, tail, mtxBuffer, val, stored, taken>>

LockGet(g) == Lock(g, "lock_get", "load")

Load(g) ==
  /\ Go(g, "load", "advance_head")
  /\ val' = [val EXCEPT ![g] = buffer[head]]
  /\ taken' = Append(taken, buffer[head])
  /\ UNCHANGED <<buffer, head, tail, mtxBuffer, semaCntYVal, stored>>

AdvanceHead(g) ==
  /\ Go(g, "advance_head", "unlock_get")
  /\ head' = (head + 1) % BUF_LEN
  /\ UNCHANGED <<buffer, tail, mtxBuffer, semaCntYVal, val, stored, taken>>

(* The return of val and the next call come with the unlock.               *)
UnlockGet(g) == Unlock(g, "unlock_get", "wait")

-----------------------------------------------------------------------------
put_item_in_buffer(p) ==
  Receive(p) \/ LockPut(p) \/ Store(p) \/ AdvanceTail(p) \/ UnlockPut(p) \/ Post(p)

get_item_from_buffer(g) ==
  Wait(g) \/ LockGet(g) \/ Load(g) \/ AdvanceHead(g) \/ UnlockGet(g)

Next ==
  \/ \E p \in Putters : put_item_in_buffer(p)
  \/ \E g \in Getters : get_item_from_buffer(g)

Spec == Init /\ [][Next]_vars

-----------------------------------------------------------------------------
(* The answers the gets to come find: an answer is taken when it is read,  *)
(* head follows a step later.                                              *)
First == IF \E g \in Getters : at[g] = "advance_head" THEN head + 1 ELSE head

Queue == INSTANCE AnswerQueue WITH
  Capacity <- BUF_LEN,
  queue <- [k \in 1 .. Outstanding |-> buffer[(First + k - 1) % BUF_LEN]]

(* The buffer implements AnswerQueue: with room for the answers that are   *)
(* outstanding each is got once and in order, and without it the missing   *)
(* check for a full buffer costs the answers that are overwritten, and     *)
(* never the order of laps or the count.                                   *)
ImplementsQueue == Queue!Spec
=============================================================================
