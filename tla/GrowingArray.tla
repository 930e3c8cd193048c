---------------------------- MODULE GrowingArray ----------------------------
(***************************************************************************)
(* The array of Ex1 (array/array.c): indices front and back into a block   *)
(* that realloc() enlarges when back reaches its end, and copies that      *)
(* array_save() makes of the struct and not of the block.                  *)
(*                                                                         *)
(* Callers keep to what the functions take for granted: they pop and read  *)
(* only from an array that is not empty, and reserve no less than is in    *)
(* use.  Memory does not run out.                                          *)
(***************************************************************************)
EXTENDS Integers, Sequences

CONSTANTS
  Value,
  Junk,      \* what a word of memory holds that has not been written
  Capacity,  \* the capacity the array is created with
  MaxBack    \* bound of the model on what is ever inserted

ASSUME ArrayAssumption ==
  /\ Junk \notin Value
  /\ Capacity \in Nat \ {0}
  /\ MaxBack \in Nat

VARIABLES
  data, front, back, capacity,   \* the Array
  queue,      \* history: what is in it, as callers see it
  saved,      \* the indices of a copy made by array_save
  snapshot,   \* history: what was in the array then
  lowest,     \* history: the least value of back since then
  moved       \* the block has been moved since then, and the copy's freed

array == <<data, front, back, capacity>>
copy  == <<saved, snapshot, lowest, moved>>
vars  == <<array, queue, copy>>

Word == Value \cup {Junk}

TypeOK ==
  /\ front \in Nat /\ back \in Nat /\ capacity \in Nat
  /\ data \in [0 .. capacity - 1 -> Word]
  /\ queue \in Seq(Value) /\ snapshot \in Seq(Value)
  /\ saved \in [front : Nat, back : Nat]
  /\ lowest \in Nat /\ moved \in BOOLEAN

(* array_new, and a copy made at once.                                     *)
Init ==
  /\ data = [i \in 0 .. Capacity - 1 |-> Junk]
  /\ front = 0 /\ back = 0 /\ capacity = Capacity
  /\ queue = <<>>
  /\ saved = [front |-> 0, back |-> 0] /\ snapshot = <<>>
  /\ lowest = 0 /\ moved = FALSE

array_empty == back <= front

(* The block as realloc() makes it c words long.                           *)
realloc(c) == [i \in 0 .. c - 1 |-> IF i < capacity THEN data[i] ELSE Junk]

array_reserve(c) ==
  /\ c >= back
  /\ data' = realloc(c) /\ capacity' = c
  /\ moved' \in {moved, TRUE}
  /\ UNCHANGED <<front, back, queue, saved, snapshot, lowest>>

(* Variant: grown one element too late.                                    *)
array_insertBackLate(v) ==
  /\ back < MaxBack
  /\ data' = [(IF back > capacity THEN realloc(capacity * 2) ELSE data) EXCEPT ![back] = v]
  /\ capacity' = IF back > capacity THEN capacity * 2 ELSE capacity
  /\ back' = back + 1
  /\ queue' = Append(queue, v)
  /\ UNCHANGED <<front, saved, snapshot, lowest, moved>>

(* Variant: what is popped at the front is made room of first.             *)
array_insertBackCompact(v) ==
  /\ back < MaxBack /\ back - front < capacity
  /\ data' = [i \in 0 .. capacity - 1 |->
                CASE i = back - front -> v [] i < back - front -> data[front + i]
                  [] OTHER -> data[i]]
  /\ front' = 0 /\ back' = back - front + 1
  /\ queue' = Append(queue, v)
  /\ UNCHANGED <<capacity, saved, snapshot, lowest, moved>>

array_insertBack(v) ==
  /\ back < MaxBack
  /\ \/ /\ back = capacity
        /\ data' = [realloc(capacity * 2) EXCEPT ![back] = v] /\ capacity' = capacity * 2
        /\ moved' \in {moved, TRUE}
     \/ /\ back # capacity
        /\ data' = [data EXCEPT ![back] = v] /\ UNCHANGED <<capacity, moved>>
  /\ back' = back + 1
  /\ queue' = Append(queue, v)
  /\ UNCHANGED <<front, saved, snapshot, lowest>>

array_popFront ==
  /\ ~array_empty
  /\ front' = front + 1
  /\ queue' = Tail(queue)
  /\ UNCHANGED <<data, back, capacity, copy>>

array_popBack ==
  /\ ~array_empty
  /\ back' = back - 1
  /\ lowest' = IF back - 1 < lowest THEN back - 1 ELSE lowest
  /\ queue' = SubSeq(queue, 1, Len(queue) - 1)
  /\ UNCHANGED <<data, front, capacity, saved, snapshot, moved>>

array_save ==
  /\ saved' = [front |-> front, back |-> back]
  /\ snapshot' = queue /\ lowest' = back /\ moved' = FALSE
  /\ UNCHANGED <<array, queue>>

Next ==
  \/ \E v \in Value : array_insertBack(v)
  \/ \E c \in 1 .. 2 * MaxBack : array_reserve(c)
  \/ array_popFront \/ array_popBack \/ array_save

Spec == Init /\ [][Next]_vars

-----------------------------------------------------------------------------
(* All indices stay within the block.                                      *)
InBounds == front <= back /\ back <= capacity /\ capacity > 0

(* The array holds what has been inserted and not popped, in that order,   *)
(* over any number of enlargements.                                        *)
HoldsWhatWasPut ==
  /\ InBounds
  /\ Len(queue) = back - front
  /\ \A i \in 1 .. Len(queue) : queue[i] = data[front + i - 1]

(* A copy, which array_foreach walks along, shows what was in the array    *)
(* when it was made, as long as the block has not moved, but for elements  *)
(* that were popped at the back since, whose place may hold another.       *)
CopyIntact ==
  ~moved =>
    /\ Len(snapshot) = saved.back - saved.front
    /\ saved.back <= capacity \/ lowest < saved.back
    /\ \A i \in 1 .. Len(snapshot) :
         saved.front + i - 1 < lowest => snapshot[i] = data[saved.front + i - 1]
=============================================================================
