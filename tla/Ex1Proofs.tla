------------------------------ MODULE Ex1Proofs ------------------------------
(***************************************************************************)
(* Proofs about Ex1, its array and its busy-wait.                          *)
(*                                                                         *)
(* GrowingArray: the array holds what was put into it, and its copies what *)
(* they were made of, for every capacity it is created with, every type of *)
(* element and every sequence of calls.  Indices adds to the properties    *)
(* that no index of a copy is beyond what was live when it was made, and   *)
(* none below lowest beyond what has been live ever since.                 *)
(*                                                                         *)
(* BusyWait: the arithmetic on struct timespec is that of the nanoseconds  *)
(* it stands for, and busy_wait waits as long as it is told.  Target says  *)
(* that then stands for the end of the wait from the moment it is          *)
(* computed, normalized or not, and that what was last read of the clock   *)
(* is not ahead of it.                                                     *)
(***************************************************************************)
EXTENDS GrowingArray, BusyWait, SequenceTheorems, TLAPS

-----------------------------------------------------------------------------
(* The array.                                                              *)

Indices ==
  /\ lowest <= back
  /\ lowest <= saved.back
  /\ saved.front <= saved.back

IInv == TypeOK /\ HoldsWhatWasPut /\ Indices /\ CopyIntact

(* What Append, Tail and the removal of the last do to a sequence.         *)
LEMMA SeqFacts ==
  ASSUME NEW S, NEW s \in Seq(S), NEW v \in S
  PROVE  /\ Len(s) \in Nat
         /\ Append(s, v) \in Seq(S) /\ Len(Append(s, v)) = Len(s) + 1
         /\ \A i \in 1 .. Len(s) + 1 :
              Append(s, v)[i] = IF i = Len(s) + 1 THEN v ELSE s[i]
  OBVIOUS

(* Tail moves every element one place to the front.                        *)
LEMMA TailFacts ==
  ASSUME NEW S, NEW s \in Seq(S), Len(s) > 0
  PROVE  /\ Tail(s) \in Seq(S) /\ Len(Tail(s)) = Len(s) - 1
         /\ \A i \in 1 .. Len(s) - 1 : Tail(s)[i] = s[i + 1]
  BY SMT

(* A sequence without its last element has the others in their places.     *)
LEMMA ButLastFacts ==
  ASSUME NEW S, NEW s \in Seq(S), Len(s) > 0
  PROVE  /\ SubSeq(s, 1, Len(s) - 1) \in Seq(S)
         /\ Len(SubSeq(s, 1, Len(s) - 1)) = Len(s) - 1
         /\ \A i \in 1 .. Len(s) - 1 : SubSeq(s, 1, Len(s) - 1)[i] = s[i]
<1>1. 1 \in Int /\ Len(s) - 1 \in Int /\ 1 <= Len(s) - 1 + 1
  OBVIOUS
<1>2. \A i \in 1 .. Len(s) - 1 : s[i] \in S
  OBVIOUS
<1>3. DEFINE n == Len(s) - 1
<1>4. /\ SubSeq(s, 1, n) \in Seq(S)
      /\ Len(SubSeq(s, 1, n)) = IF 1 <= n THEN n - 1 + 1 ELSE 0
      /\ \A i \in 1 .. n - 1 + 1 : SubSeq(s, 1, n)[i] = s[1 + i - 1]
  <2> HIDE DEF n
  <2>1. n \in Int /\ \A i \in 1 .. n : s[i] \in S
    BY <1>1, <1>2 DEF n
  <2> QED
    BY <2>1, SubSeqProperties
<1>5. n \in Nat /\ n = Len(s) - 1
  OBVIOUS
<1> HIDE DEF n
<1>6. Len(SubSeq(s, 1, n)) = n
  <2>1. Len(SubSeq(s, 1, n)) = IF 1 <= n THEN n - 1 + 1 ELSE 0
    BY <1>4
  <2> QED
    BY <1>5, <2>1, SMT
<1>7. ASSUME NEW i \in 1 .. n PROVE SubSeq(s, 1, n)[i] = s[i]
  <2>1. i \in 1 .. n - 1 + 1 /\ 1 + i - 1 = i
    BY <1>5
  <2> QED
    BY <1>4, <2>1
<1> QED
  BY <1>4, <1>5, <1>6, <1>7

(* realloc() keeps the words that fit.                                     *)
LEMMA ReallocKeeps ==
  ASSUME TypeOK, NEW c \in Nat
  PROVE  /\ realloc(c) \in [0 .. c - 1 -> Word]
         /\ \A i \in 0 .. c - 1 : i < capacity => realloc(c)[i] = data[i]
  BY SMT DEF TypeOK, realloc, Word

(* The numbers of a state that satisfies the invariant, and their order.   *)
LEMMA Numbers ==
  ASSUME IInv
  PROVE  /\ front \in Nat /\ back \in Nat /\ capacity \in Nat /\ lowest \in Nat
         /\ saved.front \in Nat /\ saved.back \in Nat
         /\ Len(queue) \in Nat /\ Len(snapshot) \in Nat
         /\ front <= back /\ back <= capacity /\ capacity > 0
         /\ Len(queue) = back - front
         /\ lowest <= back /\ lowest <= saved.back /\ saved.front <= saved.back
  BY DEF IInv, TypeOK, HoldsWhatWasPut, InBounds, Indices

(* An element of the array, as callers and as the block number it.         *)
LEMMA Element ==
  ASSUME IInv, NEW i \in 1 .. Len(queue)
  PROVE  front + i - 1 \in 0 .. back - 1 /\ queue[i] = data[front + i - 1]
<1>1. front + i - 1 \in 0 .. back - 1
  BY Numbers
<1>2. queue[i] = data[front + i - 1]
  BY DEF IInv, HoldsWhatWasPut
<1> QED
  BY <1>1, <1>2

(* An element of a copy that is still live.                                *)
LEMMA CopiedElement ==
  ASSUME IInv, ~moved, NEW i \in 1 .. Len(snapshot), saved.front + i - 1 < lowest
  PROVE  /\ saved.front + i - 1 \in 0 .. back - 1
         /\ snapshot[i] = data[saved.front + i - 1]
<1>1. saved.front + i - 1 \in 0 .. back - 1
  BY Numbers
<1>2. snapshot[i] = data[saved.front + i - 1]
  BY DEF IInv, CopyIntact
<1> QED
  BY <1>1, <1>2

(* The empty array holds nothing.                                          *)
LEMMA InitIInv == Init => IInv
<1> SUFFICES ASSUME Init PROVE IInv
  OBVIOUS
<1>1. Capacity \in Nat /\ Capacity > 0
  BY ArrayAssumption
<1>2. data \in [0 .. Capacity - 1 -> Word]
  BY DEF Init, Word
<1>3. queue \in Seq(Value) /\ snapshot \in Seq(Value) /\ Len(queue) = 0 /\ Len(snapshot) = 0
  BY DEF Init
<1>4. saved \in [front : Nat, back : Nat] /\ saved.front = 0 /\ saved.back = 0
  BY DEF Init
<1>5. TypeOK
  BY <1>1, <1>2, <1>3, <1>4 DEF Init, TypeOK
<1>6. HoldsWhatWasPut /\ Indices /\ CopyIntact
  BY <1>1, <1>3, <1>4 DEF Init, HoldsWhatWasPut, InBounds, Indices, CopyIntact
<1> QED
  BY <1>5, <1>6 DEF IInv

(* Copies stay what they are when the words below back do, and back and    *)
(* the block do not shrink below them.                                     *)
LEMMA CopyStays ==
  ASSUME IInv, capacity' \in Nat, back <= capacity',
         \A i \in 0 .. back - 1 : data'[i] = data[i],
         moved => moved', UNCHANGED <<saved, snapshot, lowest>>
  PROVE  CopyIntact'
<1> SUFFICES ASSUME ~moved' PROVE CopyIntact'
  BY DEF CopyIntact
<1>1. ~moved
  OBVIOUS
<1>2. Len(snapshot) = saved.back - saved.front
  BY <1>1 DEF IInv, CopyIntact
<1>3. saved.back <= capacity' \/ lowest < saved.back
  BY Numbers
<1>4. ASSUME NEW i \in 1 .. Len(snapshot), saved.front + i - 1 < lowest
      PROVE  snapshot[i] = data'[saved.front + i - 1]
  BY <1>1, <1>4, CopiedElement
<1> QED
  BY <1>2, <1>3, <1>4 DEF CopyIntact

(* A block of another size with the same words below back holds the same.  *)
LEMMA SameWords ==
  ASSUME IInv, capacity' \in Nat \ {0}, back <= capacity',
         data' \in [0 .. capacity' - 1 -> Word],
         \A i \in 0 .. back - 1 : data'[i] = data[i],
         moved' \in BOOLEAN, moved => moved',
         UNCHANGED <<front, back, queue, saved, snapshot, lowest>>
  PROVE  IInv'
<1>1. TypeOK'
  BY DEF IInv, TypeOK
<1>2. \A i \in 1 .. Len(queue) : queue[i] = data'[front + i - 1]
  BY Element
<1>3. HoldsWhatWasPut'
  BY <1>2, Numbers DEF HoldsWhatWasPut, InBounds
<1>4. Indices' /\ CopyIntact'
  BY CopyStays DEF IInv, Indices
<1> QED
  BY <1>1, <1>3, <1>4 DEF IInv

(* An element is added behind the others, whether or not there is room.    *)
LEMMA InsertKeepsIt ==
  ASSUME IInv, NEW v \in Value, array_insertBack(v)
  PROVE  IInv'
<1>1. /\ back' = back + 1 /\ queue' = Append(queue, v)
      /\ UNCHANGED <<front, saved, snapshot, lowest>>
  BY DEF array_insertBack
<1>2. /\ capacity' \in Nat /\ back < capacity'
      /\ data' \in [0 .. capacity' - 1 -> Word]
      /\ data'[back] = v
      /\ \A i \in 0 .. back - 1 : data'[i] = data[i]
      /\ moved' \in BOOLEAN /\ (moved => moved')
  <2>1. CASE /\ back = capacity /\ capacity' = capacity * 2
             /\ data' = [realloc(capacity * 2) EXCEPT ![back] = v]
             /\ moved' \in {moved, TRUE}
    <3>1. capacity * 2 \in Nat /\ capacity < capacity * 2 /\ back \in Nat
      BY <2>1 DEF IInv, TypeOK, HoldsWhatWasPut, InBounds
    <3>2. /\ realloc(capacity * 2) \in [0 .. capacity * 2 - 1 -> Word]
          /\ \A i \in 0 .. capacity * 2 - 1 :
               i < capacity => realloc(capacity * 2)[i] = data[i]
      BY <3>1, ReallocKeeps DEF IInv
    <3>3. moved \in BOOLEAN
      BY DEF IInv, TypeOK
    <3>4. /\ data' \in [0 .. capacity' - 1 -> Word] /\ data'[back] = v
          /\ \A i \in 0 .. back - 1 : data'[i] = realloc(capacity * 2)[i]
      <4> DEFINE block == realloc(capacity * 2)
      <4>1. block \in [0 .. capacity * 2 - 1 -> Word] /\ data' = [block EXCEPT ![back] = v]
        BY <2>1, <3>2
      <4>2. back \in 0 .. capacity * 2 - 1 /\ v \in Word
        BY <2>1, <3>1 DEF Word
      <4> HIDE DEF block
      <4>3. data' \in [0 .. capacity' - 1 -> Word] /\ data'[back] = v
        BY <2>1, <4>1, <4>2
      <4>4. \A i \in 0 .. back - 1 : data'[i] = block[i]
        BY <3>1, <4>1, <4>2
      <4> QED
        BY <4>3, <4>4 DEF block
    <3>5. \A i \in 0 .. back - 1 : data'[i] = data[i]
      BY <2>1, <3>1, <3>2, <3>4
    <3>6. moved' \in BOOLEAN /\ (moved => moved')
      <4>1. moved' = moved \/ moved' = TRUE
        BY <2>1
      <4> QED
        BY <3>3, <4>1, Zenon
    <3>7. capacity' \in Nat /\ back < capacity'
      BY <2>1, <3>1
    <3> QED
      BY <3>4, <3>5, <3>6, <3>7
  <2>2. CASE /\ back # capacity
             /\ data' = [data EXCEPT ![back] = v] /\ UNCHANGED <<capacity, moved>>
    BY <2>2, SMT DEF IInv, TypeOK, HoldsWhatWasPut, InBounds, Word
  <2> QED
    BY <2>1, <2>2 DEF array_insertBack
<1>3. /\ queue' \in Seq(Value) /\ Len(queue') = Len(queue) + 1 /\ Len(queue) \in Nat
      /\ \A i \in 1 .. Len(queue) + 1 :
           queue'[i] = IF i = Len(queue) + 1 THEN v ELSE queue[i]
  BY <1>1, SeqFacts DEF IInv, TypeOK
<1>4. TypeOK'
  <2>1. back' \in Nat
    BY <1>1, Numbers
  <2> QED
    BY <1>1, <1>2, <1>3, <2>1 DEF IInv, TypeOK
<1>5. HoldsWhatWasPut'
  <2>1. ASSUME NEW i \in 1 .. Len(queue) + 1 PROVE queue'[i] = data'[front + i - 1]
    <3>1. CASE i = Len(queue) + 1
      <4>1. front + i - 1 = back
        BY <3>1, Numbers
      <4> QED
        BY <1>2, <1>3, <3>1, <4>1
    <3>2. CASE i # Len(queue) + 1
      <4>1. i \in 1 .. Len(queue)
        BY <1>3, <3>2
      <4> QED
        BY <1>2, <1>3, <3>2, <4>1, Element
    <3> QED
      BY <3>1, <3>2
  <2>2. InBounds' /\ Len(queue') = back' - front'
    BY <1>1, <1>2, <1>3, Numbers, SMTT(30) DEF InBounds
  <2> QED
    BY <1>1, <1>3, <2>1, <2>2 DEF HoldsWhatWasPut
<1>6. Indices'
  BY <1>1, Numbers DEF Indices
<1>7. CopyIntact'
  <2>1. back <= capacity'
    BY <1>2, Numbers
  <2> QED
    BY <1>1, <1>2, <2>1, CopyStays
<1> QED
  BY <1>4, <1>5, <1>6, <1>7 DEF IInv

(* The first element goes.                                                 *)
LEMMA PopFrontKeepsIt ==
  ASSUME IInv, array_popFront
  PROVE  IInv'
<1>1. Len(queue) > 0 /\ front < back
  BY DEF IInv, TypeOK, HoldsWhatWasPut, array_popFront, array_empty
<1>2. /\ queue' \in Seq(Value) /\ Len(queue') = Len(queue) - 1
      /\ \A i \in 1 .. Len(queue) - 1 : queue'[i] = queue[i + 1]
  BY <1>1, TailFacts DEF IInv, TypeOK, array_popFront
<1>3. TypeOK' /\ Indices' /\ CopyIntact'
  BY <1>2 DEF IInv, TypeOK, Indices, CopyIntact, array_popFront, copy
<1>4. HoldsWhatWasPut'
  BY <1>1, <1>2, SMT DEF IInv, TypeOK, HoldsWhatWasPut, InBounds, array_popFront
<1> QED
  BY <1>3, <1>4 DEF IInv

(* The last element goes.                                                  *)
LEMMA PopBackKeepsIt ==
  ASSUME IInv, array_popBack
  PROVE  IInv'
<1>1. Len(queue) > 0 /\ front < back
  BY DEF IInv, TypeOK, HoldsWhatWasPut, array_popBack, array_empty
<1>2. /\ queue' \in Seq(Value) /\ Len(queue') = Len(queue) - 1
      /\ \A i \in 1 .. Len(queue) - 1 : queue'[i] = queue[i]
  BY <1>1, ButLastFacts DEF IInv, TypeOK, array_popBack
<1>3. TypeOK' /\ Indices'
  BY <1>1, <1>2, SMT DEF IInv, TypeOK, Indices, array_popBack
<1>4. HoldsWhatWasPut'
  BY <1>1, <1>2, SMT DEF IInv, TypeOK, HoldsWhatWasPut, InBounds, array_popBack
<1>5. CopyIntact'
  BY <1>1, SMT DEF IInv, TypeOK, Indices, CopyIntact, array_popBack
<1> QED
  BY <1>3, <1>4, <1>5 DEF IInv

(* A copy is made.                                                         *)
LEMMA SaveKeepsIt ==
  ASSUME IInv, array_save
  PROVE  IInv'
<1>1. TypeOK' /\ Indices' /\ HoldsWhatWasPut'
  <2>1. /\ saved' \in [front : Nat, back : Nat]
        /\ saved'.front = front /\ saved'.back = back /\ lowest' = back
    BY Numbers DEF array_save
  <2>2. TypeOK'
    BY <2>1, Numbers DEF IInv, TypeOK, array_save, array
  <2>3. Indices'
    BY <2>1, Numbers DEF Indices, array_save, array
  <2>4. HoldsWhatWasPut'
    BY DEF IInv, HoldsWhatWasPut, InBounds, array_save, array
  <2> QED
    BY <2>2, <2>3, <2>4
<1>2. CopyIntact'
  BY SMT DEF IInv, TypeOK, HoldsWhatWasPut, InBounds, CopyIntact, array_save, array
<1> QED
  BY <1>1, <1>2 DEF IInv

(* Every call preserves the invariant.                                     *)
THEOREM Invariance == Spec => []IInv
<1>1. IInv /\ [Next]_vars => IInv'
  <2> SUFFICES ASSUME IInv, [Next]_vars PROVE IInv'
    OBVIOUS
  <2>1. ASSUME NEW c \in 1 .. 2 * MaxBack, array_reserve(c) PROVE IInv'
    <3>1. /\ realloc(c) \in [0 .. c - 1 -> Word]
          /\ \A i \in 0 .. c - 1 : i < capacity => realloc(c)[i] = data[i]
      BY <2>1, ReallocKeeps, ArrayAssumption DEF IInv
    <3>2. /\ c \in Nat \ {0} /\ back <= c /\ back <= capacity
          /\ back \in Nat /\ capacity \in Nat
      BY <2>1, ArrayAssumption
         DEF array_reserve, IInv, TypeOK, HoldsWhatWasPut, InBounds
    <3>3. \A i \in 0 .. back - 1 : data'[i] = data[i]
      BY <2>1, <3>1, <3>2 DEF array_reserve
    <3>4. moved' \in BOOLEAN /\ (moved => moved')
      <4>1. moved' = moved \/ moved' = TRUE
        BY <2>1 DEF array_reserve
      <4> QED
        BY <4>1, Zenon DEF IInv, TypeOK
    <3>5. /\ capacity' \in Nat \ {0} /\ back <= capacity'
          /\ data' \in [0 .. capacity' - 1 -> Word]
          /\ UNCHANGED <<front, back, queue, saved, snapshot, lowest>>
      BY <2>1, <3>1, <3>2 DEF array_reserve
    <3> QED
      BY <3>3, <3>4, <3>5, SameWords
  <2>2. CASE UNCHANGED vars
    BY <2>2 DEF vars, array, copy, IInv, TypeOK, HoldsWhatWasPut, InBounds,
                Indices, CopyIntact
  <2> QED
    BY <2>1, <2>2, InsertKeepsIt, PopFrontKeepsIt, PopBackKeepsIt, SaveKeepsIt DEF Next
<1> QED
  BY <1>1, InitIInv, PTL DEF Spec

(* Over any number of enlargements and pops, the array holds what was      *)
(* inserted and not popped, in order, inside its block.                    *)
THEOREM Contents == Spec => []HoldsWhatWasPut
<1>1. IInv => HoldsWhatWasPut
  BY DEF IInv
<1> QED
  BY <1>1, Invariance, PTL

(* A copy made by array_save stays what it was, but for what was popped at *)
(* the back, until the block moves.                                        *)
THEOREM CopiesStay == Spec => []CopyIntact
<1>1. IInv => CopyIntact
  BY DEF IInv
<1> QED
  BY <1>1, Invariance, PTL

-----------------------------------------------------------------------------
(* The busy-wait.                                                          *)

Target ==
  /\ pc # "start" => Total(then) = Total(start) + Total(delay)
  /\ pc \in {"wait", "done"} => Normalized(then)
  /\ Total(now) <= Total(clock)
  /\ pc = "done" => Total(now) >= Total(then)

WaitIInv == WaitTypeOK /\ Target

(* The fields of a timespec are numbers, and so is what it stands for.     *)
LEMMA Fields ==
  ASSUME NEW t \in Timespec
  PROVE  t.tv_sec \in Int /\ t.tv_nsec \in Int /\ Total(t) \in Int
  BY SMT DEF Timespec, Total, Second

(* A sum stands for the sum of what its terms stand for, a difference for  *)
(* the difference, before they are normalized.                             *)
THEOREM SumsAdd ==
  ASSUME NEW l \in Timespec, NEW r \in Timespec
  PROVE  /\ Sum(l, r) \in Timespec /\ Total(Sum(l, r)) = Total(l) + Total(r)
         /\ Difference(l, r) \in Timespec
         /\ Total(Difference(l, r)) = Total(l) - Total(r)
  BY Fields, SMT DEF Timespec, Sum, Difference, Total, Second

(* A turn of either loop of timespec_normalized changes nothing of what    *)
(* the timespec stands for, and brings it nearer to its normal form.       *)
LEMMA Turns ==
  ASSUME NEW t \in Timespec
  PROVE  /\ Carry(t) \in Timespec /\ Total(Carry(t)) = Total(t)
         /\ Borrow(t) \in Timespec /\ Total(Borrow(t)) = Total(t)
         /\ t.tv_nsec >= Second => Excess(Carry(t)) < Excess(t)
         /\ t.tv_nsec < 0 => Excess(Borrow(t)) < Excess(t)
<1>1. t.tv_sec \in Int /\ t.tv_nsec \in Int
  BY Fields
<1>2. /\ Carry(t) \in Timespec /\ Total(Carry(t)) = Total(t)
      /\ Borrow(t) \in Timespec /\ Total(Borrow(t)) = Total(t)
  BY <1>1, SMT DEF Timespec, Carry, Borrow, Total, Second
<1>3. t.tv_nsec >= Second => Excess(Carry(t)) < Excess(t)
  BY <1>1, SMT DEF Carry, Excess, Second
<1>4. t.tv_nsec < 0 => Excess(Borrow(t)) < Excess(t)
  BY <1>1, SMT DEF Borrow, Excess, Second
<1> QED
  BY <1>2, <1>3, <1>4

(* Of normalized timespecs the sum and the difference are normal after one *)
(* turn of one loop at most.                                               *)
THEOREM OneTurn ==
  ASSUME NEW l \in Instant, NEW r \in Instant
  PROVE  /\ Normalized(Sum(l, r)) \/ Normalized(Carry(Sum(l, r)))
         /\ Normalized(Difference(l, r)) \/ Normalized(Borrow(Difference(l, r)))
<1>1. /\ l.tv_nsec \in Int /\ 0 <= l.tv_nsec /\ l.tv_nsec < Second
      /\ r.tv_nsec \in Int /\ 0 <= r.tv_nsec /\ r.tv_nsec < Second
  BY Fields DEF Instant, Normalized
<1> DEFINE s == l.tv_nsec + r.tv_nsec
           d == l.tv_nsec - r.tv_nsec
<1>2. /\ Sum(l, r).tv_nsec = s /\ Carry(Sum(l, r)).tv_nsec = s - Second
      /\ Difference(l, r).tv_nsec = d /\ Borrow(Difference(l, r)).tv_nsec = d + Second
  BY DEF Sum, Difference, Carry, Borrow
<1>3. /\ (0 <= s /\ s < Second) \/ (0 <= s - Second /\ s - Second < Second)
      /\ (0 <= d /\ d < Second) \/ (0 <= d + Second /\ d + Second < Second)
  BY <1>1, SMT DEF Second
<1> QED
  BY <1>2, <1>3 DEF Normalized

(* timespec_cmp orders normalized timespecs as the times they stand for:   *)
(* the int it returns is large enough for any difference of nanoseconds    *)
(* that are normal.                                                        *)
THEOREM ComparisonAgrees ==
  ASSUME NEW l \in Instant, NEW r \in Instant
  PROVE  /\ timespec_cmp(l, r) < 0 <=> Total(l) < Total(r)
         /\ timespec_cmp(l, r) = 0 <=> l = r
<1>1. /\ l.tv_sec \in Int /\ l.tv_nsec \in Int /\ r.tv_sec \in Int /\ r.tv_nsec \in Int
      /\ 0 <= l.tv_nsec /\ l.tv_nsec < Second /\ 0 <= r.tv_nsec /\ r.tv_nsec < Second
  BY Fields DEF Instant, Normalized
<1>2. ToInt(l.tv_nsec - r.tv_nsec) = l.tv_nsec - r.tv_nsec
  BY <1>1, SMT DEF ToInt, Second
<1>3. timespec_cmp(l, r) < 0 <=> Total(l) < Total(r)
  BY <1>1, <1>2, SMT DEF timespec_cmp, Total, Second
<1>4. timespec_cmp(l, r) = 0 <=> l.tv_sec = r.tv_sec /\ l.tv_nsec = r.tv_nsec
  BY <1>1, <1>2 DEF timespec_cmp
<1>5. l = r <=> l.tv_sec = r.tv_sec /\ l.tv_nsec = r.tv_nsec
  BY DEF Instant, Timespec
<1> QED
  BY <1>3, <1>4, <1>5

(* Every step preserves the invariant.                                     *)
THEOREM WaitInvariance == SpecWait => []WaitIInv
<1>1. InitWait => WaitIInv
  BY Fields DEF InitWait, WaitIInv, WaitTypeOK, Target, Instant
<1>2. WaitIInv /\ [NextWait]_waitVars => WaitIInv'
  <2> SUFFICES ASSUME WaitIInv, [NextWait]_waitVars PROVE WaitIInv'
    OBVIOUS
  <2>1. /\ Total(clock) \in Int /\ Total(now) \in Int /\ Total(then) \in Int
        /\ Total(start) \in Int /\ Total(delay) \in Int
    BY Fields DEF WaitIInv, WaitTypeOK, Instant
  <2>2. CASE Tick
    <3>1. clock' \in Instant /\ Total(clock') \in Int /\ Total(clock') > Total(clock)
      BY <2>2, Fields DEF Tick, Instant
    <3> QED
      BY <2>1, <2>2, <3>1 DEF Tick, WaitIInv, WaitTypeOK, Target
  <2>3. CASE Begin
    <3>1. Total(then') = Total(clock) + Total(delay) /\ then' \in Timespec
      BY <2>3, SumsAdd DEF Begin, WaitIInv, WaitTypeOK, Instant
    <3> QED
      BY <2>1, <2>3, <3>1 DEF Begin, WaitIInv, WaitTypeOK, Target
  <2>4. CASE timespec_normalized
    <3>1. then' \in Timespec /\ Total(then') = Total(then)
      BY <2>4, Turns DEF timespec_normalized, WaitIInv, WaitTypeOK
    <3>2. WaitTypeOK'
      BY <2>4, <3>1 DEF timespec_normalized, WaitIInv, WaitTypeOK
    <3>3. Target'
      BY <2>4, <3>1 DEF timespec_normalized, WaitIInv, WaitTypeOK, Target
    <3> QED
      BY <3>2, <3>3 DEF WaitIInv
  <2>5. CASE Look
    BY <2>1, <2>5 DEF Look, WaitIInv, WaitTypeOK, Target
  <2>6. CASE Return
    <3>1. now \in Instant /\ then \in Instant
      BY <2>6 DEF Return, WaitIInv, WaitTypeOK, Target, Instant
    <3>2. Total(now) >= Total(then)
      BY <2>1, <2>6, <3>1, ComparisonAgrees DEF Return
    <3> QED
      BY <2>6, <3>2 DEF Return, WaitIInv, WaitTypeOK, Target
  <2>7. CASE UNCHANGED waitVars
    BY <2>7 DEF waitVars, WaitIInv, WaitTypeOK, Target
  <2> QED
    BY <2>2, <2>3, <2>4, <2>5, <2>6, <2>7 DEF NextWait
<1> QED
  BY <1>1, <1>2, PTL DEF SpecWait

(* busy_wait waits as long as its argument says at least, for any seconds  *)
(* and nanoseconds and however the clock advances.                         *)
THEOREM WaitIsLongEnough == SpecWait => []WaitsItsTime
<1>1. WaitIInv => WaitsItsTime
  <2> SUFFICES ASSUME WaitIInv, pc = "done"
               PROVE  Total(clock) >= Total(start) + Total(delay)
    BY DEF WaitsItsTime
  <2>1. /\ Total(clock) \in Int /\ Total(now) \in Int /\ Total(then) \in Int
        /\ Total(start) \in Int /\ Total(delay) \in Int
    BY Fields DEF WaitIInv, WaitTypeOK, Instant
  <2> QED
    BY <2>1 DEF WaitIInv, Target
<1> QED
  BY <1>1, WaitInvariance, PTL

(* timespec_normalized ends for every number of nanoseconds.               *)
THEOREM NormalizationTerminates == SpecWait => NormalizationEnds
<1>1. WaitIInv /\ [NextWait]_waitVars =>
        [pc = "normalize" /\ then' # then => Excess(then') < Excess(then)]_waitVars
  <2> SUFFICES ASSUME WaitIInv, NextWait, pc = "normalize", then' # then
               PROVE  Excess(then') < Excess(then)
    OBVIOUS
  <2>1. then \in Timespec
    BY DEF WaitIInv, WaitTypeOK
  <2>2. timespec_normalized
    BY DEF NextWait, Tick, Begin, Look, Return
  <2> QED
    BY <2>1, <2>2, Turns DEF timespec_normalized
<1> QED
  BY <1>1, WaitInvariance, PTL DEF SpecWait, NormalizationEnds
=============================================================================
