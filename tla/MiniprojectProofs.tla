------------------------- MODULE MiniprojectProofs --------------------------
(***************************************************************************)
(* The ring buffer implements AnswerQueue, for every length of the buffer, *)
(* any number of threads on both sides and any number of answers; and what *)
(* the controller computes with, for any number of GETs, signals, and      *)
(* datagrams lost and repeated.                                            *)
(*                                                                         *)
(* Counted says that the semaphore and the threads on their way count the  *)
(* answers in the buffer, so that no getter reads where nothing was put;   *)
(* Laps that the indices are the remainders of what was stored and taken.  *)
(* Of the controller, Balance says that a GET which has not been answered  *)
(* is under way unless it was lost, and Ages that nothing under way is     *)
(* older than what is behind it and what was lost allow for.               *)
(***************************************************************************)
EXTENDS AnswerBuffer, Controller, FiniteSetTheorems, SequenceTheorems, TLAPS

(* The answers that are stored and not yet counted, and those counted off  *)
(* and not yet read.                                                       *)
Putting == {p \in Putters : at[p] \in {"advance_tail", "unlock_put", "post"}}
Taking == {g \in Getters : at[g] \in {"lock_get", "load"}}

Counted == semaCntYVal + Cardinality(Putting) + Cardinality(Taking) = Outstanding

(* Each index is moved a step after its slot was used.                     *)
Laps ==
  /\ tail = (IF \E p \in Putters : at[p] = "advance_tail" THEN stored - 1
                                                          ELSE stored) % BUF_LEN
  /\ head = (IF \E g \in Getters : at[g] = "advance_head" THEN Len(taken) - 1
                                                          ELSE Len(taken)) % BUF_LEN

IInv == TypeOK /\ Counted /\ Laps

-----------------------------------------------------------------------------

(* Multiples of a positive number, and remainders of division by it.       *)
LEMMA Product ==
  ASSUME NEW n \in Nat \ {0}, NEW x \in Int
  PROVE  /\ x >= 1 => x * n >= n
         /\ x <= -1 => x * n <= -n
  BY SMT

(* A remainder lies below the divisor, a multiple of it away.              *)
LEMMA Remainder ==
  ASSUME NEW n \in Nat \ {0}, NEW a \in Int
  PROVE  /\ a % n \in Int /\ 0 <= a % n /\ a % n < n
         /\ \E q \in Int : a = q * n + (a % n)
<1>1. a % n \in Int /\ 0 <= a % n /\ a % n < n
  BY SMT
<1>2. a = (a \div n) * n + (a % n) /\ a \div n \in Int
  BY SMT
<1>3. \E q \in Int : a = q * n + (a % n)
  <2> DEFINE e == a \div n
             m == a % n
  <2>1. e \in Int /\ a = e * n + m
    BY <1>2
  <2> HIDE DEF e, m
  <2>2. \E q \in Int : a = q * n + m
    BY <2>1, Zenon
  <2> QED
    BY <2>2 DEF m
<1> QED
  BY <1>1, <1>3

(* There is only one such number.                                          *)
LEMMA RemainderUnique ==
  ASSUME NEW n \in Nat \ {0}, NEW q \in Int, NEW r \in Int, 0 <= r, r < n
  PROVE  (q * n + r) % n = r
<1> DEFINE a == q * n + r
<1>1. a \in Int
  BY SMT
<1> HIDE DEF a
<1>2. PICK p \in Int : a = p * n + (a % n)
  BY <1>1, Remainder
<1>3. a % n \in Int /\ 0 <= a % n /\ a % n < n
  BY <1>1, Remainder
<1> DEFINE x == q - p
           d == (a % n) - r
<1>4. x * n = d
  <2> DEFINE m == a % n
  <2>1. m \in Int /\ q * n + r = p * n + m
    BY <1>2, <1>3 DEF a
  <2> HIDE DEF m
  <2>2. (q - p) * n = q * n - p * n
    BY SMT
  <2>3. q * n \in Int /\ p * n \in Int
    BY SMT
  <2>4. (q - p) * n = m - r
    BY <2>1, <2>2, <2>3, SMT
  <2> QED
    BY <2>4 DEF m
<1>5. d < n /\ -n < d /\ x \in Int
  BY <1>3, SMT
<1>6. (x >= 1 => x * n >= n) /\ (x <= -1 => x * n <= -n)
  BY <1>5, Product
<1>7. x = 0
  <2> HIDE DEF x, d
  <2> QED
    BY <1>3, <1>4, <1>5, <1>6, SMT
<1>8. a % n = r
  BY <1>4, <1>7, <1>3, SMT
<1> QED
  BY <1>8 DEF a

(* Multiples add up.                                                       *)
LEMMA Distribute ==
  ASSUME NEW n \in Nat, NEW x \in Int, NEW z \in Int
  PROVE  /\ (x + z) * n = x * n + z * n /\ (x - z) * n = x * n - z * n
         /\ x * n \in Int /\ z * n \in Int /\ 0 * n = 0 /\ 1 * n = n
  BY SMT

(* Counting on and going round commute.                                    *)
LEMMA RemainderNext ==
  ASSUME NEW n \in Nat \ {0}, NEW a \in Int
  PROVE  ((a % n) + 1) % n = (a + 1) % n
<1> DEFINE m == a % n
<1>1. m \in Int /\ 0 <= m /\ m < n
  BY Remainder
<1>2. PICK q \in Int : a = q * n + m
  BY Remainder
<1> HIDE DEF m
<1>3. CASE m + 1 < n
  <2>1. (q * n + (m + 1)) % n = m + 1 /\ (0 * n + (m + 1)) % n = m + 1
    BY <1>1, <1>3, RemainderUnique
  <2>2. q * n + (m + 1) = a + 1 /\ 0 * n + (m + 1) = m + 1
    BY <1>1, <1>2, Distribute
  <2> QED
    BY <2>1, <2>2 DEF m
<1>4. CASE m + 1 = n
  <2>1. ((q + 1) * n + 0) % n = 0 /\ (1 * n + 0) % n = 0
    BY RemainderUnique
  <2>2. (q + 1) * n + 0 = a + 1 /\ 1 * n + 0 = m + 1
    BY <1>1, <1>2, <1>4, Distribute
  <2> QED
    BY <2>1, <2>2 DEF m
<1> QED
  BY <1>1, <1>3, <1>4

(* Two numbers fall on one slot exactly if they are a number of laps apart. *)
LEMMA SameSlot ==
  ASSUME NEW n \in Nat \ {0}, NEW a \in Int, NEW b \in Int
  PROVE  a % n = b % n <=> (b - a) % n = 0
<1> DEFINE m == a % n
           l == b % n
<1>1. m \in Int /\ 0 <= m /\ m < n /\ l \in Int /\ 0 <= l /\ l < n
  BY Remainder
<1>2. PICK q \in Int : a = q * n + m
  BY Remainder
<1>3. PICK p \in Int : b = p * n + l
  BY Remainder
<1> HIDE DEF m, l
<1>4. ASSUME m = l PROVE (b - a) % n = 0
  <2>1. ((p - q) * n + 0) % n = 0
    BY RemainderUnique
  <2>2. (p - q) * n + 0 = b - a
    BY <1>1, <1>2, <1>3, <1>4, Distribute
  <2> QED
    BY <2>1, <2>2
<1>5. ASSUME (b - a) % n = 0 PROVE m = l
  <2> DEFINE c == b - a
  <2>1. c \in Int /\ c % n = 0
    BY <1>5
  <2>2. PICK s \in Int : c = s * n + 0
    BY <2>1, Remainder
  <2>3. ((q + s) * n + m) % n = m
    BY <1>1, RemainderUnique
  <2>4. (q + s) * n + m = b
    <3>1. (q + s) * n = q * n + s * n /\ q * n \in Int /\ s * n \in Int
      BY Distribute
    <3>2. b = a + s * n
      BY <2>2, <3>1
    <3> QED
      BY <1>1, <1>2, <3>1, <3>2
  <2> QED
    BY <2>3, <2>4 DEF l
<1> QED
  BY <1>4, <1>5 DEF m, l

-----------------------------------------------------------------------------
(* What a step of one thread does to who is where.                         *)

(* A thread between lock and unlock holds the mutex and is there alone.    *)
LEMMA Alone ==
  ASSUME TypeOK, NEW t \in Threads, at[t] \in Inside
  PROVE  mtxBuffer = t /\ \A u \in Threads : at[u] \in Inside => u = t
  BY AnswerBufferAssumption DEF TypeOK

(* Only the thread that steps enters or leaves the mutex.                  *)
LEMMA InsideStep ==
  ASSUME TypeOK, NEW t \in Threads, NEW from, NEW to, Go(t, from, to)
  PROVE  {u \in Threads : at'[u] \in Inside} =
           IF to \in Inside THEN {u \in Threads : at[u] \in Inside} \cup {t}
                            ELSE {u \in Threads : at[u] \in Inside} \ {t}
<1>1. at'[t] = to /\ \A u \in Threads : u # t => at'[u] = at[u]
  BY DEF TypeOK, Go
<1> QED
  BY <1>1

(* The threads on their way can be counted.                                *)
LEMMA CountsFinite ==
  /\ IsFiniteSet(Putting) /\ IsFiniteSet(Taking)
  /\ Cardinality(Putting) \in Nat /\ Cardinality(Taking) \in Nat
<1>1. Putting \subseteq Threads /\ Taking \subseteq Threads
  BY DEF Putting, Taking, Threads
<1>2. IsFiniteSet(Putting) /\ IsFiniteSet(Taking)
  BY <1>1, AnswerBufferAssumption, FS_Subset
<1> QED
  BY <1>2, FS_CardinalityType

(* A step of a putter leaves the getters where they are.                   *)
LEMMA PutterStep ==
  ASSUME TypeOK, NEW p \in Putters, NEW from, NEW to, Go(p, from, to)
  PROVE  /\ Taking' = Taking
         /\ Putting' = IF to \in {"advance_tail", "unlock_put", "post"}
                       THEN Putting \cup {p} ELSE Putting \ {p}
         /\ \A g \in Getters : at'[g] = at[g]
<1>1. at'[p] = to /\ \A u \in Threads : u # p => at'[u] = at[u]
  BY DEF TypeOK, Go, Threads
<1>2. \A g \in Getters : at'[g] = at[g]
  BY <1>1, AnswerBufferAssumption DEF Threads
<1>3. Taking' = Taking
  BY <1>2 DEF Taking
<1>4. Putting' = IF to \in {"advance_tail", "unlock_put", "post"}
                 THEN Putting \cup {p} ELSE Putting \ {p}
  BY <1>1 DEF Putting, Threads
<1> QED
  BY <1>2, <1>3, <1>4

(* A step of a getter leaves the putters where they are.                   *)
LEMMA GetterStep ==
  ASSUME TypeOK, NEW g \in Getters, NEW from, NEW to, Go(g, from, to)
  PROVE  /\ Putting' = Putting
         /\ Taking' = IF to \in {"lock_get", "load"} THEN Taking \cup {g} ELSE Taking \ {g}
         /\ \A p \in Putters : at'[p] = at[p]
<1>1. at'[g] = to /\ \A u \in Threads : u # g => at'[u] = at[u]
  BY DEF TypeOK, Go, Threads
<1>2. \A p \in Putters : at'[p] = at[p]
  BY <1>1, AnswerBufferAssumption DEF Threads
<1>3. Putting' = Putting
  BY <1>2 DEF Putting
<1>4. Taking' = IF to \in {"lock_get", "load"} THEN Taking \cup {g} ELSE Taking \ {g}
  BY <1>1 DEF Taking, Threads
<1> QED
  BY <1>2, <1>3, <1>4

(* No answer is counted twice, and a thread on its way counts for one.     *)
LEMMA Numbers ==
  ASSUME TypeOK, Counted
  PROVE  /\ stored \in Nat /\ Len(taken) \in Nat /\ Outstanding \in Nat
         /\ Len(taken) <= stored
         /\ \A t \in Threads : t \in Putting \cup Taking => Outstanding >= 1
<1>1. stored \in Nat /\ Len(taken) \in Nat /\ semaCntYVal \in Nat
  BY DEF TypeOK
<1>2. Outstanding \in Nat /\ Len(taken) <= stored
  BY <1>1, CountsFinite DEF Counted, Outstanding
<1>3. ASSUME NEW t \in Putting \cup Taking PROVE Outstanding >= 1
  <2>1. Cardinality(Putting) # 0 \/ Cardinality(Taking) # 0
    BY CountsFinite, FS_EmptySet
  <2> QED
    BY <1>1, <2>1, CountsFinite DEF Counted
<1> QED
  BY <1>1, <1>2, <1>3

-----------------------------------------------------------------------------
(* A step takes the mutex, gives it back, or leaves it alone, and its      *)
(* thread is between lock and unlock accordingly.                          *)
Steps == Inside \cup {"call", "lock_put", "post", "wait", "lock_get"}

(* Such a step keeps one thread at most between lock and unlock.           *)
LEMMA Exclusive ==
  ASSUME TypeOK, NEW t \in Threads, NEW from, NEW to \in Steps, Go(t, from, to),
         \/ UNCHANGED mtxBuffer /\ (from \in Inside <=> to \in Inside)
         \/ mtxBuffer = Nobody /\ mtxBuffer' = t /\ to \in Inside
         \/ from \in Inside /\ mtxBuffer' = Nobody /\ to \notin Inside
  PROVE  /\ at' \in [Threads -> Steps]
         /\ mtxBuffer' \in Threads \cup {Nobody}
         /\ {u \in Threads : at'[u] \in Inside} = {mtxBuffer'} \ {Nobody}
<1> DEFINE In == {u \in Threads : at[u] \in Inside}
<1>1. at' \in [Threads -> Steps]
  BY DEF TypeOK, Go, Steps
<1>2. In = {mtxBuffer} \ {Nobody} /\ mtxBuffer \in Threads \cup {Nobody} /\ at[t] = from
  BY DEF TypeOK, Go
<1>3. {u \in Threads : at'[u] \in Inside} = IF to \in Inside THEN In \cup {t} ELSE In \ {t}
  BY InsideStep
<1>4. from \in Inside <=> t \in In
  BY <1>2
<1> HIDE DEF In
<1>5. t # Nobody
  BY AnswerBufferAssumption
<1> QED
  BY <1>1, <1>2, <1>3, <1>4, <1>5

(* A step that is no part of the counting and leaves the indices alone.    *)
LEMMA Quiet ==
  ASSUME TypeOK, Counted, Laps, NEW t \in Threads, NEW from, NEW to, Go(t, from, to),
         UNCHANGED <<head, tail, semaCntYVal, stored, taken>>,
         \/ from = "call" /\ to = "lock_put"
         \/ from = "lock_put" /\ to = "store"
         \/ from = "unlock_put" /\ to = "post"
         \/ from = "lock_get" /\ to = "load"
         \/ from = "unlock_get" /\ to = "wait"
  PROVE  Counted' /\ Laps'
<1>1. at[t] = from /\ at'[t] = to /\ \A u \in Threads : u # t => at'[u] = at[u]
  BY DEF TypeOK, Go
<1>2. Putting' = Putting /\ Taking' = Taking
  BY <1>1 DEF Putting, Taking, Threads
<1>3. /\ (\E p \in Putters : at'[p] = "advance_tail")
           <=> \E p \in Putters : at[p] = "advance_tail"
      /\ (\E g \in Getters : at'[g] = "advance_head")
           <=> \E g \in Getters : at[g] = "advance_head"
  BY <1>1 DEF Threads
<1> QED
  BY <1>2, <1>3 DEF Counted, Laps, Outstanding

-----------------------------------------------------------------------------
(* The steps that matter, one lemma each.                                  *)

(* An answer is stored: one more outstanding, and one putter on its way.   *)
LEMMA StoreKeeps ==
  ASSUME IInv, NEW p \in Putters, Store(p) PROVE IInv'
<1> USE AnswerBufferAssumption
<1>0. p \in Threads /\ TypeOK /\ Counted /\ Laps /\ Go(p, "store", "advance_tail")
  BY DEF IInv, Store, Threads
<1>1. /\ stored' = stored + 1 /\ buffer' = [buffer EXCEPT ![tail] = stored']
      /\ UNCHANGED <<head, tail, mtxBuffer, semaCntYVal, val, taken>>
  BY DEF Store
<1>2. at[p] = "store" /\ \A u \in Threads : at[u] \in Inside => u = p
  BY <1>0, Alone DEF Go, Inside
<1>3. /\ at' \in [Threads -> Steps] /\ mtxBuffer' \in Threads \cup {Nobody}
      /\ {u \in Threads : at'[u] \in Inside} = {mtxBuffer'} \ {Nobody}
  BY <1>0, <1>1, Exclusive DEF Inside, Steps
<1>4. /\ Taking' = Taking /\ Putting' = Putting \cup {p} /\ p \notin Putting
      /\ \A g \in Getters : at'[g] = at[g]
  BY <1>0, <1>2, PutterStep DEF Putting
<1>5. Cardinality(Putting') = Cardinality(Putting) + 1
  BY <1>4, CountsFinite, FS_AddElement
<1>6. stored \in Nat /\ Len(taken) \in Nat /\ Len(taken) <= stored
  BY <1>0, Numbers
<1>7. Counted'
  BY <1>0, <1>1, <1>4, <1>5, <1>6, CountsFinite, SMTT(30) DEF Counted, Outstanding, TypeOK
<1>8. TypeOK'
  <2>1. stored' \in Nat /\ 0 .. stored \subseteq 0 .. stored' /\ stored' \in 0 .. stored'
    BY <1>1, <1>6
  <2>2. buffer' \in [Slots -> 0 .. stored']
    BY <1>0, <1>1, <2>1 DEF TypeOK
  <2>3. taken' \in Seq(0 .. stored')
    <3>1. taken \in Seq(0 .. stored)
      BY <1>0 DEF TypeOK
    <3> QED
      BY <1>1, <2>1, <3>1, SeqMonotonic
  <2>4. val' \in [Getters -> 0 .. stored']
    BY <1>0, <1>1, <2>1 DEF TypeOK
  <2>5. semaCntYVal' \in 0 .. stored'
    BY <1>0, <1>1, <2>1 DEF TypeOK
  <2> QED
    BY <1>0, <1>1, <1>3, <2>1, <2>2, <2>3, <2>4, <2>5 DEF TypeOK, Steps
<1>9. Laps'
  <2>1. ~\E q \in Putters : at[q] = "advance_tail"
    BY <1>2 DEF Inside, Threads
  <2>2. at'[p] = "advance_tail"
    BY <1>0 DEF Go, TypeOK
  <2>3. stored' - 1 = stored
    BY <1>1, <1>6
  <2> QED
    BY <1>0, <1>1, <1>4, <2>1, <2>2, <2>3 DEF Laps
<1> QED
  BY <1>7, <1>8, <1>9 DEF IInv

(* tail comes up with what is stored.                                      *)
LEMMA AdvanceTailKeeps ==
  ASSUME IInv, NEW p \in Putters, AdvanceTail(p) PROVE IInv'
<1> USE AnswerBufferAssumption
<1>0. p \in Threads /\ TypeOK /\ Counted /\ Laps /\ Go(p, "advance_tail", "unlock_put")
  BY DEF IInv, AdvanceTail, Threads
<1>1. /\ tail' = (tail + 1) % BUF_LEN
      /\ UNCHANGED <<buffer, head, mtxBuffer, semaCntYVal, val, stored, taken>>
  BY DEF AdvanceTail
<1>2. at[p] = "advance_tail" /\ \A u \in Threads : at[u] \in Inside => u = p
  BY <1>0, Alone DEF Go, Inside
<1>3. /\ at' \in [Threads -> Steps] /\ mtxBuffer' \in Threads \cup {Nobody}
      /\ {u \in Threads : at'[u] \in Inside} = {mtxBuffer'} \ {Nobody}
  BY <1>0, <1>1, Exclusive DEF Inside, Steps
<1>4. /\ Taking' = Taking /\ Putting' = Putting
      /\ \A g \in Getters : at'[g] = at[g]
  BY <1>0, <1>2, PutterStep DEF Putting
<1>5. Counted'
  BY <1>0, <1>1, <1>4 DEF Counted, Outstanding
<1>6. stored \in Nat /\ BUF_LEN \in Nat \ {0}
  BY <1>0 DEF TypeOK
<1>7. tail' = stored % BUF_LEN
  <2>1. tail = (stored - 1) % BUF_LEN
    BY <1>0, <1>2 DEF Laps
  <2>2. (((stored - 1) % BUF_LEN) + 1) % BUF_LEN = ((stored - 1) + 1) % BUF_LEN
    <3>1. stored - 1 \in Int
      BY <1>6
    <3> QED
      BY <1>6, <3>1, RemainderNext, Zenon
  <2>3. (stored - 1) + 1 = stored
    BY <1>6
  <2> QED
    BY <1>1, <2>1, <2>2, <2>3
<1>8. TypeOK'
  <2>1. tail' \in Slots
    BY <1>6, <1>7, Remainder DEF Slots
  <2> QED
    BY <1>0, <1>1, <1>3, <2>1 DEF TypeOK, Steps
<1>9. Laps'
  <2>1. ~\E q \in Putters : at'[q] = "advance_tail"
    BY <1>0, <1>2 DEF Go, TypeOK, Inside, Threads
  <2> QED
    BY <1>0, <1>1, <1>4, <1>7, <2>1 DEF Laps
<1> QED
  BY <1>5, <1>8, <1>9 DEF IInv

(* A putter that is done counts its answer.                                *)
LEMMA PostKeeps ==
  ASSUME IInv, NEW p \in Putters, Post(p) PROVE IInv'
<1> USE AnswerBufferAssumption
<1>0. p \in Threads /\ TypeOK /\ Counted /\ Laps /\ Go(p, "post", "call") /\ at[p] = "post"
  BY DEF IInv, Post, Threads, Go
<1>1. /\ semaCntYVal' = semaCntYVal + 1
      /\ UNCHANGED <<buffer, head, tail, mtxBuffer, val, stored, taken>>
  BY DEF Post
<1>2. /\ at' \in [Threads -> Steps] /\ mtxBuffer' \in Threads \cup {Nobody}
      /\ {u \in Threads : at'[u] \in Inside} = {mtxBuffer'} \ {Nobody}
  BY <1>0, <1>1, Exclusive DEF Inside, Steps
<1>3. /\ Taking' = Taking /\ Putting' = Putting \ {p} /\ p \in Putting
      /\ \A g \in Getters : at'[g] = at[g]
  BY <1>0, PutterStep DEF Putting
<1>4. /\ Cardinality(Putting') = Cardinality(Putting) - 1
      /\ Cardinality(Putting') \in Nat /\ Cardinality(Taking') \in Nat
  BY <1>3, CountsFinite, FS_RemoveElement, FS_CardinalityType
<1>5. stored \in Nat /\ Len(taken) \in Nat /\ Len(taken) <= stored /\ semaCntYVal \in Nat
  BY <1>0, Numbers DEF TypeOK
<1>6. Counted'
  BY <1>0, <1>1, <1>3, <1>4, <1>5, CountsFinite DEF Counted, Outstanding
<1>7. TypeOK'
  <2>1. semaCntYVal' \in 0 .. stored'
    BY <1>1, <1>4, <1>5, <1>6 DEF Counted, Outstanding
  <2> QED
    BY <1>0, <1>1, <1>2, <2>1 DEF TypeOK, Steps
<1>8. Laps'
  <2>1. at'[p] = "call" /\ \A u \in Threads : u # p => at'[u] = at[u]
    BY <1>0 DEF Go, TypeOK
  <2>2. (\E q \in Putters : at'[q] = "advance_tail")
          <=> \E q \in Putters : at[q] = "advance_tail"
    BY <1>0, <2>1 DEF Threads
  <2> QED
    BY <1>0, <1>1, <1>3, <2>2 DEF Laps
<1> QED
  BY <1>6, <1>7, <1>8 DEF IInv

(* An answer is counted off for a getter on its way.                       *)
LEMMA WaitKeeps ==
  ASSUME IInv, NEW g \in Getters, Wait(g) PROVE IInv'
<1> USE AnswerBufferAssumption
<1>0. g \in Threads /\ TypeOK /\ Counted /\ Laps /\ Go(g, "wait", "lock_get") /\ at[g] = "wait"
  BY DEF IInv, Wait, Threads, Go
<1>1. /\ semaCntYVal > 0 /\ semaCntYVal' = semaCntYVal - 1
      /\ UNCHANGED <<buffer, head, tail, mtxBuffer, val, stored, taken>>
  BY DEF Wait
<1>2. /\ at' \in [Threads -> Steps] /\ mtxBuffer' \in Threads \cup {Nobody}
      /\ {u \in Threads : at'[u] \in Inside} = {mtxBuffer'} \ {Nobody}
  BY <1>0, <1>1, Exclusive DEF Inside, Steps
<1>3. /\ Putting' = Putting /\ Taking' = Taking \cup {g} /\ g \notin Taking
      /\ \A p \in Putters : at'[p] = at[p]
  BY <1>0, GetterStep DEF Taking
<1>4. Cardinality(Taking') = Cardinality(Taking) + 1
  BY <1>3, CountsFinite, FS_AddElement
<1>5. stored \in Nat /\ Len(taken) \in Nat /\ semaCntYVal \in 0 .. stored
  BY <1>0, Numbers DEF TypeOK
<1>6. Counted'
  BY <1>0, <1>1, <1>3, <1>4, <1>5, CountsFinite DEF Counted, Outstanding
<1>7. TypeOK'
  <2>1. semaCntYVal' \in 0 .. stored'
    BY <1>1, <1>5
  <2> QED
    BY <1>0, <1>1, <1>2, <2>1 DEF TypeOK, Steps
<1>8. Laps'
  <2>1. at'[g] = "lock_get" /\ \A u \in Threads : u # g => at'[u] = at[u]
    BY <1>0 DEF Go, TypeOK
  <2>2. (\E h \in Getters : at'[h] = "advance_head")
          <=> \E h \in Getters : at[h] = "advance_head"
    BY <1>0, <2>1 DEF Threads
  <2> QED
    BY <1>0, <1>1, <1>3, <2>2 DEF Laps
<1> QED
  BY <1>6, <1>7, <1>8 DEF IInv

(* An answer is read: one less outstanding, one getter less on its way.    *)
LEMMA LoadKeeps ==
  ASSUME IInv, NEW g \in Getters, Load(g) PROVE IInv'
<1> USE AnswerBufferAssumption
<1>0. g \in Threads /\ TypeOK /\ Counted /\ Laps /\ Go(g, "load", "advance_head")
  BY DEF IInv, Load, Threads
<1>1. /\ val' = [val EXCEPT ![g] = buffer[head]] /\ taken' = Append(taken, buffer[head])
      /\ UNCHANGED <<buffer, head, tail, mtxBuffer, semaCntYVal, stored>>
  BY DEF Load
<1>2. at[g] = "load" /\ \A u \in Threads : at[u] \in Inside => u = g
  BY <1>0, Alone DEF Go, Inside
<1>3. /\ at' \in [Threads -> Steps] /\ mtxBuffer' \in Threads \cup {Nobody}
      /\ {u \in Threads : at'[u] \in Inside} = {mtxBuffer'} \ {Nobody}
  BY <1>0, <1>1, Exclusive DEF Inside, Steps
<1>4. /\ Putting' = Putting /\ Taking' = Taking \ {g} /\ g \in Taking
      /\ \A p \in Putters : at'[p] = at[p]
  BY <1>0, <1>2, GetterStep DEF Taking
<1>5. Cardinality(Taking') = Cardinality(Taking) - 1
  BY <1>4, CountsFinite, FS_RemoveElement
<1>6. stored \in Nat /\ Len(taken) \in Nat /\ buffer[head] \in 0 .. stored
  BY <1>0, Numbers DEF TypeOK
<1>7. taken' \in Seq(0 .. stored) /\ Len(taken') = Len(taken) + 1
  BY <1>0, <1>1, <1>6 DEF TypeOK
<1>8. Counted'
  <2>1. semaCntYVal \in Nat
    BY <1>0, <1>6 DEF TypeOK
  <2>2. Outstanding' = Outstanding - 1 /\ Outstanding \in Int
    BY <1>1, <1>6, <1>7 DEF Outstanding
  <2>3. semaCntYVal' = semaCntYVal /\ Cardinality(Putting') = Cardinality(Putting)
    BY <1>1, <1>4
  <2> QED
    BY <1>0, <1>5, <2>1, <2>2, <2>3, CountsFinite DEF Counted
<1>9. TypeOK'
  BY <1>0, <1>1, <1>3, <1>6, <1>7 DEF TypeOK, Steps
<1>10. Laps'
  <2>1. ~\E h \in Getters : at[h] = "advance_head"
    BY <1>2 DEF Inside, Threads
  <2>2. at'[g] = "advance_head"
    BY <1>0 DEF Go, TypeOK
  <2>3. Len(taken') - 1 = Len(taken)
    BY <1>6, <1>7
  <2> QED
    BY <1>0, <1>1, <1>4, <2>1, <2>2, <2>3 DEF Laps
<1> QED
  BY <1>8, <1>9, <1>10 DEF IInv

(* head comes up with what is taken.                                       *)
LEMMA AdvanceHeadKeeps ==
  ASSUME IInv, NEW g \in Getters, AdvanceHead(g) PROVE IInv'
<1> USE AnswerBufferAssumption
<1>0. g \in Threads /\ TypeOK /\ Counted /\ Laps /\ Go(g, "advance_head", "unlock_get")
  BY DEF IInv, AdvanceHead, Threads
<1>1. /\ head' = (head + 1) % BUF_LEN
      /\ UNCHANGED <<buffer, tail, mtxBuffer, semaCntYVal, val, stored, taken>>
  BY DEF AdvanceHead
<1>2. at[g] = "advance_head" /\ \A u \in Threads : at[u] \in Inside => u = g
  BY <1>0, Alone DEF Go, Inside
<1>3. /\ at' \in [Threads -> Steps] /\ mtxBuffer' \in Threads \cup {Nobody}
      /\ {u \in Threads : at'[u] \in Inside} = {mtxBuffer'} \ {Nobody}
  BY <1>0, <1>1, Exclusive DEF Inside, Steps
<1>4. /\ Taking' = Taking /\ Putting' = Putting
      /\ \A p \in Putters : at'[p] = at[p]
  BY <1>0, <1>2, GetterStep DEF Taking
<1>5. Counted'
  BY <1>0, <1>1, <1>4 DEF Counted, Outstanding
<1>6. Len(taken) \in Nat /\ BUF_LEN \in Nat \ {0}
  BY <1>0 DEF TypeOK
<1>7. head' = Len(taken) % BUF_LEN
  <2>1. head = (Len(taken) - 1) % BUF_LEN
    BY <1>0, <1>2 DEF Laps
  <2>2. (((Len(taken) - 1) % BUF_LEN) + 1) % BUF_LEN = ((Len(taken) - 1) + 1) % BUF_LEN
    <3>1. Len(taken) - 1 \in Int
      BY <1>6
    <3> QED
      BY <1>6, <3>1, RemainderNext, Zenon
  <2>3. (Len(taken) - 1) + 1 = Len(taken)
    BY <1>6
  <2> QED
    BY <1>1, <2>1, <2>2, <2>3
<1>8. TypeOK'
  <2>1. head' \in Slots
    BY <1>6, <1>7, Remainder DEF Slots
  <2> QED
    BY <1>0, <1>1, <1>3, <2>1 DEF TypeOK, Steps
<1>9. Laps'
  <2>1. ~\E h \in Getters : at'[h] = "advance_head"
    BY <1>0, <1>2 DEF Go, TypeOK, Inside, Threads
  <2> QED
    BY <1>0, <1>1, <1>4, <1>7, <2>1 DEF Laps
<1> QED
  BY <1>5, <1>8, <1>9 DEF IInv

(* The calls and the steps of the mutex.                                   *)
LEMMA QuietKeeps ==
  ASSUME IInv,
         \/ \E p \in Putters : Receive(p) \/ LockPut(p) \/ UnlockPut(p)
         \/ \E g \in Getters : LockGet(g) \/ UnlockGet(g)
  PROVE  IInv'
<1>0. TypeOK /\ Counted /\ Laps
  BY DEF IInv
<1>1. ASSUME NEW p \in Putters, Receive(p) PROVE IInv'
  <2>1. /\ p \in Threads /\ Go(p, "call", "lock_put")
        /\ UNCHANGED <<buffer, head, tail, mtxBuffer, semaCntYVal, val, stored, taken>>
    BY <1>1 DEF Receive, Threads
  <2> QED
    BY <1>0, <2>1, Quiet, Exclusive DEF Inside, IInv, TypeOK, Steps
<1>2. ASSUME NEW p \in Putters, LockPut(p) PROVE IInv'
  <2>1. /\ p \in Threads /\ Go(p, "lock_put", "store") /\ mtxBuffer = Nobody /\ mtxBuffer' = p
        /\ UNCHANGED <<buffer, head, tail, semaCntYVal, val, stored, taken>>
    BY <1>2 DEF LockPut, Lock, Threads
  <2> QED
    BY <1>0, <2>1, Quiet, Exclusive DEF Inside, IInv, TypeOK, Steps
<1>3. ASSUME NEW p \in Putters, UnlockPut(p) PROVE IInv'
  <2>1. /\ p \in Threads /\ Go(p, "unlock_put", "post") /\ mtxBuffer' = Nobody
        /\ UNCHANGED <<buffer, head, tail, semaCntYVal, val, stored, taken>>
    BY <1>3 DEF UnlockPut, Unlock, Threads
  <2> QED
    BY <1>0, <2>1, Quiet, Exclusive DEF Inside, IInv, TypeOK, Steps
<1>4. ASSUME NEW g \in Getters, LockGet(g) PROVE IInv'
  <2>1. /\ g \in Threads /\ Go(g, "lock_get", "load") /\ mtxBuffer = Nobody /\ mtxBuffer' = g
        /\ UNCHANGED <<buffer, head, tail, semaCntYVal, val, stored, taken>>
    BY <1>4 DEF LockGet, Lock, Threads
  <2> QED
    BY <1>0, <2>1, Quiet, Exclusive DEF Inside, IInv, TypeOK, Steps
<1>5. ASSUME NEW g \in Getters, UnlockGet(g) PROVE IInv'
  <2>1. /\ g \in Threads /\ Go(g, "unlock_get", "wait") /\ mtxBuffer' = Nobody
        /\ UNCHANGED <<buffer, head, tail, semaCntYVal, val, stored, taken>>
    BY <1>5 DEF UnlockGet, Unlock, Threads
  <2> QED
    BY <1>0, <2>1, Quiet, Exclusive DEF Inside, IInv, TypeOK, Steps
<1> QED
  BY <1>1, <1>2, <1>3, <1>4, <1>5

(* The invariant holds in every reachable state.                           *)
THEOREM Invariance == Spec => []IInv
<1>1. Init => IInv
  <2> SUFFICES ASSUME Init PROVE IInv
    OBVIOUS
  <2>1. Putting = {} /\ Taking = {}
    BY AnswerBufferAssumption DEF Init, Putting, Taking, Threads
  <2>2. Counted
    BY <2>1, FS_EmptySet DEF Init, Counted, Outstanding
  <2>3. TypeOK
    BY AnswerBufferAssumption DEF Init, TypeOK, Slots, Threads, Inside
  <2>4. Laps
    <3>1. 0 % BUF_LEN = 0
      BY AnswerBufferAssumption, SMT
    <3>2. /\ ~\E p \in Putters : at[p] = "advance_tail"
          /\ ~\E g \in Getters : at[g] = "advance_head"
      BY AnswerBufferAssumption DEF Init, Threads
    <3> QED
      BY <3>1, <3>2 DEF Init, Laps
  <2> QED
    BY <2>2, <2>3, <2>4 DEF IInv
<1>2. IInv /\ [Next]_vars => IInv'
  <2> SUFFICES ASSUME IInv, [Next]_vars PROVE IInv'
    OBVIOUS
  <2>1. ASSUME NEW p \in Putters, put_item_in_buffer(p) PROVE IInv'
    BY <2>1, QuietKeeps, StoreKeeps, AdvanceTailKeeps, PostKeeps DEF put_item_in_buffer
  <2>2. ASSUME NEW g \in Getters, get_item_from_buffer(g) PROVE IInv'
    BY <2>2, QuietKeeps, WaitKeeps, LoadKeeps, AdvanceHeadKeeps DEF get_item_from_buffer
  <2>3. ASSUME UNCHANGED vars PROVE IInv'
    BY <2>3 DEF vars, IInv, TypeOK, Counted, Outstanding, Putting, Taking, Laps
  <2> QED
    BY <2>1, <2>2, <2>3 DEF Next
<1> QED
  BY <1>1, <1>2, PTL DEF Spec

-----------------------------------------------------------------------------
(* The refinement.                                                         *)

(* Adding any number and going round commute.                              *)
LEMMA RemainderPlus ==
  ASSUME NEW n \in Nat \ {0}, NEW a \in Int, NEW j \in Int
  PROVE  ((a % n) + j) % n = (a + j) % n
<1> DEFINE m == a % n
<1>1. m \in Int
  BY Remainder
<1>2. PICK q \in Int : a = q * n + m
  BY Remainder
<1> HIDE DEF m
<1>3. (q * n + 0) % n = 0
  BY RemainderUnique
<1>4. (a + j) - (m + j) = q * n + 0
  BY <1>1, <1>2, Distribute
<1>5. m + j \in Int /\ a + j \in Int
  BY <1>1
<1>6. (m + j) % n = (a + j) % n
  <2> DEFINE c == m + j
             d == a + j
  <2>1. c \in Int /\ d \in Int /\ d - c = q * n + 0
    BY <1>4, <1>5
  <2> HIDE DEF c, d
  <2>2. c % n = d % n <=> (d - c) % n = 0
    BY <2>1, SameSlot, Zenon
  <2> QED
    BY <1>3, <2>1, <2>2, Zenon DEF c, d
<1> QED
  BY <1>6 DEF m

(* A remainder is an index of the buffer.                                  *)
LEMMA InSlots ==
  ASSUME NEW n \in Nat \ {0}, NEW a \in Int PROVE a % n \in 0 .. n - 1
<1> DEFINE m == a % n
<1>1. m \in Int /\ 0 <= m /\ m < n
  BY Remainder
<1> HIDE DEF m
<1>2. m \in 0 .. n - 1
  BY <1>1
<1> QED
  BY <1>2 DEF m

(* The numbers of a state that satisfies the invariant.                    *)
LEMMA Facts ==
  ASSUME IInv
  PROVE  /\ BUF_LEN \in Nat \ {0} /\ stored \in Nat /\ Len(taken) \in Nat
         /\ Outstanding \in Nat /\ Outstanding = stored - Len(taken)
         /\ buffer \in [0 .. BUF_LEN - 1 -> Nat]
<1>1. BUF_LEN \in Nat \ {0}
  BY AnswerBufferAssumption
<1>2. stored \in Nat /\ Len(taken) \in Nat /\ Outstanding \in Nat
  BY Numbers DEF IInv
<1>3. buffer \in [0 .. BUF_LEN - 1 -> Nat]
  <2>1. buffer \in [0 .. BUF_LEN - 1 -> 0 .. stored]
    BY DEF IInv, TypeOK, Slots
  <2>2. 0 .. stored \subseteq Nat
    BY <1>2
  <2> QED
    BY <2>1, <2>2
<1> QED
  BY <1>1, <1>2, <1>3 DEF Outstanding

(* The same of the next state, as far as it is used.                       *)
LEMMA FactsNext ==
  ASSUME IInv'
  PROVE  BUF_LEN \in Nat \ {0} /\ Len(taken') \in Nat
  BY AnswerBufferAssumption DEF IInv, TypeOK

(* Where the answers the gets to come return are: at the slots after those *)
(* of the answers taken.                                                   *)
LEMMA SlotOf ==
  ASSUME NEW n \in Nat \ {0}, NEW t \in Nat, NEW k \in Int
  PROVE  /\ ((t % n) + k - 1) % n = (t + k - 1) % n
         /\ (((t - 1) % n) + 1 + k - 1) % n = (t + k - 1) % n
<1> DEFINE g == t % n
           h == (t - 1) % n
<1>1. /\ k - 1 \in Int /\ t \in Int /\ t - 1 \in Int
      /\ g \in Int /\ h \in Int
  BY Remainder
<1>2. (g + (k - 1)) % n = (t + (k - 1)) % n /\ (h + k) % n = ((t - 1) + k) % n
  BY <1>1, RemainderPlus, Zenon
<1> HIDE DEF g, h
<1>3. /\ g + k - 1 = g + (k - 1) /\ h + 1 + k - 1 = h + k
      /\ t + k - 1 = t + (k - 1) /\ t + k - 1 = (t - 1) + k
  BY <1>1
<1> QED
  BY <1>2, <1>3, Zenon DEF g, h

(* The queue that the buffer stands for.                                   *)
Answers == [k \in 1 .. Outstanding |-> buffer[(First + k - 1) % BUF_LEN]]

(* They are found by the number of answers taken alone,                    *)
LEMMA AnswersAre ==
  ASSUME IInv
  PROVE  Answers = [k \in 1 .. Outstanding |-> buffer[(Len(taken) + k - 1) % BUF_LEN]]
<1>1. \/ First = head /\ head = Len(taken) % BUF_LEN
      \/ First = head + 1 /\ head = (Len(taken) - 1) % BUF_LEN
  BY Zenon DEF IInv, Laps, First
<1>2. \A k \in Int : (First + k - 1) % BUF_LEN = (Len(taken) + k - 1) % BUF_LEN
  <2> SUFFICES ASSUME NEW k \in Int
               PROVE  (First + k - 1) % BUF_LEN = (Len(taken) + k - 1) % BUF_LEN
    OBVIOUS
  <2>1. BUF_LEN \in Nat \ {0} /\ Len(taken) \in Nat
    BY Facts
  <2>2. CASE First = head /\ head = Len(taken) % BUF_LEN
    BY <2>1, <2>2, SlotOf, Zenon
  <2>3. CASE First = head + 1 /\ head = (Len(taken) - 1) % BUF_LEN
    BY <2>1, <2>3, SlotOf, Zenon
  <2> QED
    BY <1>1, <2>2, <2>3, Zenon
<1> QED
  BY <1>2 DEF Answers

(* in the next state too.                                                  *)
LEMMA AnswersWillBe ==
  ASSUME IInv'
  PROVE  Answers' = [k \in 1 .. Outstanding' |-> buffer'[(Len(taken') + k - 1) % BUF_LEN]]
<1>1. \/ First' = head' /\ head' = Len(taken') % BUF_LEN
      \/ First' = head' + 1 /\ head' = (Len(taken') - 1) % BUF_LEN
  BY Zenon DEF IInv, Laps, First
<1>2. \A k \in Int : (First' + k - 1) % BUF_LEN = (Len(taken') + k - 1) % BUF_LEN
  <2> SUFFICES ASSUME NEW k \in Int
               PROVE  (First' + k - 1) % BUF_LEN = (Len(taken') + k - 1) % BUF_LEN
    OBVIOUS
  <2>1. BUF_LEN \in Nat \ {0} /\ Len(taken') \in Nat
    BY FactsNext
  <2>2. CASE First' = head' /\ head' = Len(taken') % BUF_LEN
    BY <2>1, <2>2, SlotOf, Zenon
  <2>3. CASE First' = head' + 1 /\ head' = (Len(taken') - 1) % BUF_LEN
    BY <2>1, <2>3, SlotOf, Zenon
  <2> QED
    BY <1>1, <2>2, <2>3, Zenon
<1> QED
  BY <1>2 DEF Answers

(* They are a sequence as long as the number of answers outstanding.       *)
LEMMA AnswersType ==
  ASSUME IInv
  PROVE  Answers \in Seq(Nat) /\ Len(Answers) = Outstanding /\ Outstanding \in Nat
<1>1. /\ Outstanding \in Nat /\ Len(taken) \in Nat
      /\ BUF_LEN \in Nat \ {0} /\ buffer \in [0 .. BUF_LEN - 1 -> Nat]
  BY Facts
<1>2. ASSUME NEW k \in 1 .. Outstanding
      PROVE  (Len(taken) + k - 1) % BUF_LEN \in 0 .. BUF_LEN - 1
  <2>1. Len(taken) + k - 1 \in Int
    BY <1>1
  <2> QED
    BY <1>1, <2>1, InSlots, Zenon
<1>3. Answers \in [1 .. Outstanding -> Nat]
  BY <1>1, <1>2, AnswersAre, Zenon
<1>4. Answers \in Seq(Nat)
  BY <1>1, <1>3, SeqDef
<1>5. Len(Answers) \in Nat /\ DOMAIN Answers = 1 .. Len(Answers)
  BY <1>4, LenProperties
<1>6. DOMAIN Answers = 1 .. Outstanding
  BY <1>3
<1>7. Len(Answers) = Outstanding
  <2> DEFINE n == Len(Answers)
  <2>1. n \in Nat /\ 1 .. n = 1 .. Outstanding
    BY <1>5, <1>6
  <2> HIDE DEF n
  <2>2. n = Outstanding
    BY <1>1, <2>1
  <2> QED
    BY <2>2 DEF n
<1> QED
  BY <1>1, <1>4, <1>7

(* The store of a put is the Put of the queue.                             *)
LEMMA StoreIsPut ==
  ASSUME IInv, IInv', NEW p \in Putters, Store(p)
  PROVE  Queue!Put
<1> DEFINE B == BUF_LEN
           T == Len(taken)
<1>1. /\ stored' = stored + 1 /\ buffer' = [buffer EXCEPT ![tail] = stored']
      /\ UNCHANGED <<val, taken>>
  BY DEF Store
<1>2. /\ stored \in Nat /\ T \in Nat /\ B \in Nat \ {0} /\ Outstanding = stored - T
      /\ buffer \in [0 .. B - 1 -> Nat]
  BY Facts
<1>3. tail = stored % B
  <2>1. \A u \in Threads : at[u] \in Inside => u = p
    BY Alone DEF IInv, Store, Go, Inside, Threads
  <2>2. ~\E q \in Putters : at[q] = "advance_tail"
    BY <2>1 DEF Store, Go, Inside, Threads
  <2> QED
    BY <2>2 DEF IInv, Laps
<1>4. Outstanding' = Outstanding + 1 /\ Len(Answers) = Outstanding /\ Outstanding \in Nat
  BY <1>1, <1>2, AnswersType DEF Outstanding
<1>5. ASSUME NEW k \in 1 .. Outstanding + 1
      PROVE  buffer'[(T + k - 1) % B] =
               IF (Outstanding + 1 - k) % B = 0 THEN stored' ELSE Answers[k]
  <2> DEFINE a == T + k - 1
  <2>1. a \in Int /\ stored \in Int /\ stored - a = Outstanding + 1 - k
    BY <1>2
  <2>2. a % B \in 0 .. B - 1
    BY <1>2, <2>1, InSlots, Zenon
  <2>3. a % B = stored % B <=> (stored - a) % B = 0
    BY <1>2, <2>1, SameSlot, Zenon
  <2>4. CASE a % B = tail
    <3>1. buffer'[a % B] = stored'
      BY <1>1, <1>2, <2>2, <2>4
    <3> QED
      BY <1>3, <2>1, <2>3, <2>4, <3>1
  <2>5. CASE a % B # tail
    <3>1. buffer'[a % B] = buffer[a % B]
      BY <1>1, <1>2, <2>2, <2>5
    <3>2. (Outstanding + 1 - k) % B # 0
      BY <1>3, <2>1, <2>3, <2>5
    <3>3. k # Outstanding + 1
      <4>1. 0 % B = 0
        BY <1>2, SMT
      <4>2. ASSUME k = Outstanding + 1 PROVE Outstanding + 1 - k = 0
        BY <4>2, <1>4
      <4> QED
        BY <3>2, <4>1, <4>2
    <3>4. k \in 1 .. Outstanding
      BY <1>4, <3>3
    <3>5. Answers[k] = buffer[a % B]
      BY <3>4, AnswersAre
    <3> QED
      BY <3>1, <3>2, <3>5
  <2> QED
    BY <2>4, <2>5
<1>6. Answers' = [k \in 1 .. Outstanding + 1 |->
                    IF (Outstanding + 1 - k) % B = 0 THEN stored' ELSE Answers[k]]
  <2>1. Answers' = [k \in 1 .. Outstanding + 1 |-> buffer'[(T + k - 1) % B]]
    BY <1>1, <1>4, AnswersWillBe
  <2> HIDE DEF B, T
  <2> QED
    BY <1>5, <2>1, Zenon
<1> QED
  BY <1>1, <1>4, <1>6, ZenonT(60) DEF Queue!Put, Answers

(* The tail of a sequence, written as a function.                          *)
LEMMA TailIs ==
  ASSUME NEW S, NEW s \in Seq(S), s # <<>>
  PROVE  Tail(s) = [k \in 1 .. Len(s) - 1 |-> s[k + 1]]
<1> DEFINE t == Tail(s)
           n == Len(s) - 1
<1>1. /\ t \in Seq(S) /\ Len(t) = n /\ \A i \in 1 .. Len(t) : t[i] = s[i + 1]
  BY HeadTailProperties, Zenon
<1> HIDE DEF t, n
<1>2. t \in [1 .. Len(t) -> S]
  BY <1>1, LenProperties
<1>3. t = [k \in 1 .. n |-> s[k + 1]]
  BY <1>1, <1>2, Zenon
<1> QED
  BY <1>3 DEF t, n

(* The read of a get is the Get of the queue.                              *)
LEMMA LoadIsGet ==
  ASSUME IInv, IInv', NEW g \in Getters, Load(g)
  PROVE  Queue!Get(g)
<1> DEFINE B == BUF_LEN
           T == Len(taken)
<1>1. /\ val' = [val EXCEPT ![g] = buffer[head]] /\ taken' = Append(taken, buffer[head])
      /\ UNCHANGED <<buffer, stored>>
  BY DEF Load
<1>2. /\ stored \in Nat /\ T \in Nat /\ B \in Nat \ {0} /\ Outstanding = stored - T
      /\ Outstanding >= 1 /\ Outstanding \in Nat /\ Len(taken') = T + 1
  <2>1. g \in Taking /\ g \in Threads
    BY DEF Load, Go, Taking, Threads
  <2>2. Outstanding >= 1
    BY <2>1, Numbers DEF IInv
  <2>3. Len(taken') = T + 1
    BY <1>1 DEF IInv, TypeOK
  <2> QED
    BY <2>2, <2>3, Facts
<1>3. head = T % B
  <2>1. \A u \in Threads : at[u] \in Inside => u = g
    BY Alone DEF IInv, Load, Go, Inside, Threads
  <2>2. ~\E h \in Getters : at[h] = "advance_head"
    BY <2>1 DEF Load, Go, Inside, Threads
  <2> QED
    BY <2>2 DEF IInv, Laps
<1>4. Answers \in Seq(Nat) /\ Len(Answers) = Outstanding
  BY AnswersType
<1>5. Answers # <<>>
  BY <1>2, <1>4, EmptySeq
<1>6. Head(Answers) = buffer[head]
  <2>1. Answers[1] = buffer[(T + 1 - 1) % B]
    BY <1>2, AnswersAre
  <2>2. T + 1 - 1 = T
    BY <1>2
  <2>3. Head(Answers) = Answers[1]
    BY <1>4, <1>5, HeadTailProperties
  <2> QED
    BY <1>3, <2>1, <2>2, <2>3
<1>7. Answers' = Tail(Answers)
  <2>1. Outstanding' = Outstanding - 1
    BY <1>1, <1>2 DEF Outstanding
  <2>2. Answers' = [k \in 1 .. Outstanding - 1 |-> buffer[(T + 1 + k - 1) % B]]
    BY <1>1, <1>2, <2>1, AnswersWillBe
  <2>3. ASSUME NEW k \in 1 .. Outstanding - 1
        PROVE  Answers[k + 1] = buffer[(T + 1 + k - 1) % B]
    <3>1. k + 1 \in 1 .. Outstanding /\ T + (k + 1) - 1 = T + 1 + k - 1
      BY <1>2
    <3> QED
      BY <3>1, AnswersAre
  <2>4. Tail(Answers) = [k \in 1 .. Outstanding - 1 |-> Answers[k + 1]]
    <3> DEFINE s == Answers
               n == Outstanding
    <3>1. s \in Seq(Nat) /\ s # <<>> /\ Len(s) = n /\ n \in Nat
      BY <1>2, <1>4, <1>5
    <3> HIDE DEF s, n
    <3>2. Tail(s) = [k \in 1 .. n - 1 |-> s[k + 1]]
      BY <3>1, TailIs
    <3> QED
      BY <3>2 DEF s, n
  <2> HIDE DEF B, T
  <2> QED
    BY <2>2, <2>3, <2>4, Zenon
<1> QED
  BY <1>1, <1>5, <1>6, <1>7 DEF Queue!Get, Answers

(* Nothing else shows.                                                     *)
LEMMA OthersStutter ==
  ASSUME IInv, IInv', UNCHANGED <<buffer, val, stored, taken>>
  PROVE  UNCHANGED <<Answers, stored, val>>
<1>1. Outstanding' = Outstanding
  BY DEF Outstanding
<1> QED
  BY <1>1, AnswersAre, AnswersWillBe

(* The buffer starts as an empty queue.                                    *)
LEMMA InitRefines == Init => Queue!Init
<1> SUFFICES ASSUME Init PROVE Queue!Init
  OBVIOUS
<1>1. Outstanding = 0
  <2>1. Len(taken) = 0
    BY EmptySeq, Zenon DEF Init
  <2>2. stored = 0
    BY DEF Init
  <2> QED
    BY <2>1, <2>2 DEF Outstanding
<1>2. 1 .. Outstanding = {}
  BY <1>1
<1> QED
  BY <1>2 DEF Init, Queue!Init

(* A step puts, gets, or does not show.                                    *)
LEMMA StepRefines ==
  IInv /\ IInv' /\ [Next]_vars => [Queue!Next]_<<Answers, stored, val>>
<1> SUFFICES ASSUME IInv, IInv', [Next]_vars
             PROVE  Queue!Next \/ UNCHANGED <<Answers, stored, val>>
  OBVIOUS
<1>1. ASSUME NEW p \in Putters, put_item_in_buffer(p)
      PROVE  Queue!Next \/ UNCHANGED <<Answers, stored, val>>
  <2>1. CASE Store(p)
    BY <2>1, StoreIsPut DEF Queue!Next
  <2>2. CASE ~Store(p)
    <3>1. UNCHANGED <<buffer, val, stored, taken>>
      BY <1>1, <2>2 DEF put_item_in_buffer, Receive, LockPut, Lock, AdvanceTail,
                        UnlockPut, Unlock, Post
    <3> QED
      BY <3>1, OthersStutter
  <2> QED
    BY <2>1, <2>2
<1>2. ASSUME NEW g \in Getters, get_item_from_buffer(g)
      PROVE  Queue!Next \/ UNCHANGED <<Answers, stored, val>>
  <2>1. CASE Load(g)
    BY <2>1, LoadIsGet DEF Queue!Next
  <2>2. CASE ~Load(g)
    <3>1. UNCHANGED <<buffer, val, stored, taken>>
      BY <1>2, <2>2 DEF get_item_from_buffer, Wait, LockGet, Lock, AdvanceHead,
                        UnlockGet, Unlock
    <3> QED
      BY <3>1, OthersStutter
  <2> QED
    BY <2>1, <2>2
<1>3. CASE UNCHANGED vars
  <2>1. UNCHANGED <<buffer, val, stored, taken>>
    BY <1>3 DEF vars
  <2> QED
    BY <2>1, OthersStutter
<1> QED
  BY <1>1, <1>2, <1>3 DEF Next

(* The types of the buffer, and that one thread at most is between lock    *)
(* and unlock, for any number of threads.                                  *)
THEOREM TypeCorrect == Spec => []TypeOK
BY Invariance, PTL DEF IInv

(* For every length and any number of threads and answers, with room for   *)
(* them or without, the ring buffer is the queue AnswerQueue describes.    *)
THEOREM Refinement == Spec => ImplementsQueue
BY InitRefines, StepRefines, Invariance, PTL DEF Spec, ImplementsQueue, Queue!Spec, Answers

-----------------------------------------------------------------------------
(* The controller. What is under way is counted by its places in the two   *)
(* queues of datagrams; a datagram that is sent, received, lost or         *)
(* repeated leaves a gap, or fills one.                                    *)

Requests == [kind : {"START", "SET", "GET", "STOP", "SIGNAL_ACK"}, n : Nat]
Replies == [kind : {"SIGNAL", "GET_ACK"}, n : Nat]
Datagram == Requests \cup Replies

Places ==
  {"none", "done", "init", "init2", "create1", "create2", "create3", "join1", "join2",
   "join3", "START", "activate", "activate2", "SET", "loop", "get", "calculate", "STOP",
   "deactivate", "deactivate2", "test", "test2", "tested", "receive", "wait", "SIGNAL_ACK"}

(* The places of a sequence of datagrams where a GET or an answer is, and  *)
(* how many of them come after the i-th.                                   *)
OfGets(s) == {i \in 1 .. Len(s) : OfGet(s[i])}
LaterThan(s, i) == {j \in OfGets(s) : j > i}
Later(s, i) == Cardinality(LaterThan(s, i))

(* w is s with one more datagram, at i.                                    *)
Gap(w, s, i) ==
  /\ i \in 1 .. Len(w) /\ Len(s) = Len(w) - 1
  /\ \A j \in 1 .. Len(s) : s[j] = IF j < i THEN w[j] ELSE w[j + 1]

One(m) == IF OfGet(m) THEN 1 ELSE 0

(* What RemoveAt takes out and InsertAt puts in is one datagram.           *)
LEMMA GapOfRemoveAt ==
  ASSUME NEW S, NEW s \in Seq(S), NEW i \in 1 .. Len(s)
  PROVE  RemoveAt(s, i) \in Seq(S) /\ Gap(s, RemoveAt(s, i), i)
<1>1. /\ SubSeq(s, 1, i - 1) \in Seq(S) /\ Len(SubSeq(s, 1, i - 1)) = i - 1
      /\ \A j \in 1 .. i - 1 : SubSeq(s, 1, i - 1)[j] = s[j]
  BY SMT
<1>2. /\ SubSeq(s, i + 1, Len(s)) \in Seq(S)
      /\ Len(SubSeq(s, i + 1, Len(s))) = Len(s) - i
      /\ \A j \in 1 .. Len(s) - i : SubSeq(s, i + 1, Len(s))[j] = s[i + j]
  BY SMT
<1> DEFINE a == SubSeq(s, 1, i - 1)
           b == SubSeq(s, i + 1, Len(s))
<1>3. RemoveAt(s, i) = a \o b
  BY DEF RemoveAt
<1> HIDE DEF a, b
<1>4. /\ a \o b \in Seq(S) /\ Len(a \o b) = Len(s) - 1 /\ Len(s) \in Nat
      /\ \A j \in 1 .. Len(s) - 1 : (a \o b)[j] = IF j < i THEN s[j] ELSE s[j + 1]
  <2>1. /\ a \in Seq(S) /\ Len(a) = i - 1 /\ \A j \in 1 .. i - 1 : a[j] = s[j]
    BY <1>1 DEF a
  <2>2. /\ b \in Seq(S) /\ Len(b) = Len(s) - i
        /\ \A j \in 1 .. Len(s) - i : b[j] = s[i + j]
    BY <1>2 DEF b
  <2>3. /\ a \o b \in Seq(S) /\ Len(a \o b) = Len(a) + Len(b)
        /\ \A j \in 1 .. Len(a) + Len(b) : (a \o b)[j] =
             IF j <= Len(a) THEN a[j] ELSE b[j - Len(a)]
    BY <2>1, <2>2, ConcatProperties
  <2>4. ASSUME NEW j \in 1 .. Len(s) - 1
        PROVE  (a \o b)[j] = IF j < i THEN s[j] ELSE s[j + 1]
    <3>1. CASE j < i
      BY <2>1, <2>2, <2>3, <3>1, SMT
    <3>2. CASE ~(j < i)
      <4>1. j - (i - 1) \in 1 .. Len(s) - i /\ i + (j - (i - 1)) = j + 1
        BY <3>2, SMT
      <4>2. b[j - (i - 1)] = s[j + 1]
        BY <2>2, <4>1
      <4> QED
        BY <2>1, <2>2, <2>3, <3>2, <4>2, SMT
    <3> QED
      BY <3>1, <3>2
  <2> QED
    BY <2>1, <2>2, <2>3, <2>4, SMT
<1> QED
  BY <1>3, <1>4, SMT DEF Gap

(* An insertion makes the sequence longer by one datagram, where it is.    *)
LEMMA GapOfInsertAt ==
  ASSUME NEW S, NEW s \in Seq(S), NEW i \in 1 .. Len(s), NEW m \in S
  PROVE  /\ InsertAt(s, i, m) \in Seq(S) /\ Gap(InsertAt(s, i, m), s, i)
         /\ InsertAt(s, i, m)[i] = m
<1>1. /\ SubSeq(s, 1, i - 1) \in Seq(S) /\ Len(SubSeq(s, 1, i - 1)) = i - 1
      /\ \A j \in 1 .. i - 1 : SubSeq(s, 1, i - 1)[j] = s[j]
  BY SMT
<1>2. /\ SubSeq(s, i, Len(s)) \in Seq(S)
      /\ Len(SubSeq(s, i, Len(s))) = Len(s) - i + 1
      /\ \A j \in 1 .. Len(s) - i + 1 : SubSeq(s, i, Len(s))[j] = s[i + j - 1]
  BY SMT
<1>3. <<m>> \in Seq(S) /\ Len(<<m>>) = 1 /\ <<m>>[1] = m
  OBVIOUS
<1> DEFINE front == SubSeq(s, 1, i - 1) \o <<m>>
<1>4. /\ front \in Seq(S) /\ Len(front) = i /\ front[i] = m
      /\ \A j \in 1 .. i - 1 : front[j] = s[j]
  BY <1>1, <1>3, ConcatProperties, SMT
<1>5. InsertAt(s, i, m) = front \o SubSeq(s, i, Len(s))
  BY DEF InsertAt
<1> DEFINE b == SubSeq(s, i, Len(s))
<1> HIDE DEF front, b
<1>6. /\ front \o b \in Seq(S) /\ Len(front \o b) = Len(s) + 1 /\ Len(s) \in Nat
      /\ \A j \in 1 .. Len(s) + 1 :
           (front \o b)[j] = IF j <= i THEN front[j] ELSE s[j - 1]
  <2>1. /\ b \in Seq(S) /\ Len(b) = Len(s) - i + 1 /\ Len(s) \in Nat
        /\ \A j \in 1 .. Len(s) - i + 1 : b[j] = s[i + j - 1]
    BY <1>2 DEF b
  <2>2. /\ front \o b \in Seq(S) /\ Len(front \o b) = Len(front) + Len(b)
        /\ \A j \in 1 .. Len(front) + Len(b) : (front \o b)[j] =
             IF j <= Len(front) THEN front[j] ELSE b[j - Len(front)]
    BY <1>4, <2>1, ConcatProperties
  <2>3. ASSUME NEW j \in 1 .. Len(s) + 1, ~(j <= i) PROVE (front \o b)[j] = s[j - 1]
    <3>1. /\ j \in 1 .. Len(front) + Len(b) /\ j - i \in 1 .. Len(s) - i + 1
          /\ i + (j - i) - 1 = j - 1
      BY <1>4, <2>1, <2>3, SMT
    <3>2. b[j - i] = s[j - 1]
      BY <2>1, <3>1
    <3> QED
      BY <1>4, <2>2, <2>3, <3>1, <3>2
  <2> QED
    BY <1>4, <2>1, <2>2, <2>3, SMT
<1>7. InsertAt(s, i, m) = front \o b
  BY <1>5 DEF b
<1>8. (front \o b)[i] = m /\ i \in 1 .. Len(front \o b) /\ Len(s) = Len(front \o b) - 1
  BY <1>4, <1>6
<1>9. ASSUME NEW j \in 1 .. Len(s)
      PROVE  s[j] = IF j < i THEN (front \o b)[j] ELSE (front \o b)[j + 1]
  <2>1. /\ j \in 1 .. Len(s) + 1 /\ j + 1 \in 1 .. Len(s) + 1 /\ (j + 1) - 1 = j
        /\ j < i => j <= i /\ j \in 1 .. i - 1
        /\ ~(j < i) => ~(j + 1 <= i)
    BY <1>6
  <2>2. CASE j < i
    BY <1>4, <1>6, <2>1, <2>2
  <2>3. CASE ~(j < i)
    BY <1>6, <2>1, <2>3
  <2> QED
    BY <2>2, <2>3
<1> QED
  BY <1>6, <1>7, <1>8, <1>9 DEF Gap

(* The same of Append at the end, and of Tail at the beginning.            *)
LEMMA GapOfAppend ==
  ASSUME NEW S, NEW s \in Seq(S), NEW m \in S
  PROVE  /\ Append(s, m) \in Seq(S) /\ Gap(Append(s, m), s, Len(s) + 1)
         /\ Append(s, m)[Len(s) + 1] = m
  BY SMT DEF Gap

(* And a sequence is its tail with one more datagram, at 1.                *)
LEMMA GapOfTail ==
  ASSUME NEW S, NEW s \in Seq(S), s # <<>>
  PROVE  Tail(s) \in Seq(S) /\ Gap(s, Tail(s), 1) /\ Head(s) = s[1] /\ s[1] \in S
  BY SMT DEF Gap

(* The number of later ones is a number, and no more from further on.      *)
LEMMA LaterType ==
  ASSUME NEW s \in Seq(Datagram), NEW i \in Nat
  PROVE  /\ Later(s, i) \in Nat /\ IsFiniteSet(LaterThan(s, i))
         /\ \A j \in Nat : i <= j => Later(s, j) <= Later(s, i)
<1>1. LaterThan(s, i) \subseteq 1 .. Len(s) /\ IsFiniteSet(1 .. Len(s))
  BY FS_Interval DEF LaterThan, OfGets
<1>2. IsFiniteSet(LaterThan(s, i))
  BY <1>1, FS_Subset
<1>3. ASSUME NEW j \in Nat, i <= j PROVE LaterThan(s, j) \subseteq LaterThan(s, i)
  BY <1>3, SMT DEF LaterThan, OfGets
<1> QED
  BY <1>2, <1>3, FS_Subset, FS_CardinalityType DEF Later

(* One more datagram, at i, is one more for the places before i, if it is  *)
(* of a GET, and moves the others by one.                                  *)
LEMMA LaterOfGap ==
  ASSUME NEW w \in Seq(Datagram), NEW s \in Seq(Datagram), NEW i, Gap(w, s, i),
         NEW p \in 0 .. Len(s)
  PROVE  /\ p >= i => Later(w, p + 1) = Later(s, p)
         /\ p < i => Later(w, p) = Later(s, p) + One(w[i])
<1>0. /\ i \in 1 .. Len(w) /\ Len(s) = Len(w) - 1 /\ Len(w) \in Nat
      /\ i \in Nat /\ p \in Nat /\ p + 1 \in Nat
      /\ \A j \in 1 .. Len(s) : s[j] = IF j < i THEN w[j] ELSE w[j + 1]
  BY DEF Gap
<1> DEFINE q == IF p < i THEN p ELSE p + 1
           From == LaterThan(s, p)
           To == LaterThan(w, q) \ {i}
           f == [j \in From |-> IF j < i THEN j ELSE j + 1]
<1>a. \A j : j \in From <=> j \in 1 .. Len(s) /\ OfGet(s[j]) /\ j > p
  BY DEF LaterThan, OfGets
<1>b. \A j : j \in To <=> j \in 1 .. Len(w) /\ OfGet(w[j]) /\ j > q /\ j # i
  BY DEF LaterThan, OfGets
<1> HIDE DEF From, To
<1>1. f \in Bijection(From, To)
  <2>1. ASSUME NEW j \in From PROVE (IF j < i THEN j ELSE j + 1) \in To
    <3>1. CASE j < i
      BY <1>0, <1>a, <1>b, <3>1, SMT
    <3>2. CASE ~(j < i)
      <4>1. j \in 1 .. Len(s) /\ OfGet(s[j]) /\ j > p
        BY <1>a
      <4>2. s[j] = w[j + 1]
        BY <1>0, <3>2, <4>1
      <4>3. j + 1 \in 1 .. Len(w) /\ j + 1 > q /\ j + 1 # i
        BY <1>0, <3>2, <4>1, SMT
      <4> QED
        BY <1>b, <3>2, <4>1, <4>2, <4>3
    <3> QED
      BY <3>1, <3>2
  <2>2. f \in [From -> To]
    BY <2>1
  <2>3. \A a, b \in From : f[a] = f[b] => a = b
    BY <1>0, <1>a, SMT
  <2>4. ASSUME NEW j \in To PROVE \E a \in From : f[a] = j
    <3>1. CASE j < i
      BY <1>0, <1>a, <1>b, <2>4, <3>1, SMTT(30)
    <3>2. CASE j > i
      <4>0. j \in 2 .. Len(w) /\ OfGet(w[j]) /\ j > q
        BY <1>0, <1>b, <2>4, <3>2, SMT
      <4>1. j - 1 \in 1 .. Len(s) /\ ~(j - 1 < i) /\ (j - 1) + 1 = j /\ j - 1 > p
        BY <1>0, <3>2, <4>0, SMT
      <4>2. s[j - 1] = w[j]
        BY <1>0, <4>1
      <4>3. j - 1 \in From
        BY <1>a, <4>0, <4>1, <4>2
      <4> QED
        BY <4>1, <4>3
    <3> QED
      BY <1>0, <1>b, <2>4, <3>1, <3>2, SMT
  <2> QED
    BY <2>2, <2>3, <2>4 DEF Bijection, Injection, Surjection, IsInjective
<1>2. Cardinality(LaterThan(w, q) \ {i}) = Later(s, p)
  <2>1. IsFiniteSet(From)
    BY <1>0, LaterType DEF From
  <2>2. Cardinality(To) = Cardinality(From)
    BY <1>1, <2>1, FS_Bijection DEF ExistsBijection
  <2> QED
    BY <2>2 DEF Later, From, To
<1>3. IsFiniteSet(LaterThan(w, q)) /\ Later(w, q) \in Nat
  <2>1. q \in Nat
    BY <1>0
  <2> HIDE DEF q
  <2> QED
    BY <2>1, LaterType
<1>4. CASE i \in LaterThan(w, q)
  <2>1. p < i /\ OfGet(w[i])
    BY <1>0, <1>4, SMT DEF LaterThan, OfGets
  <2> QED
    <3>1. Cardinality(LaterThan(w, q) \ {i}) = Cardinality(LaterThan(w, q)) - 1
      BY <1>3, <1>4, FS_RemoveElement
    <3>2. Later(s, p) = Later(w, q) - 1
      BY <1>2, <3>1 DEF Later
    <3>3. One(w[i]) = 1 /\ q = p
      BY <2>1 DEF One
    <3> QED
      BY <1>0, <1>3, <2>1, <3>2, <3>3, SMT
<1>5. CASE i \notin LaterThan(w, q)
  <2>1. LaterThan(w, q) \ {i} = LaterThan(w, q)
    BY <1>5
  <2>2. p < i => ~OfGet(w[i])
    BY <1>0, <1>5, SMT DEF LaterThan, OfGets
  <2>3. Later(w, q) = Later(s, p)
    BY <1>2, <2>1 DEF Later
  <2>4. Later(s, p) \in Nat
    BY <1>0, LaterType
  <2> QED
    BY <1>0, <2>2, <2>3, <2>4, SMT DEF One
<1> QED
  BY <1>4, <1>5

(* After the new one itself there are as many as after its place before.   *)
LEMMA LaterOfNew ==
  ASSUME NEW w \in Seq(Datagram), NEW s \in Seq(Datagram), NEW i, Gap(w, s, i)
  PROVE  Later(w, i) = Later(s, i - 1)
<1>1. i \in 1 .. Len(w) /\ Len(s) = Len(w) - 1 /\ Len(w) \in Nat
  BY DEF Gap
<1>2. i - 1 \in 0 .. Len(s) /\ i - 1 < i /\ i - 1 \in Nat /\ i \in Nat
  BY <1>1, SMT
<1>3. Later(w, i - 1) = Later(s, i - 1) + One(w[i])
  BY <1>2, LaterOfGap
<1>4. /\ Later(w, i - 1) \in Nat /\ Later(s, i - 1) \in Nat /\ Later(w, i) \in Nat
      /\ IsFiniteSet(LaterThan(w, i))
  BY <1>2, LaterType
<1>5. i \notin LaterThan(w, i)
  BY <1>2, SMT DEF LaterThan
<1>6. CASE OfGet(w[i])
  <2>1. LaterThan(w, i - 1) = LaterThan(w, i) \cup {i}
    BY <1>1, <1>2, <1>6, SMT DEF LaterThan, OfGets
  <2>2. Later(w, i - 1) = Later(w, i) + 1
    BY <1>4, <1>5, <2>1, FS_AddElement DEF Later
  <2> QED
    BY <1>3, <1>4, <1>6, <2>2, SMT DEF One
<1>7. CASE ~OfGet(w[i])
  <2>1. LaterThan(w, i - 1) = LaterThan(w, i)
    BY <1>1, <1>2, <1>7, SMT DEF LaterThan, OfGets
  <2> QED
    BY <1>3, <1>4, <1>7, <2>1, SMT DEF Later, One
<1> QED
  BY <1>6, <1>7

(* Requests and replies are datagrams.                                     *)
LEMMA AreDatagrams ==
  ASSUME NEW s, s \in Seq(Requests) \/ s \in Seq(Replies)
  PROVE  s \in Seq(Datagram)
BY SMT DEF Datagram

-----------------------------------------------------------------------------
(* The GETs and answers of s are of the last g GETs, and none is older     *)
(* than what comes after it and further on allows for.                     *)
Fits(s, g, further) ==
  \A i \in OfGets(s) : s[i].n <= g /\ g - s[i].n <= Later(s, i) + further

ControlTypes ==
  /\ repairs \in SUBSET {"unlock", "match"}
  /\ pc \in [Workers \cup {"main"} -> Places]
  /\ held \in BOOLEAN
  /\ answers \in Seq(Nat)
  /\ gets \in Nat /\ y \in Nat
  /\ toServer \in Seq(Requests) /\ toClient \in Seq(Replies)
  /\ lost \in Nat /\ repeated \in Nat

(* Main does not get past its second lock.                                 *)
Unrepaired ==
  "unlock" \notin repairs =>
    /\ pc["main"] = "init" \/ (pc["main"] = "init2" /\ held)
    /\ \A t \in Workers : pc[t] = "none"

(* control() waits for the answer to its first GET.                        *)
Unmatched ==
  "match" \notin repairs =>
    /\ answers = <<>>
    /\ \/ gets = 0 /\ pc["controller"] \notin {"get", "calculate"}
       \/ gets = 1 /\ pc["controller"] = "get"

NotYetCreated == pc["main"] \in {"init", "init2", "create1"} => pc["controller"] = "none"

UnderWay == Len(answers) + Later(toClient, 0) + Later(toServer, 0)

(* A GET that has not been answered is under way, unless it is lost.       *)
Balance ==
  UnderWay + lost <= repeated + IF pc["controller"] = "get" THEN 1 ELSE 0

(* Nothing on the way from the GET to control() is older than what is      *)
(* behind it allows for.                                                   *)
Ages ==
  /\ Fits(toServer, gets, lost)
  /\ Fits(toClient, gets, Later(toServer, 0) + lost)
  /\ \A i \in 1 .. Len(answers) :
       answers[i] <= gets /\ gets - answers[i] <= UnderWay - i + lost

ControlIInv ==
  /\ ControlTypes /\ Unrepaired /\ Unmatched /\ NotYetCreated
  /\ Balance /\ Ages /\ AnswerAge

(* What the removal of a datagram, or the insertion of one, leaves true.   *)
LEMMA FitsOfGap ==
  ASSUME NEW w \in Seq(Datagram), NEW s \in Seq(Datagram), NEW i, Gap(w, s, i),
         NEW g \in Nat, NEW f \in Nat
  PROVE  /\ Later(w, 0) = Later(s, 0) + One(w[i]) /\ One(w[i]) \in {0, 1}
         /\ Later(w, 0) \in Nat /\ Later(s, 0) \in Nat
         /\ Fits(w, g, f) => Fits(s, g, f + One(w[i]))
         /\ i = 1 /\ Fits(w, g, f) => Fits(s, g, f)
         /\ (OfGet(w[i]) => w[i].n <= g /\ g - w[i].n <= Later(w, i) + f) =>
              /\ Fits(s, g, f) => Fits(w, g, f)
              /\ i = Len(w) /\ Fits(s, g, f + One(w[i])) => Fits(w, g, f)
<1>1. /\ i \in 1 .. Len(w) /\ Len(s) = Len(w) - 1 /\ Len(w) \in Nat
      /\ \A j \in 1 .. Len(s) : s[j] = IF j < i THEN w[j] ELSE w[j + 1]
  BY DEF Gap
<1>2. \A p \in 0 .. Len(s) :
        /\ p >= i => Later(w, p + 1) = Later(s, p)
        /\ p < i => Later(w, p) = Later(s, p) + One(w[i])
  BY LaterOfGap
<1>3. One(w[i]) \in {0, 1}
  BY DEF One
<1>4. \A p \in Nat : Later(w, p) \in Nat /\ Later(s, p) \in Nat
  BY LaterType
<1>5. \A j \in 1 .. Len(s) : s[j].n \in Nat
  <2>1. \A j \in 1 .. Len(s) : s[j] \in Datagram
    BY ElementOfSeq
  <2> QED
    BY <2>1 DEF Datagram, Requests, Replies
<1>6. \A j \in 1 .. Len(w) : w[j].n \in Nat
  <2>1. \A j \in 1 .. Len(w) : w[j] \in Datagram
    BY ElementOfSeq
  <2> QED
    BY <2>1 DEF Datagram, Requests, Replies
<1>7. Later(w, 0) = Later(s, 0) + One(w[i])
  BY <1>1, <1>2, SMT
<1>8. ASSUME Fits(w, g, f) PROVE Fits(s, g, f + One(w[i]))
  <2>1. SUFFICES ASSUME NEW j \in OfGets(s)
                 PROVE  s[j].n <= g /\ g - s[j].n <= Later(s, j) + (f + One(w[i]))
    BY DEF Fits
  <2>2. CASE j < i
    <3>1. j \in OfGets(w) /\ s[j] = w[j]
      BY <1>1, <2>1, <2>2, SMT DEF OfGets
    <3>2. j \in 1 .. Len(s) /\ j \in Nat
      BY <2>1 DEF OfGets
    <3>3. w[j].n <= g /\ g - w[j].n <= Later(w, j) + f
      BY <1>8, <3>1 DEF Fits
    <3>4. Later(w, j) = Later(s, j) + One(w[i]) /\ Later(s, j) \in Nat
      BY <1>2, <1>4, <2>2, <3>2
    <3> QED
      BY <1>3, <3>1, <3>3, <3>4, SMT
  <2>3. CASE ~(j < i)
    <3>1. j + 1 \in OfGets(w) /\ s[j] = w[j + 1]
      BY <1>1, <2>1, <2>3, SMT DEF OfGets
    <3>2. s[j].n <= g /\ g - s[j].n <= Later(w, j + 1) + f
      BY <1>8, <3>1 DEF Fits
    <3>3. j \in 1 .. Len(s) /\ j \in Nat /\ s[j].n \in Nat
      BY <1>5, <2>1 DEF OfGets
    <3>4. Later(w, j + 1) = Later(s, j) /\ Later(s, j) \in Nat
      <4>1. j \in 0 .. Len(s) /\ j >= i
        BY <1>1, <2>3, <3>3, SMT
      <4> QED
        BY <1>2, <1>4, <3>3, <4>1
    <3> QED
      BY <1>3, <3>2, <3>3, <3>4, SMT
  <2> QED
    BY <2>2, <2>3
<1>9. ASSUME i = 1, Fits(w, g, f) PROVE Fits(s, g, f)
  <2>1. SUFFICES ASSUME NEW j \in OfGets(s)
                 PROVE  s[j].n <= g /\ g - s[j].n <= Later(s, j) + f
    BY DEF Fits
  <2>2. j + 1 \in OfGets(w) /\ s[j] = w[j + 1] /\ j \in 1 .. Len(s)
    BY <1>1, <1>9, <2>1, SMT DEF OfGets
  <2>3. s[j].n <= g /\ g - s[j].n <= Later(w, j + 1) + f
    BY <1>9, <2>2 DEF Fits
  <2> QED
    BY <1>1, <1>2, <1>9, <2>2, <2>3, SMT
<1>10. ASSUME OfGet(w[i]) => w[i].n <= g /\ g - w[i].n <= Later(w, i) + f,
              Fits(s, g, f) \/ (i = Len(w) /\ Fits(s, g, f + One(w[i])))
       PROVE  Fits(w, g, f)
  <2>1. SUFFICES ASSUME NEW j \in OfGets(w)
                 PROVE  w[j].n <= g /\ g - w[j].n <= Later(w, j) + f
    BY DEF Fits
  <2>2. CASE j < i
    <3>1. j \in OfGets(s) /\ s[j] = w[j] /\ j \in 1 .. Len(s)
      BY <1>1, <2>1, <2>2, SMT DEF OfGets
    <3>2. \/ w[j].n <= g /\ g - w[j].n <= Later(s, j) + f
          \/ w[j].n <= g /\ g - w[j].n <= Later(s, j) + (f + One(w[i]))
      BY <1>10, <3>1 DEF Fits
    <3>3. Later(w, j) = Later(s, j) + One(w[i]) /\ Later(s, j) \in Nat /\ w[j].n \in Nat
      <4>1. j \in 0 .. Len(s) /\ j \in Nat
        BY <3>1, SMT
      <4>2. Later(w, j) = Later(s, j) + One(w[i]) /\ Later(s, j) \in Nat
        BY <1>2, <1>4, <2>2, <4>1
      <4>3. w[j].n \in Nat
        BY <1>5, <3>1
      <4> QED
        BY <4>2, <4>3
    <3> QED
      BY <1>3, <3>2, <3>3, SMTT(30)
  <2>3. CASE j = i
    BY <1>10, <2>1, <2>3 DEF OfGets
  <2>4. CASE j > i
    <3>1. j - 1 \in 1 .. Len(s) /\ (j - 1) + 1 = j /\ ~(j - 1 < i) /\ OfGet(w[j])
      BY <1>1, <2>1, <2>4, SMT DEF OfGets
    <3>2. s[j - 1] = w[j]
      BY <1>1, <3>1
    <3>3. j - 1 \in OfGets(s) /\ i # Len(w)
      BY <1>1, <2>1, <2>4, <3>1, <3>2 DEF OfGets
    <3>4. w[j].n <= g /\ g - w[j].n <= Later(s, j - 1) + f
      BY <1>10, <3>2, <3>3 DEF Fits
    <3>5. Later(w, j) = Later(s, j - 1)
      BY <1>1, <1>2, <3>1, SMT
    <3> QED
      BY <3>4, <3>5
  <2> QED
    BY <1>1, <2>1, <2>2, <2>3, <2>4, SMT DEF OfGets
<1> QED
  BY <1>3, <1>4, <1>7, <1>8, <1>9, <1>10

-----------------------------------------------------------------------------
Everybody == Workers \cup {"main"}

(* Goto moves one thread.                                                  *)
LEMMA GotoMoves ==
  ASSUME pc \in [Everybody -> Places],
         NEW t \in Everybody, NEW from, NEW to \in Places, Goto(t, from, to)
  PROVE  /\ pc' \in [Everybody -> Places]
         /\ pc[t] = from /\ pc'[t] = to
         /\ \A u \in Everybody \ {t} : pc'[u] = pc[u]
BY DEF Goto

(* A step that leaves GETs and answers where they are.                     *)
Unmoved ==
  /\ UNCHANGED <<repairs, answers, gets, y, toServer, toClient, lost, repeated>>
  /\ pc' \in [Everybody -> Places] /\ held' \in BOOLEAN
  /\ \/ pc'["controller"] = pc["controller"]
     \/ /\ pc["controller"] \notin {"get", "calculate"}
        /\ pc'["controller"] \notin {"get", "calculate"}

(* Such a step keeps what is said of GETs and answers.                     *)
LEMMA UnmovedKeeps ==
  ASSUME ControlIInv, Unmoved
  PROVE  ControlTypes' /\ Unmatched' /\ Balance' /\ Ages' /\ AnswerAge'
<1>1. ControlTypes'
  BY DEF ControlIInv, ControlTypes, Unmoved, Everybody, Workers
<1>2. /\ pc'["controller"] = "get" <=> pc["controller"] = "get"
      /\ pc'["controller"] = "calculate" <=> pc["controller"] = "calculate"
  BY DEF Unmoved
<1>3. UnderWay' = UnderWay
  BY DEF Unmoved, UnderWay, Later, LaterThan, OfGets
<1>4. Balance'
  BY <1>2, <1>3 DEF ControlIInv, Balance, Unmoved
<1>5. Ages'
  BY <1>3 DEF ControlIInv, Ages, Unmoved, Fits, Later, LaterThan, OfGets
<1>6. AnswerAge'
  BY <1>2 DEF ControlIInv, AnswerAge, Unmoved
<1>7. Unmatched'
  BY <1>2 DEF ControlIInv, Unmatched, Unmoved
<1> QED
  BY <1>1, <1>4, <1>5, <1>6, <1>7

(* A thread other than main runs only when main has got past its second    *)
(* lock, and does not make that untrue.                                    *)
LEMMA WorkerRuns ==
  ASSUME ControlIInv, repairs' = repairs,
         NEW t \in Workers, NEW from, from # "none", NEW to \in Places,
         Goto(t, from, to)
  PROVE  /\ pc' \in [Everybody -> Places]
         /\ pc[t] = from /\ pc'[t] = to
         /\ \A u \in Everybody \ {t} : pc'[u] = pc[u]
         /\ "unlock" \in repairs /\ Unrepaired' /\ NotYetCreated'
<1>1. pc \in [Everybody -> Places] /\ t \in Everybody
  BY DEF ControlIInv, ControlTypes, Everybody
<1>2. /\ pc' \in [Everybody -> Places] /\ pc[t] = from /\ pc'[t] = to
      /\ \A u \in Everybody \ {t} : pc'[u] = pc[u]
  BY <1>1, GotoMoves
<1>3. "unlock" \in repairs
  BY <1>2 DEF ControlIInv, Unrepaired
<1>4. pc'["main"] = pc["main"]
  BY <1>2 DEF Everybody, Workers
<1>5. NotYetCreated'
  <2>1. CASE t = "controller"
    BY <1>2, <1>4, <2>1 DEF ControlIInv, NotYetCreated
  <2>2. CASE t # "controller"
    BY <1>2, <1>4, <2>2 DEF ControlIInv, NotYetCreated, Everybody, Workers
  <2> QED
    BY <2>1, <2>2
<1> QED
  BY <1>2, <1>3, <1>5 DEF Unrepaired

(* Main sends and takes nothing. Without the repair of the mutex it does   *)
(* not get past its second lock, as it holds the mutex itself.             *)
LEMMA MainKeeps == ASSUME ControlIInv, Main PROVE ControlIInv'
<1>0. /\ pc \in [Everybody -> Places] /\ held \in BOOLEAN
      /\ "main" \in Everybody /\ "controller" \in Everybody \ {"main"}
      /\ \A t \in Workers : t \in Everybody \ {"main"}
  BY DEF ControlIInv, ControlTypes, Everybody, Workers
<1>1. CASE update_control_active("main", "init", "init2", FALSE)
  <2>1. Goto("main", "init", "init2") /\ held' = TRUE
    BY <1>1 DEF update_control_active
  <2>2. /\ pc' \in [Everybody -> Places] /\ pc["main"] = "init" /\ pc'["main"] = "init2"
        /\ \A u \in Everybody \ {"main"} : pc'[u] = pc[u]
    BY <1>0, <2>1 DEF Goto, Places
  <2>3. Unmoved
    BY <1>0, <1>1, <2>1, <2>2 DEF update_control_active, Unmoved, data, network
  <2>4. Unrepaired' /\ NotYetCreated'
    BY <1>0, <2>1, <2>2, <2>3 DEF ControlIInv, Unrepaired, NotYetCreated, Unmoved
  <2> QED
    <3>1. ControlTypes' /\ Unmatched' /\ Balance' /\ Ages' /\ AnswerAge'
      BY <2>3, UnmovedKeeps
    <3> QED
      BY <2>4, <3>1 DEF ControlIInv
<1>2. CASE Second("main", "init2", "create1")
  <2>1. Goto("main", "init2", "create1") /\ held' \in BOOLEAN
    BY <1>2 DEF Second
  <2>2. /\ pc' \in [Everybody -> Places] /\ pc["main"] = "init2"
        /\ pc'["main"] = "create1"
        /\ \A u \in Everybody \ {"main"} : pc'[u] = pc[u]
    BY <1>0, <2>1 DEF Goto, Places
  <2>3. Unmoved
    BY <1>0, <1>2, <2>1, <2>2 DEF Second, Unmoved, data, network
  <2>4. "unlock" \in repairs
    BY <1>2, <2>2 DEF Second, ControlIInv, Unrepaired
  <2>5. Unrepaired' /\ NotYetCreated'
    BY <1>0, <2>2, <2>3, <2>4 DEF ControlIInv, Unrepaired, NotYetCreated, Unmoved
  <2> QED
    <3>1. ControlTypes' /\ Unmatched' /\ Balance' /\ Ages' /\ AnswerAge'
      BY <2>3, UnmovedKeeps
    <3> QED
      BY <2>5, <3>1 DEF ControlIInv
<1>3. ASSUME NEW t \in Workers, NEW from \in {"create1", "create2", "create3"},
             NEW to \in {"create2", "create3", "join1"}, Create(t, from, to),
             t = "controller" => from = "create1"
      PROVE  ControlIInv'
  <2>1. /\ pc["main"] = from /\ pc'["main"] = to
        /\ pc' \in [Everybody -> Places]
        /\ \/ t # "controller" /\ pc'["controller"] = pc["controller"]
           \/ pc["controller"] = "none" /\ pc'["controller"] = "START"
    <3>1. pc["main"] = from /\ (t = "controller" => pc["controller"] = "none")
      BY <1>3 DEF Create, ControlIInv, NotYetCreated
    <3>2. pc' = [pc EXCEPT !["main"] = to,
                           ![t] = IF t = "controller" THEN "START" ELSE "test"]
      BY <1>3 DEF Create
    <3>3. t # "main" /\ t \in Everybody
      BY <1>0
    <3> QED
      BY <1>0, <3>1, <3>2, <3>3 DEF Places
  <2>2. Unmoved
    BY <1>0, <1>3, <2>1 DEF Create, Unmoved, sync, data, network
  <2>3. "unlock" \in repairs
    BY <2>1 DEF ControlIInv, Unrepaired
  <2>4. Unrepaired' /\ NotYetCreated'
    BY <2>1, <2>2, <2>3 DEF Unrepaired, NotYetCreated, Unmoved
  <2> QED
    <3>1. ControlTypes' /\ Unmatched' /\ Balance' /\ Ages' /\ AnswerAge'
      BY <2>2, UnmovedKeeps
    <3> QED
      BY <2>4, <3>1 DEF ControlIInv
<1>4. ASSUME NEW t \in Workers, NEW from \in {"join1", "join2", "join3"},
             NEW to \in {"join2", "join3", "done"}, Join(t, from, to)
      PROVE  ControlIInv'
  <2>1. /\ pc["main"] = from /\ pc'["main"] = to
        /\ pc' \in [Everybody -> Places]
        /\ pc'["controller"] = pc["controller"]
    BY <1>0, <1>4 DEF Join, Goto, Places
  <2>2. Unmoved
    BY <1>0, <1>4, <2>1 DEF Join, Unmoved, sync, data, network
  <2>3. "unlock" \in repairs
    BY <2>1 DEF ControlIInv, Unrepaired
  <2>4. Unrepaired' /\ NotYetCreated'
    BY <2>1, <2>2, <2>3 DEF Unrepaired, NotYetCreated, Unmoved
  <2> QED
    <3>1. ControlTypes' /\ Unmatched' /\ Balance' /\ Ages' /\ AnswerAge'
      BY <2>2, UnmovedKeeps
    <3> QED
      BY <2>4, <3>1 DEF ControlIInv
<1>5. CASE Create("controller", "create1", "create2")
  BY <1>3, <1>5 DEF Workers
<1>6. CASE Create("recv", "create2", "create3") \/ Create("sendAck", "create3", "join1")
  BY <1>3, <1>6 DEF Workers
<1>7. CASE \/ Join("controller", "join1", "join2") \/ Join("recv", "join2", "join3")
           \/ Join("sendAck", "join3", "done")
  BY <1>4, <1>7 DEF Workers
<1> QED
  BY <1>1, <1>2, <1>5, <1>6, <1>7 DEF Main

-----------------------------------------------------------------------------
(* A step of another thread that is quiet.                                 *)
LEMMA UnmovedByWorker ==
  ASSUME ControlIInv,
         UNCHANGED <<repairs, answers, gets, y, toServer, toClient, lost, repeated>>,
         held' \in BOOLEAN,
         NEW t \in Workers, NEW from, from # "none", NEW to \in Places,
         Goto(t, from, to),
         t = "controller" => /\ from \notin {"get", "calculate"}
                             /\ to \notin {"get", "calculate"}
  PROVE  ControlIInv'
<1>1. /\ pc' \in [Everybody -> Places]
      /\ pc[t] = from /\ pc'[t] = to
      /\ \A u \in Everybody \ {t} : pc'[u] = pc[u]
      /\ Unrepaired' /\ NotYetCreated'
  BY WorkerRuns
<1>2. \/ pc'["controller"] = pc["controller"]
      \/ /\ pc["controller"] \notin {"get", "calculate"}
         /\ pc'["controller"] \notin {"get", "calculate"}
  BY <1>1 DEF Everybody, Workers
<1>3. Unmoved
  BY <1>1, <1>2 DEF Unmoved
<1> QED
  <2>1. ControlTypes' /\ Unmatched' /\ Balance' /\ Ages' /\ AnswerAge'
    BY <1>3, UnmovedKeeps
  <2> QED
    BY <1>1, <1>3, <2>1 DEF ControlIInv

(* The functions of the flag are quiet.                                    *)
LEMMA FlagKeeps ==
  ASSUME ControlIInv,
         NEW t \in Workers, NEW from, from # "none", NEW to \in Places,
         t = "controller" => /\ from \notin {"get", "calculate"}
                             /\ to \notin {"get", "calculate"},
         \/ \E value \in BOOLEAN : update_control_active(t, from, to, value)
         \/ get_control_active(t, from, to)
         \/ Second(t, from, to)
  PROVE  ControlIInv'
<1>1. Goto(t, from, to) /\ held' \in BOOLEAN
  BY DEF update_control_active, get_control_active, Second
<1>2. UNCHANGED <<repairs, answers, gets, y, toServer, toClient, lost, repeated>>
  BY DEF update_control_active, get_control_active, Second, data, network
<1> QED
  BY <1>1, <1>2, UnmovedByWorker

(* The second half of get_control_active keeps it.                         *)
LEMMA TestKeeps ==
  ASSUME ControlIInv, NEW t \in {"recv", "sendAck"}, NEW active \in Places,
         Test(t, active)
  PROVE  ControlIInv'
<1>0. t \in Workers /\ t # "controller"
  BY DEF Workers
<1>1. CASE get_control_active(t, "test", "test2")
  BY <1>0, <1>1, FlagKeeps DEF Places
<1>2. CASE Second(t, "test2", "tested")
  BY <1>0, <1>2, FlagKeeps DEF Places
<1>3. ASSUME NEW to \in Places, Goto(t, "tested", to),
             UNCHANGED <<repairs, sync, data, network>>
      PROVE  ControlIInv'
  <2>1. UNCHANGED <<repairs, held, answers, gets, y, toServer, toClient, lost, repeated>>
    BY <1>3 DEF sync, data, network
  <2>2. held' \in BOOLEAN
    BY <2>1 DEF ControlIInv, ControlTypes
  <2> QED
    BY <1>0, <1>3, <2>1, <2>2, UnmovedByWorker
<1> QED
  BY <1>1, <1>2, <1>3 DEF Test, Places

-----------------------------------------------------------------------------
(* What fits, fits with more room, and when a GET and room for it are new. *)
LEMMA FitsFurther ==
  ASSUME NEW s \in Seq(Datagram), NEW g \in Nat, NEW f \in Nat, Fits(s, g, f),
         NEW h \in Nat, f <= h
  PROVE  Fits(s, g, h) /\ Fits(s, g + 1, f + 1)
<1>1. SUFFICES ASSUME NEW i \in OfGets(s)
               PROVE  /\ s[i].n <= g /\ g - s[i].n <= Later(s, i) + h
                      /\ s[i].n <= g + 1 /\ (g + 1) - s[i].n <= Later(s, i) + (f + 1)
  BY DEF Fits
<1>2. i \in 1 .. Len(s) /\ i \in Nat
  BY DEF OfGets
<1>3. s[i] \in Datagram
  BY <1>2, ElementOfSeq
<1>4. s[i].n \in Nat
  BY <1>3 DEF Datagram, Requests, Replies
<1>5. Later(s, i) \in Nat
  BY <1>2, LaterType
<1>6. s[i].n <= g /\ g - s[i].n <= Later(s, i) + f
  BY DEF Fits
<1> QED
  BY <1>4, <1>5, <1>6, SMTT(30)

(* UnderWay before a step and after it.                                    *)
LEMMA UnderWayType ==
  ASSUME ControlTypes, ControlTypes'
  PROVE  /\ Len(answers) \in Nat /\ Later(toServer, 0) \in Nat /\ Later(toClient, 0) \in Nat
         /\ Len(answers') \in Nat
         /\ Later(toServer', 0) \in Nat /\ Later(toClient', 0) \in Nat
         /\ UnderWay = Len(answers) + Later(toClient, 0) + Later(toServer, 0)
         /\ UnderWay' = Len(answers') + Later(toClient', 0) + Later(toServer', 0)
         /\ UnderWay \in Nat /\ UnderWay' \in Nat
<1>1. /\ Len(answers) \in Nat /\ Later(toServer, 0) \in Nat /\ Later(toClient, 0) \in Nat
      /\ Len(answers') \in Nat
      /\ Later(toServer', 0) \in Nat /\ Later(toClient', 0) \in Nat
  <2>1. Len(answers) \in Nat /\ Later(toServer, 0) \in Nat /\ Later(toClient, 0) \in Nat
    BY LaterType, AreDatagrams DEF ControlTypes
  <2>2. Len(answers') \in Nat
    BY DEF ControlTypes
  <2>3. Later(toServer', 0) \in Nat /\ Later(toClient', 0) \in Nat
    BY LaterType, AreDatagrams DEF ControlTypes
  <2> QED
    BY <2>1, <2>2, <2>3
<1>2. UnderWay = Len(answers) + Later(toClient, 0) + Later(toServer, 0)
  BY DEF UnderWay
<1>3. UnderWay' = Len(answers') + Later(toClient', 0) + Later(toServer', 0)
  BY DEF UnderWay
<1> QED
  BY <1>1, <1>2, <1>3, SMT

(* The sums of the next lemma.                                             *)
LEMMA Sums ==
  ASSUME NEW u \in Nat, NEW v \in Nat, NEW l \in Nat, NEW m \in Nat,
         NEW k \in Nat, NEW r \in Nat, NEW q \in Nat,
         v + m + r <= u + l + q, u + l <= r + k
  PROVE  v + m <= q + k
  BY SMT

(* The sum behind the age of an answer.                                    *)
LEMMA AgeSums ==
  ASSUME NEW u \in Nat, NEW v \in Nat, NEW l \in Nat, NEW m \in Nat,
         NEW x \in Int, NEW i \in Nat,
         u + l <= v + m, x <= u - i + l
  PROVE  x <= v - i + m
  BY SMT

(* A step of the server or of the network: enough that it keeps the count  *)
(* and the ages of what is under way.                                      *)
LEMMA NetworkKeeps ==
  ASSUME ControlIInv, UNCHANGED <<repairs, pc, held, answers, gets, y>>,
         ControlTypes',
         UnderWay + lost <= UnderWay' + lost', repeated <= repeated',
         UnderWay' + lost' + repeated <= UnderWay + lost + repeated',
         Fits(toServer', gets, lost'),
         Fits(toClient', gets, Later(toServer', 0) + lost')
  PROVE  ControlIInv'
<1>1. /\ Len(answers) \in Nat /\ gets \in Nat /\ y \in Nat
      /\ lost \in Nat /\ lost' \in Nat /\ repeated \in Nat /\ repeated' \in Nat
      /\ \A i \in 1 .. Len(answers) : answers[i] \in Nat
  BY DEF ControlIInv, ControlTypes
<1>2. UnderWay \in Nat /\ UnderWay' \in Nat
  BY UnderWayType DEF ControlIInv
<1>3. UnderWay + lost <= repeated + IF pc["controller"] = "get" THEN 1 ELSE 0
  BY DEF ControlIInv, Balance
<1>4. \A i \in 1 .. Len(answers) :
        answers[i] <= gets /\ gets - answers[i] <= UnderWay - i + lost
  BY DEF ControlIInv, Ages
<1>5. Balance'
  <2>1. UnderWay' + lost' <= repeated' + IF pc["controller"] = "get" THEN 1 ELSE 0
    <3> DEFINE k == IF pc["controller"] = "get" THEN 1 ELSE 0
               u == UnderWay
               v == UnderWay'
               l == lost
               m == lost'
               r == repeated
               q == repeated'
    <3>1. /\ k \in Nat /\ u \in Nat /\ v \in Nat /\ l \in Nat /\ m \in Nat
          /\ r \in Nat /\ q \in Nat
          /\ v + m + r <= u + l + q /\ u + l <= r + k
      BY <1>1, <1>2, <1>3
    <3> HIDE DEF k, u, v, l, m, r, q
    <3>2. v + m <= q + k
      BY <3>1, Sums
    <3> QED
      BY <3>2 DEF k, v, m, q
  <2> QED
    BY <2>1 DEF Balance
<1>6. Ages'
  <2>1. ASSUME NEW i \in 1 .. Len(answers)
        PROVE  gets - answers[i] <= UnderWay' - i + lost'
    <3>1. i \in Nat /\ answers[i] \in Nat /\ gets - answers[i] \in Int
      BY <1>1
    <3>2. gets - answers[i] <= UnderWay - i + lost
      BY <1>4
    <3> QED
      BY <1>1, <1>2, <3>1, <3>2, AgeSums
  <2> QED
    BY <1>4, <2>1 DEF Ages
<1>7. AnswerAge'
  BY <1>1 DEF ControlIInv, AnswerAge
<1>8. Unrepaired' /\ Unmatched' /\ NotYetCreated'
  BY DEF ControlIInv, Unrepaired, Unmatched, NotYetCreated
<1> QED
  BY <1>5, <1>6, <1>7, <1>8 DEF ControlIInv

(* A step of the server keeps the invariant.                               *)
LEMMA ServeKeeps == ASSUME ControlIInv, Serve PROVE ControlIInv'
<1> DEFINE m == Head(toServer)
<1>1. /\ toServer \in Seq(Requests) /\ toServer # <<>> /\ toServer' = Tail(toServer)
      /\ toClient \in Seq(Replies) /\ gets \in Nat /\ lost \in Nat
      /\ ControlTypes
      /\ Fits(toServer, gets, lost) /\ Fits(toClient, gets, Later(toServer, 0) + lost)
  BY DEF Serve, ControlIInv, ControlTypes, Ages
<1>2. UNCHANGED <<repairs, pc, held, answers, gets, y, lost, repeated>>
  BY DEF Serve, sync, data
<1>3. /\ toServer' \in Seq(Requests) /\ Gap(toServer, toServer', 1)
      /\ m = toServer[1] /\ m \in Requests
  BY <1>1, GapOfTail
<1>4. /\ toServer \in Seq(Datagram) /\ toServer' \in Seq(Datagram)
      /\ toClient \in Seq(Datagram) /\ Len(toServer) \in Nat \ {0}
  BY <1>1, <1>3, AreDatagrams
<1>5. /\ Later(toServer, 0) = Later(toServer', 0) + One(m)
      /\ Later(toServer, 0) \in Nat /\ Later(toServer', 0) \in Nat
      /\ Fits(toServer', gets, lost)
  <2>1. Gap(toServer, toServer', 1) /\ toServer[1] = m
    BY <1>3
  <2>2. Later(toServer, 0) = Later(toServer', 0) + One(toServer[1])
    BY <1>1, <1>4, <2>1, FitsOfGap, ZenonT(60)
  <2>3. Later(toServer, 0) \in Nat /\ Later(toServer', 0) \in Nat
    BY <1>4, LaterType
  <2>4. Fits(toServer', gets, lost)
    BY <1>1, <1>4, <2>1, FitsOfGap
  <2> QED
    BY <2>1, <2>2, <2>3, <2>4
<1>6. CASE m.kind = "GET"
  <2> DEFINE answer == Msg("GET_ACK", m.n)
  <2>1. answer \in Replies /\ One(answer) = 1 /\ One(m) = 1 /\ OfGet(m)
    BY <1>3, <1>6 DEF Requests, Replies, Msg, One, OfGet
  <2>2. m.n <= gets /\ gets - m.n <= Later(toServer, 1) + lost
    <3>1. 1 \in OfGets(toServer)
      BY <1>3, <1>4, <2>1 DEF OfGets
    <3> QED
      BY <1>1, <1>3, <3>1 DEF Fits
  <2>3. Later(toServer, 1) = Later(toServer', 0)
    <3>1. Later(toServer, 1) = Later(toServer', 1 - 1)
      BY <1>3, <1>4, LaterOfNew
    <3> QED
      BY <3>1
  <2>4. toClient' = Append(toClient, answer)
    BY <1>6 DEF Serve
  <2> HIDE DEF answer
  <2>5. /\ toClient' \in Seq(Replies) /\ Gap(toClient', toClient, Len(toClient) + 1)
        /\ toClient'[Len(toClient) + 1] = answer
    BY <1>1, <2>1, <2>4, GapOfAppend
  <2>6. Len(toClient) \in Nat /\ toClient' \in Seq(Datagram)
    BY <1>1, <2>5, AreDatagrams
  <2>7. Later(toClient', 0) = Later(toClient, 0) + 1
    BY <1>1, <1>4, <2>1, <2>5, <2>6, FitsOfGap
  <2>8. Fits(toClient', gets, Later(toServer', 0) + lost)
    <3> DEFINE f == Later(toServer', 0) + lost
               e == Len(toClient) + 1
    <3>1. f \in Nat /\ Later(toServer, 0) + lost = f + One(m)
      BY <1>1, <1>5, <2>1
    <3>2. Fits(toClient, gets, f + One(answer))
      BY <1>1, <2>1, <3>1
    <3>3. e = Len(toClient') /\ Later(toClient', e) \in Nat
      <4>1. e \in Nat /\ e = Len(toClient')
        BY <2>5, <2>6, SMT DEF Gap
      <4> QED
        BY <2>6, <4>1, LaterType
    <3>4. answer.n <= gets /\ gets - answer.n <= Later(toClient', e) + f
      <4>1. answer.n = m.n /\ m.n \in Nat
        BY <1>3 DEF answer, Msg, Requests
      <4>2. gets - m.n <= f
        BY <2>2, <2>3
      <4> HIDE DEF f
      <4> QED
        BY <1>1, <2>2, <3>1, <3>3, <4>1, <4>2, SMT
    <3> HIDE DEF f, e
    <3>5. Gap(toClient', toClient, e) /\ toClient'[e] = answer
      BY <2>5 DEF e
    <3>6. Fits(toClient', gets, f)
      BY <1>1, <1>4, <2>1, <2>6, <3>1, <3>2, <3>3, <3>4, <3>5, FitsOfGap
    <3> QED
      BY <3>6 DEF f
  <2>9. ControlTypes'
    BY <1>1, <1>2, <1>3, <2>5 DEF ControlTypes
  <2>10. UnderWay' = UnderWay
    BY <1>2, <1>5, <2>1, <2>7, <2>9, <1>1, UnderWayType, SMTT(30)
  <2>11. UnderWay \in Nat /\ repeated \in Nat
    BY <1>1, <2>9, UnderWayType DEF ControlTypes
  <2> QED
    BY <1>1, <1>2, <1>5, <2>8, <2>9, <2>10, <2>11, NetworkKeeps
<1>7. CASE m.kind # "GET"
  <2>1. toClient' = toClient
    BY <1>7 DEF Serve
  <2>2. One(m) = 0
    BY <1>3, <1>7 DEF One, OfGet, Requests
  <2>3. ControlTypes'
    BY <1>1, <1>2, <1>3, <2>1 DEF ControlTypes
  <2>4. Later(toServer', 0) = Later(toServer, 0)
    BY <1>5, <2>2
  <2>5. UnderWay' = UnderWay
    BY <1>1, <1>2, <2>1, <2>3, <2>4, UnderWayType
  <2>6. Fits(toClient', gets, Later(toServer', 0) + lost)
    BY <1>1, <2>1, <2>4
  <2>7. UnderWay \in Nat /\ repeated \in Nat
    BY <1>1, <2>3, UnderWayType DEF ControlTypes
  <2> QED
    BY <1>1, <1>2, <1>5, <2>3, <2>5, <2>6, <2>7, NetworkKeeps
<1> QED
  BY <1>6, <1>7

(* A signal of the server keeps it.                                        *)
LEMMA SignalKeeps == ASSUME ControlIInv, Signal PROVE ControlIInv'
<1> DEFINE m == Msg("SIGNAL", 0)
           e == Len(toClient) + 1
           f == Later(toServer, 0) + lost
<1>1. /\ toServer \in Seq(Requests) /\ toClient \in Seq(Replies)
      /\ gets \in Nat /\ lost \in Nat /\ repeated \in Nat
      /\ ControlTypes /\ Fits(toServer, gets, lost) /\ Fits(toClient, gets, f)
  BY DEF ControlIInv, ControlTypes, Ages
<1>2. /\ UNCHANGED <<repairs, pc, held, answers, gets, y, lost, repeated, toServer>>
      /\ toClient' = Append(toClient, m)
  BY DEF Signal, sync, data
<1>3. m \in Replies /\ One(m) = 0 /\ ~OfGet(m)
  BY DEF Msg, Replies, One, OfGet
<1> HIDE DEF m, e, f
<1>4. /\ toClient' \in Seq(Replies) /\ Gap(toClient', toClient, e) /\ toClient'[e] = m
  BY <1>1, <1>2, <1>3, GapOfAppend DEF e
<1>5. /\ toClient \in Seq(Datagram) /\ toClient' \in Seq(Datagram)
      /\ toServer \in Seq(Datagram)
  BY <1>1, <1>4, AreDatagrams
<1>6. f \in Nat
  <2>1. Later(toServer, 0) \in Nat
    BY <1>5, LaterType
  <2> QED
    BY <1>1, <2>1 DEF f
<1>7. Later(toClient', 0) = Later(toClient, 0)
  <2>1. Later(toClient', 0) = Later(toClient, 0) + One(toClient'[e])
    BY <1>1, <1>4, <1>5, FitsOfGap
  <2>2. Later(toClient, 0) \in Nat
    BY <1>5, LaterType
  <2> QED
    BY <1>3, <1>4, <2>1, <2>2
<1>8. Fits(toClient', gets, f)
  BY <1>1, <1>3, <1>4, <1>5, <1>6, FitsOfGap
<1>9. ControlTypes'
  BY <1>1, <1>2, <1>4 DEF ControlTypes
<1>10. UnderWay' = UnderWay /\ UnderWay \in Nat
  BY <1>1, <1>2, <1>7, <1>9, UnderWayType
<1> QED
  BY <1>1, <1>2, <1>8, <1>9, <1>10, NetworkKeeps DEF f

(* A datagram of a GET is lost. The others have one fewer behind them, and *)
(* lost stands in for it.                                                  *)
LEMMA LoseKeeps == ASSUME ControlIInv, Lose PROVE ControlIInv'
<1>1. /\ toServer \in Seq(Requests) /\ toClient \in Seq(Replies)
      /\ gets \in Nat /\ lost \in Nat /\ repeated \in Nat
      /\ ControlTypes
      /\ Fits(toServer, gets, lost) /\ Fits(toClient, gets, Later(toServer, 0) + lost)
  BY DEF ControlIInv, ControlTypes, Ages
<1>2. /\ UNCHANGED <<repairs, pc, held, answers, gets, y, repeated>>
      /\ lost' = lost + 1
  BY DEF Lose, sync, data
<1>3. /\ toServer \in Seq(Datagram) /\ toClient \in Seq(Datagram)
      /\ Later(toServer, 0) \in Nat /\ Later(toClient, 0) \in Nat
  BY <1>1, AreDatagrams, LaterType
<1>4. ASSUME NEW i \in 1 .. Len(toServer), OfGet(toServer[i]),
             toServer' = RemoveAt(toServer, i), toClient' = toClient
      PROVE  ControlIInv'
  <2>1. toServer' \in Seq(Requests) /\ Gap(toServer, toServer', i)
    BY <1>1, <1>4, GapOfRemoveAt
  <2>2. toServer' \in Seq(Datagram) /\ Later(toServer', 0) \in Nat /\ One(toServer[i]) = 1
    BY <1>4, <2>1, AreDatagrams, LaterType DEF One
  <2>3. Later(toServer, 0) = Later(toServer', 0) + One(toServer[i])
    BY <1>1, <1>3, <2>1, <2>2, FitsOfGap
  <2>4. Fits(toServer', gets, lost + One(toServer[i]))
    BY <1>1, <1>3, <2>1, <2>2, FitsOfGap
  <2>5. Later(toServer', 0) + (lost + 1) = Later(toServer, 0) + lost
    <3> DEFINE a == Later(toServer, 0)
               b == Later(toServer', 0)
    <3>1. a \in Nat /\ b \in Nat /\ a = b + 1
      BY <1>3, <2>2, <2>3
    <3> HIDE DEF a, b
    <3>2. b + (lost + 1) = a + lost
      BY <1>1, <3>1
    <3> QED
      BY <3>2 DEF a, b
  <2>6. Fits(toClient', gets, Later(toServer', 0) + lost')
    BY <1>1, <1>2, <1>4, <2>5
  <2>7. ControlTypes'
    BY <1>1, <1>2, <1>4, <2>1 DEF ControlTypes
  <2>8. UnderWay' + lost' = UnderWay + lost /\ UnderWay + lost \in Nat
    <3> DEFINE a == Later(toServer, 0)
               b == Later(toServer', 0)
               c == Len(answers) + Later(toClient, 0)
    <3>1. a \in Nat /\ b \in Nat /\ a = b + 1
      BY <1>3, <2>2, <2>3
    <3>2. c \in Nat /\ UnderWay = c + a
      <4>1. Len(answers) \in Nat
        BY <1>1, <2>7, UnderWayType
      <4>2. UnderWay = c + a
        BY <1>1, <2>7, UnderWayType
      <4> QED
        BY <1>3, <4>1, <4>2
    <3>3. UnderWay' = c + b
      BY <1>1, <1>2, <1>4, <2>7, UnderWayType
    <3> HIDE DEF a, b, c
    <3> QED
      BY <1>1, <1>2, <3>1, <3>2, <3>3
  <2> QED
    BY <1>1, <1>2, <2>2, <2>4, <2>6, <2>7, <2>8, NetworkKeeps
<1>5. ASSUME NEW i \in 1 .. Len(toClient), OfGet(toClient[i]),
             toClient' = RemoveAt(toClient, i), toServer' = toServer
      PROVE  ControlIInv'
  <2>1. toClient' \in Seq(Replies) /\ Gap(toClient, toClient', i)
    BY <1>1, <1>5, GapOfRemoveAt
  <2>2. toClient' \in Seq(Datagram) /\ Later(toClient', 0) \in Nat /\ One(toClient[i]) = 1
    BY <1>5, <2>1, AreDatagrams, LaterType DEF One
  <2>3. Later(toClient, 0) = Later(toClient', 0) + One(toClient[i])
    BY <1>1, <1>3, <2>1, <2>2, FitsOfGap
  <2>4. Fits(toClient', gets, (Later(toServer, 0) + lost) + One(toClient[i]))
    <3> DEFINE f == Later(toServer, 0) + lost
    <3>1. f \in Nat /\ Fits(toClient, gets, f)
      BY <1>1, <1>3
    <3> HIDE DEF f
    <3>2. Fits(toClient', gets, f + One(toClient[i]))
      BY <1>1, <1>3, <2>1, <2>2, <3>1, FitsOfGap
    <3> QED
      BY <3>2 DEF f
  <2>5. Fits(toClient', gets, Later(toServer', 0) + lost')
    <3>1. (Later(toServer, 0) + lost) + 1 = Later(toServer', 0) + lost'
      BY <1>1, <1>2, <1>3, <1>5
    <3> QED
      BY <2>2, <2>4, <3>1
  <2>6. Fits(toServer', gets, lost')
    BY <1>1, <1>2, <1>3, <1>5, FitsFurther
  <2>7. ControlTypes'
    BY <1>1, <1>2, <1>5, <2>1 DEF ControlTypes
  <2>8. UnderWay' + lost' = UnderWay + lost /\ UnderWay + lost \in Nat
    <3> DEFINE a == Later(toClient, 0)
               b == Later(toClient', 0)
               c == Len(answers)
               d == Later(toServer, 0)
    <3>1. /\ a \in Nat /\ b \in Nat /\ c \in Nat /\ d \in Nat /\ a = b + 1
          /\ UnderWay = c + a + d /\ UnderWay' = c + b + d
      BY <1>1, <1>2, <1>3, <1>5, <2>2, <2>3, <2>7, UnderWayType
    <3> HIDE DEF a, b, c, d
    <3> QED
      BY <1>1, <1>2, <3>1
  <2> QED
    BY <1>1, <1>2, <2>2, <2>5, <2>6, <2>7, <2>8, NetworkKeeps
<1> QED
  BY <1>4, <1>5 DEF Lose

(* A datagram comes again, before the one it repeats.                      *)
LEMMA RepeatFits ==
  ASSUME NEW w \in Seq(Datagram), NEW s \in Seq(Datagram), NEW i \in 1 .. Len(s),
         Gap(w, s, i), w[i] = s[i],
         NEW g \in Nat, NEW f \in Nat, Fits(s, g, f)
  PROVE  Fits(w, g, f)
<1>1. i \in Nat /\ i + 1 \in Nat /\ i \in 0 .. Len(s)
  OBVIOUS
<1>2. Later(w, i + 1) = Later(s, i)
  BY <1>1, LaterOfGap
<1>3. Later(w, i + 1) <= Later(w, i) /\ Later(w, i) \in Nat
  BY <1>1, LaterType
<1>4. ASSUME OfGet(w[i]) PROVE w[i].n <= g /\ g - w[i].n <= Later(w, i) + f
  <2>1. i \in OfGets(s)
    BY <1>4 DEF OfGets
  <2>2. s[i].n <= g /\ g - s[i].n <= Later(s, i) + f
    BY <2>1 DEF Fits
  <2>3. s[i] \in Datagram /\ Later(s, i) \in Nat
    BY <1>1, ElementOfSeq, LaterType
  <2>4. s[i].n \in Nat
    BY <2>3 DEF Datagram, Requests, Replies
  <2>5. w[i].n = s[i].n
    OBVIOUS
  <2> QED
    BY <1>2, <1>3, <2>2, <2>3, <2>4, <2>5, SMT
<1> QED
  BY <1>4, FitsOfGap

(* A repeated datagram keeps it.                                           *)
LEMMA RepeatKeeps == ASSUME ControlIInv, Repeat PROVE ControlIInv'
<1>1. /\ toServer \in Seq(Requests) /\ toClient \in Seq(Replies)
      /\ gets \in Nat /\ lost \in Nat /\ repeated \in Nat
      /\ ControlTypes
      /\ Fits(toServer, gets, lost) /\ Fits(toClient, gets, Later(toServer, 0) + lost)
  BY DEF ControlIInv, ControlTypes, Ages
<1>2. /\ UNCHANGED <<repairs, pc, held, answers, gets, y, lost>>
      /\ repeated' = repeated + 1
  BY DEF Repeat, sync, data
<1>3. /\ toServer \in Seq(Datagram) /\ toClient \in Seq(Datagram)
      /\ Later(toServer, 0) \in Nat /\ Later(toClient, 0) \in Nat
  BY <1>1, AreDatagrams, LaterType
<1>4. ASSUME NEW i \in 1 .. Len(toServer),
             toServer' = InsertAt(toServer, i, toServer[i]), toClient' = toClient
      PROVE  ControlIInv'
  <2>1. toServer[i] \in Requests
    BY <1>1, ElementOfSeq
  <2>2. /\ toServer' \in Seq(Requests) /\ Gap(toServer', toServer, i)
        /\ toServer'[i] = toServer[i]
    BY <1>1, <1>4, <2>1, GapOfInsertAt
  <2>3. toServer' \in Seq(Datagram) /\ Later(toServer', 0) \in Nat
    BY <2>2, AreDatagrams, LaterType
  <2>4. One(toServer[i]) \in {0, 1}
    BY DEF One
  <2>5. Later(toServer', 0) = Later(toServer, 0) + One(toServer[i])
    <3>1. Later(toServer', 0) = Later(toServer, 0) + One(toServer'[i])
      BY <1>1, <1>3, <2>2, <2>3, FitsOfGap
    <3> QED
      BY <2>2, <3>1
  <2>6. Fits(toServer', gets, lost')
    BY <1>1, <1>2, <1>3, <2>2, <2>3, RepeatFits
  <2>7. Fits(toClient', gets, Later(toServer', 0) + lost')
    <3> DEFINE f == Later(toServer, 0) + lost
               h == Later(toServer', 0) + lost
    <3>1. f \in Nat /\ h \in Nat /\ f <= h /\ Fits(toClient, gets, f)
      BY <1>1, <1>3, <2>3, <2>4, <2>5
    <3> HIDE DEF f, h
    <3>2. Fits(toClient, gets, h)
      BY <1>1, <1>3, <3>1, FitsFurther
    <3> QED
      BY <1>2, <1>4, <3>2 DEF h
  <2>8. ControlTypes'
    BY <1>1, <1>2, <1>4, <2>2 DEF ControlTypes
  <2>9. UnderWay' = UnderWay + One(toServer[i]) /\ UnderWay \in Nat
    <3> DEFINE a == Later(toServer, 0)
               b == Later(toServer', 0)
               c == Len(answers) + Later(toClient, 0)
               d == One(toServer[i])
    <3>1. a \in Nat /\ b \in Nat /\ b = a + d /\ d \in {0, 1}
      BY <1>3, <2>3, <2>4, <2>5
    <3>2. c \in Nat /\ UnderWay = c + a
      <4>1. Len(answers) \in Nat
        BY <1>1, <2>8, UnderWayType
      <4>2. UnderWay = c + a
        BY <1>1, <2>8, UnderWayType
      <4> QED
        BY <1>3, <4>1, <4>2
    <3>3. UnderWay' = c + b
      BY <1>1, <1>2, <1>4, <2>8, UnderWayType
    <3> HIDE DEF a, b, c, d
    <3>4. UnderWay' = UnderWay + d /\ UnderWay \in Nat
      BY <3>1, <3>2, <3>3
    <3> QED
      BY <3>4 DEF d
  <2> QED
    BY <1>1, <1>2, <2>4, <2>6, <2>7, <2>8, <2>9, NetworkKeeps
<1>5. ASSUME NEW i \in 1 .. Len(toClient),
             toClient' = InsertAt(toClient, i, toClient[i]), toServer' = toServer
      PROVE  ControlIInv'
  <2>1. toClient[i] \in Replies
    BY <1>1, ElementOfSeq
  <2>2. /\ toClient' \in Seq(Replies) /\ Gap(toClient', toClient, i)
        /\ toClient'[i] = toClient[i]
    BY <1>1, <1>5, <2>1, GapOfInsertAt
  <2>3. toClient' \in Seq(Datagram) /\ Later(toClient', 0) \in Nat
    BY <2>2, AreDatagrams, LaterType
  <2>4. One(toClient[i]) \in {0, 1}
    BY DEF One
  <2>5. Later(toClient', 0) = Later(toClient, 0) + One(toClient[i])
    <3>1. Later(toClient', 0) = Later(toClient, 0) + One(toClient'[i])
      BY <1>1, <1>3, <2>2, <2>3, FitsOfGap
    <3> QED
      BY <2>2, <3>1
  <2>6. Fits(toClient', gets, Later(toServer', 0) + lost')
    <3> DEFINE f == Later(toServer, 0) + lost
    <3>1. f \in Nat /\ Fits(toClient, gets, f)
      BY <1>1, <1>3
    <3> HIDE DEF f
    <3>2. Fits(toClient', gets, f)
      BY <1>1, <1>3, <2>2, <2>3, <3>1, RepeatFits
    <3> QED
      BY <1>2, <1>5, <3>2 DEF f
  <2>7. Fits(toServer', gets, lost')
    BY <1>1, <1>2, <1>5
  <2>8. ControlTypes'
    BY <1>1, <1>2, <1>5, <2>2 DEF ControlTypes
  <2>9. UnderWay' = UnderWay + One(toClient[i]) /\ UnderWay \in Nat
    <3> DEFINE a == Later(toClient, 0)
               b == Later(toClient', 0)
               c == Len(answers)
               e == Later(toServer, 0)
               d == One(toClient[i])
    <3>1. a \in Nat /\ b \in Nat /\ b = a + d /\ d \in {0, 1} /\ e \in Nat
      BY <1>3, <2>3, <2>4, <2>5
    <3>2. c \in Nat /\ UnderWay = c + a + e
      BY <1>1, <2>8, UnderWayType
    <3>3. UnderWay' = c + b + e
      BY <1>1, <1>2, <1>5, <2>8, UnderWayType
    <3> HIDE DEF a, b, c, d, e
    <3>4. UnderWay' = UnderWay + d /\ UnderWay \in Nat
      BY <3>1, <3>2, <3>3
    <3> QED
      BY <3>4 DEF d
  <2> QED
    BY <1>1, <1>2, <2>4, <2>6, <2>7, <2>8, <2>9, NetworkKeeps
<1> QED
  BY <1>4, <1>5 DEF Repeat

-----------------------------------------------------------------------------
(* A thread sends what is not a GET.                                       *)
LEMMA SendKeeps ==
  ASSUME ControlIInv,
         UNCHANGED <<repairs, held, answers, gets, y, toClient, lost, repeated>>,
         NEW m \in Requests, m.kind # "GET", toServer' = Append(toServer, m),
         NEW t \in Workers, NEW from, from # "none", NEW to \in Places,
         Goto(t, from, to),
         t = "controller" => from # "get" /\ to \notin {"get", "calculate"}
  PROVE  ControlIInv'
<1> DEFINE e == Len(toServer) + 1
<1>1. /\ pc' \in [Everybody -> Places]
      /\ pc[t] = from /\ pc'[t] = to
      /\ \A u \in Everybody \ {t} : pc'[u] = pc[u]
      /\ Unrepaired' /\ NotYetCreated'
  BY WorkerRuns
<1>2. \/ pc'["controller"] = pc["controller"]
      \/ pc["controller"] # "get" /\ pc'["controller"] \notin {"get", "calculate"}
  BY <1>1 DEF Everybody, Workers
<1>3. /\ toServer \in Seq(Requests) /\ toClient \in Seq(Replies)
      /\ gets \in Nat /\ lost \in Nat /\ repeated \in Nat
      /\ ControlTypes
      /\ Fits(toServer, gets, lost) /\ Fits(toClient, gets, Later(toServer, 0) + lost)
  BY DEF ControlIInv, ControlTypes, Ages
<1>4. One(m) = 0 /\ ~OfGet(m)
  BY DEF Requests, One, OfGet
<1> HIDE DEF e
<1>5. /\ toServer' \in Seq(Requests) /\ Gap(toServer', toServer, e) /\ toServer'[e] = m
  BY <1>3, GapOfAppend DEF e
<1>6. /\ toServer \in Seq(Datagram) /\ toServer' \in Seq(Datagram)
  BY <1>3, <1>5, AreDatagrams
<1>7. Later(toServer', 0) = Later(toServer, 0)
  <2>1. Later(toServer', 0) = Later(toServer, 0) + One(toServer'[e])
    BY <1>3, <1>5, <1>6, FitsOfGap
  <2>2. Later(toServer, 0) \in Nat
    BY <1>6, LaterType
  <2> QED
    BY <1>4, <1>5, <2>1, <2>2
<1>8. Fits(toServer', gets, lost)
  <2>1. ~OfGet(toServer'[e])
    BY <1>4, <1>5
  <2> QED
    BY <1>3, <1>5, <1>6, <2>1, FitsOfGap
<1>9. ControlTypes'
  BY <1>1, <1>3, <1>5 DEF ControlTypes, Everybody
<1>10. UnderWay' = UnderWay /\ UnderWay \in Nat
  BY <1>3, <1>7, <1>9, UnderWayType
<1>11. Balance'
  BY <1>2, <1>3, <1>10, <1>1 DEF ControlIInv, Balance
<1>12. Ages'
  BY <1>3, <1>7, <1>8, <1>10 DEF ControlIInv, Ages
<1>13. Unmatched' /\ AnswerAge'
  BY <1>2 DEF ControlIInv, Unmatched, AnswerAge
<1> QED
  BY <1>1, <1>9, <1>11, <1>12, <1>13 DEF ControlIInv

(* control() sends a GET: everything becomes older by one, and has one     *)
(* more behind it.                                                         *)
LEMMA SendGetKeeps == ASSUME ControlIInv, SendGet PROVE ControlIInv'
<1> DEFINE m == Msg("GET", gets + 1)
           e == Len(toServer) + 1
<1>0. "controller" \in Workers /\ "get" \in Places /\ "loop" # "none"
  BY DEF Workers, Places
<1>1. /\ UNCHANGED <<repairs, held, answers, y, toClient, lost, repeated>>
      /\ gets' = gets + 1 /\ toServer' = Append(toServer, m)
      /\ Goto("controller", "loop", "get")
  BY DEF SendGet, Send, sync
<1>2. /\ pc' \in [Everybody -> Places]
      /\ pc["controller"] = "loop" /\ pc'["controller"] = "get"
      /\ Unrepaired' /\ NotYetCreated'
  BY <1>0, <1>1, WorkerRuns
<1>3. /\ toServer \in Seq(Requests) /\ toClient \in Seq(Replies)
      /\ gets \in Nat /\ lost \in Nat /\ repeated \in Nat
      /\ ControlTypes
      /\ Fits(toServer, gets, lost) /\ Fits(toClient, gets, Later(toServer, 0) + lost)
  BY DEF ControlIInv, ControlTypes, Ages
<1>4. m \in Requests /\ One(m) = 1 /\ m.n = gets + 1
  BY <1>3 DEF Msg, Requests, One, OfGet
<1> HIDE DEF m, e
<1>5. /\ toServer' \in Seq(Requests) /\ Gap(toServer', toServer, e) /\ toServer'[e] = m
  BY <1>1, <1>3, <1>4, GapOfAppend DEF e
<1>6. /\ toServer \in Seq(Datagram) /\ toServer' \in Seq(Datagram)
      /\ toClient \in Seq(Datagram)
      /\ Later(toServer, 0) \in Nat /\ Later(toServer', 0) \in Nat
      /\ Later(toClient, 0) \in Nat
  BY <1>3, <1>5, AreDatagrams, LaterType
<1>7. Later(toServer', 0) = Later(toServer, 0) + 1
  <2>1. Later(toServer', 0) = Later(toServer, 0) + One(toServer'[e])
    BY <1>3, <1>5, <1>6, FitsOfGap
  <2> QED
    BY <1>4, <1>5, <2>1
<1>8. Fits(toServer', gets', lost')
  <2> DEFINE g == gets + 1
  <2>1. g \in Nat /\ Fits(toServer, g, lost + 1)
    BY <1>3, <1>6, FitsFurther
  <2> HIDE DEF g
  <2>2. Fits(toServer, g, lost + One(toServer'[e]))
    BY <1>4, <1>5, <2>1
  <2>3. e = Len(toServer') /\ Later(toServer', e) \in Nat
    <3>1. e \in Nat /\ e = Len(toServer')
      BY <1>3, <1>5, SMT DEF Gap, e
    <3> QED
      BY <1>6, <3>1, LaterType
  <2>4. toServer'[e].n = g
    BY <1>4, <1>5 DEF g
  <2>5. toServer'[e].n <= g /\ g - toServer'[e].n <= Later(toServer', e) + lost
    BY <1>3, <2>1, <2>3, <2>4, SMT
  <2>6. Fits(toServer', g, lost)
    BY <1>3, <1>5, <1>6, <2>1, <2>2, <2>3, <2>5, FitsOfGap
  <2> QED
    BY <1>1, <2>6 DEF g
<1>9. Fits(toClient', gets', Later(toServer', 0) + lost')
  <2> DEFINE f == Later(toServer, 0) + lost
  <2>1. f \in Nat /\ Fits(toClient, gets, f) /\ f + 1 = Later(toServer', 0) + lost
    <3>1. f \in Nat
      BY <1>3, <1>6
    <3>2. f + 1 = Later(toServer', 0) + lost
      BY <1>3, <1>6, <1>7
    <3> QED
      BY <1>3, <3>1, <3>2
  <2> HIDE DEF f
  <2>2. Fits(toClient, gets + 1, f + 1)
    BY <1>3, <1>6, <2>1, FitsFurther
  <2> QED
    BY <1>1, <2>1, <2>2
<1>10. ControlTypes'
  BY <1>1, <1>2, <1>3, <1>5 DEF ControlTypes, Everybody
<1>11. UnderWay' = UnderWay + 1 /\ UnderWay \in Nat
  <2> DEFINE a == Later(toServer, 0)
             b == Later(toServer', 0)
             c == Len(answers)
             d == Later(toClient, 0)
  <2>1. a \in Nat /\ b = a + 1 /\ d \in Nat
    BY <1>6, <1>7
  <2>2. c \in Nat /\ UnderWay = c + d + a
    BY <1>3, <1>10, UnderWayType
  <2>3. UnderWay' = c + d + b
    BY <1>1, <1>3, <1>10, UnderWayType
  <2> HIDE DEF a, b, c, d
  <2> QED
    BY <2>1, <2>2, <2>3
<1>12. Balance'
  <2>1. UnderWay + lost <= repeated + 0
    BY <1>2 DEF ControlIInv, Balance
  <2>2. UnderWay' + lost' <= repeated' + 1
    BY <1>1, <1>3, <1>11, <2>1
  <2> QED
    BY <1>2, <2>2 DEF Balance
<1>13. Ages'
  <2>1. ASSUME NEW i \in 1 .. Len(answers)
        PROVE  answers[i] <= gets + 1 /\ (gets + 1) - answers[i] <= UnderWay' - i + lost
    <3>1. answers[i] \in Nat /\ i \in Nat
      BY DEF ControlIInv, ControlTypes
    <3>2. answers[i] <= gets /\ gets - answers[i] <= UnderWay - i + lost
      BY DEF ControlIInv, Ages
    <3> DEFINE u == UnderWay
               v == UnderWay'
               n == answers[i]
    <3>3. u \in Nat /\ v = u + 1 /\ n \in Nat /\ n <= gets /\ gets - n <= u - i + lost
      BY <1>11, <3>1, <3>2
    <3> HIDE DEF u, v, n
    <3>4. n <= gets + 1 /\ (gets + 1) - n <= v - i + lost
      BY <1>3, <3>1, <3>3
    <3> QED
      BY <3>4 DEF v, n
  <2> QED
    BY <1>1, <1>8, <1>9, <2>1 DEF Ages
<1>14. Unmatched' /\ AnswerAge'
  BY <1>1, <1>2 DEF ControlIInv, Unmatched, AnswerAge
<1> QED
  BY <1>2, <1>10, <1>12, <1>13, <1>14 DEF ControlIInv

(* control() takes the answer that has waited longest. It waits for one,   *)
(* so nothing more than what was repeated can still be behind it.          *)
LEMMA TakeAnswerKeeps == ASSUME ControlIInv, TakeAnswer PROVE ControlIInv'
<1>0. "controller" \in Workers /\ "calculate" \in Places /\ "get" # "none"
  BY DEF Workers, Places
<1>1. /\ UNCHANGED <<repairs, held, gets, toServer, toClient, lost, repeated>>
      /\ answers # <<>> /\ y' = Head(answers) /\ answers' = Tail(answers)
      /\ Goto("controller", "get", "calculate")
  BY DEF TakeAnswer, sync, network
<1>2. /\ pc' \in [Everybody -> Places]
      /\ pc["controller"] = "get" /\ pc'["controller"] = "calculate"
      /\ Unrepaired' /\ NotYetCreated'
  BY <1>0, <1>1, WorkerRuns
<1>3. /\ answers \in Seq(Nat) /\ gets \in Nat /\ lost \in Nat /\ repeated \in Nat
      /\ ControlTypes
      /\ Fits(toServer, gets, lost) /\ Fits(toClient, gets, Later(toServer, 0) + lost)
      /\ \A i \in 1 .. Len(answers) :
           answers[i] <= gets /\ gets - answers[i] <= UnderWay - i + lost
      /\ UnderWay + lost <= repeated + 1
  BY <1>2 DEF ControlIInv, ControlTypes, Ages, Balance
<1>4. /\ answers' \in Seq(Nat) /\ Len(answers) \in Nat \ {0}
      /\ Len(answers') = Len(answers) - 1
      /\ \A i \in 1 .. Len(answers') : answers'[i] = answers[i + 1]
      /\ y' = answers[1] /\ y' \in Nat
  BY <1>1, <1>3, SMT
<1>5. ControlTypes'
  BY <1>1, <1>2, <1>3, <1>4 DEF ControlTypes, Everybody
<1>6. UnderWay' = UnderWay - 1 /\ UnderWay \in Nat /\ UnderWay' \in Nat
  <2> DEFINE a == Later(toServer, 0)
             b == Later(toClient, 0)
             c == Len(answers)
             d == Len(answers')
  <2>1. a \in Nat /\ b \in Nat /\ c \in Nat /\ d = c - 1
    BY <1>3, <1>4, <1>5, UnderWayType
  <2>2. UnderWay = c + b + a /\ UnderWay \in Nat
    BY <1>3, <1>5, UnderWayType
  <2>3. UnderWay' = d + b + a /\ UnderWay' \in Nat
    BY <1>1, <1>3, <1>5, UnderWayType
  <2> HIDE DEF a, b, c, d
  <2> QED
    BY <2>1, <2>2, <2>3
<1>7. Balance'
  <2> DEFINE u == UnderWay
             v == UnderWay'
  <2>1. u \in Nat /\ v = u - 1 /\ u + lost <= repeated + 1
    BY <1>3, <1>6
  <2> HIDE DEF u, v
  <2>2. v + lost <= repeated + 0
    BY <1>3, <2>1
  <2> QED
    BY <1>1, <1>2, <2>2 DEF Balance, v
<1>8. Ages'
  <2>1. ASSUME NEW i \in 1 .. Len(answers')
        PROVE  answers'[i] <= gets /\ gets - answers'[i] <= UnderWay' - i + lost
    <3> DEFINE u == UnderWay
               v == UnderWay'
               n == answers[i + 1]
    <3>1. i + 1 \in 1 .. Len(answers) /\ i \in Nat
      BY <1>4
    <3>2. n \in Nat /\ n <= gets /\ gets - n <= u - (i + 1) + lost
      BY <1>3, <3>1
    <3>3. u \in Nat /\ v = u - 1
      BY <1>6
    <3> HIDE DEF u, v, n
    <3>4. gets - n <= v - i + lost
      BY <1>3, <3>1, <3>2, <3>3
    <3> QED
      BY <1>4, <3>2, <3>4 DEF v, n
  <2> QED
    BY <1>1, <1>3, <2>1 DEF Ages
<1>9. AnswerAge'
  <2> DEFINE u == UnderWay
             n == answers[1]
  <2>1. n \in Nat /\ n <= gets /\ gets - n <= u - 1 + lost
    BY <1>3, <1>4
  <2>2. u \in Nat /\ u + lost <= repeated + 1
    BY <1>3, <1>6
  <2> HIDE DEF u, n
  <2>3. gets - n <= repeated
    BY <1>3, <2>1, <2>2
  <2> QED
    BY <1>1, <1>4, <2>1, <2>3 DEF AnswerAge, n
<1>10. Unmatched'
  BY <1>1 DEF ControlIInv, Unmatched
<1> QED
  BY <1>2, <1>5, <1>7, <1>8, <1>9, <1>10 DEF ControlIInv

(* The receiver puts an answer, if it recognises it, behind the others.    *)
LEMMA ReceiveKeeps == ASSUME ControlIInv, ReceiveDatagram PROVE ControlIInv'
<1> DEFINE m == Head(toClient)
<1>0. "recv" \in Workers /\ "test" \in Places /\ "receive" # "none" /\ "recv" # "controller"
  BY DEF Workers, Places
<1>1. /\ UNCHANGED <<repairs, held, gets, y, toServer, lost, repeated>>
      /\ Goto("recv", "receive", "test")
      /\ toClient # <<>> /\ toClient' = Tail(toClient)
      /\ \/ m.kind = "SIGNAL" /\ answers' = answers
         \/ /\ m.kind = "GET_ACK"
            /\ answers' = IF "match" \in repairs THEN Append(answers, m.n) ELSE answers
  BY DEF ReceiveDatagram
<1>2. /\ pc' \in [Everybody -> Places] /\ pc'["controller"] = pc["controller"]
      /\ Unrepaired' /\ NotYetCreated'
  BY <1>0, <1>1, WorkerRuns DEF Everybody, Workers
<1>3. /\ toServer \in Seq(Requests) /\ toClient \in Seq(Replies)
      /\ answers \in Seq(Nat)
      /\ gets \in Nat /\ lost \in Nat /\ repeated \in Nat
      /\ ControlTypes
      /\ Fits(toServer, gets, lost) /\ Fits(toClient, gets, Later(toServer, 0) + lost)
      /\ \A i \in 1 .. Len(answers) :
           answers[i] <= gets /\ gets - answers[i] <= UnderWay - i + lost
      /\ UnderWay + lost <= repeated + IF pc["controller"] = "get" THEN 1 ELSE 0
      /\ Unmatched
  BY DEF ControlIInv, ControlTypes, Ages, Balance
<1>4. /\ toClient' \in Seq(Replies) /\ Gap(toClient, toClient', 1)
      /\ m = toClient[1] /\ m \in Replies
  BY <1>1, <1>3, GapOfTail
<1>5. /\ toClient \in Seq(Datagram) /\ toClient' \in Seq(Datagram)
      /\ toServer \in Seq(Datagram) /\ Len(toClient) \in Nat \ {0}
      /\ Later(toServer, 0) \in Nat
      /\ Later(toClient, 0) \in Nat /\ Later(toClient', 0) \in Nat
  <2>1. /\ toClient \in Seq(Datagram) /\ toClient' \in Seq(Datagram)
        /\ toServer \in Seq(Datagram)
    BY <1>3, <1>4, AreDatagrams
  <2>2. /\ Later(toServer, 0) \in Nat
        /\ Later(toClient, 0) \in Nat /\ Later(toClient', 0) \in Nat
    BY <2>1, LaterType
  <2> QED
    BY <1>1, <1>3, <2>1, <2>2
<1>6. Later(toClient, 0) = Later(toClient', 0) + One(m)
  <2>1. Gap(toClient, toClient', 1) /\ toClient[1] = m
    BY <1>4
  <2>2. Later(toClient, 0) = Later(toClient', 0) + One(toClient[1])
    BY <1>3, <1>5, <2>1, FitsOfGap
  <2> QED
    BY <2>1, <2>2
<1>7. Fits(toClient', gets, Later(toServer, 0) + lost)
  <2> DEFINE f == Later(toServer, 0) + lost
  <2>1. f \in Nat /\ Fits(toClient, gets, f)
    BY <1>3, <1>5
  <2> HIDE DEF f
  <2>2. Fits(toClient', gets, f)
    BY <1>3, <1>4, <1>5, <2>1, FitsOfGap
  <2> QED
    BY <2>2 DEF f
<1>8. CASE m.kind = "GET_ACK" /\ "match" \in repairs
  <2>1. answers' = Append(answers, m.n) /\ One(m) = 1 /\ OfGet(m) /\ m.n \in Nat
    BY <1>1, <1>4, <1>8 DEF One, OfGet, Replies
  <2>2. /\ answers' \in Seq(Nat) /\ Len(answers') = Len(answers) + 1 /\ Len(answers) \in Nat
        /\ \A i \in 1 .. Len(answers) : answers'[i] = answers[i]
        /\ answers'[Len(answers) + 1] = m.n
    BY <1>3, <2>1, SMT
  <2>3. ControlTypes'
    BY <1>1, <1>2, <1>3, <1>4, <2>2 DEF ControlTypes, Everybody
  <2>4. UnderWay' = UnderWay /\ UnderWay \in Nat
    <3> DEFINE a == Later(toClient, 0)
               b == Later(toClient', 0)
               c == Len(answers)
               d == Len(answers')
               e == Later(toServer, 0)
    <3>1. a \in Nat /\ b \in Nat /\ a = b + 1 /\ c \in Nat /\ d = c + 1 /\ e \in Nat
      BY <1>5, <1>6, <2>1, <2>2
    <3>2. UnderWay = c + a + e
      BY <1>3, <2>3, UnderWayType
    <3>3. UnderWay' = d + b + e
      BY <1>1, <1>3, <2>3, UnderWayType
    <3> HIDE DEF a, b, c, d, e
    <3> QED
      BY <3>1, <3>2, <3>3
  <2>5. m.n <= gets /\ gets - m.n <= UnderWay - (Len(answers) + 1) + lost
    <3>1. 1 \in OfGets(toClient)
      BY <1>4, <1>5, <2>1 DEF OfGets
    <3>2. m.n <= gets /\ gets - m.n <= Later(toClient, 1) + (Later(toServer, 0) + lost)
      BY <1>3, <1>4, <3>1 DEF Fits
    <3>3. Later(toClient, 1) = Later(toClient', 0)
      <4>1. Later(toClient, 1) = Later(toClient', 1 - 1)
        BY <1>4, <1>5, LaterOfNew
      <4> QED
        BY <4>1
    <3> DEFINE b == Later(toClient', 0)
               c == Len(answers)
               d == Len(answers')
               e == Later(toServer, 0)
               u == UnderWay
               n == m.n
    <3>4. /\ b \in Nat /\ c \in Nat /\ d = c + 1 /\ e \in Nat /\ n \in Nat
          /\ gets - n <= b + (e + lost)
      BY <1>5, <2>1, <2>2, <3>2, <3>3
    <3>5. u = d + b + e
      BY <1>1, <1>3, <2>3, <2>4, UnderWayType
    <3> HIDE DEF b, c, d, e, u, n
    <3>6. gets - n <= u - (c + 1) + lost
      BY <1>3, <3>4, <3>5
    <3> QED
      BY <3>2, <3>6 DEF c, u, n
  <2>6. Ages'
    <3>1. ASSUME NEW i \in 1 .. Len(answers')
          PROVE  answers'[i] <= gets /\ gets - answers'[i] <= UnderWay' - i + lost
      <4>1. CASE i \in 1 .. Len(answers)
        BY <1>3, <2>2, <2>4, <4>1
      <4>2. CASE i = Len(answers) + 1
        BY <2>2, <2>4, <2>5, <4>2
      <4> QED
        BY <2>2, <4>1, <4>2
    <3> QED
      BY <1>1, <1>3, <1>7, <3>1 DEF Ages
  <2>7. Balance' /\ Unmatched' /\ AnswerAge'
    BY <1>1, <1>2, <1>3, <1>8, <2>4 DEF Balance, Unmatched, ControlIInv, AnswerAge
  <2> QED
    BY <1>2, <2>3, <2>6, <2>7 DEF ControlIInv
<1>9. CASE ~(m.kind = "GET_ACK" /\ "match" \in repairs)
  <2>1. answers' = answers /\ (One(m) = 0 \/ answers = <<>>) /\ One(m) \in {0, 1}
    BY <1>1, <1>3, <1>9 DEF One, OfGet, Unmatched
  <2>2. ControlTypes'
    BY <1>1, <1>2, <1>3, <1>4, <2>1 DEF ControlTypes, Everybody
  <2>3. UnderWay' + One(m) = UnderWay /\ UnderWay \in Nat /\ UnderWay' \in Nat
    <3> DEFINE a == Later(toClient, 0)
               b == Later(toClient', 0)
               c == Len(answers)
               e == Later(toServer, 0)
               o == One(m)
    <3>1. a \in Nat /\ b \in Nat /\ a = b + o /\ o \in {0, 1} /\ e \in Nat
      BY <1>5, <1>6, <2>1
    <3>2. c \in Nat /\ UnderWay = c + a + e
      BY <1>3, <2>2, UnderWayType
    <3>3. UnderWay' = c + b + e
      BY <1>1, <1>3, <2>1, <2>2, UnderWayType
    <3> HIDE DEF a, b, c, e, o
    <3>4. UnderWay' + o = UnderWay /\ UnderWay \in Nat /\ UnderWay' \in Nat
      BY <3>1, <3>2, <3>3
    <3> QED
      BY <3>4 DEF o
  <2>4. Balance'
    <3> DEFINE k == IF pc["controller"] = "get" THEN 1 ELSE 0
               u == UnderWay
               v == UnderWay'
               o == One(m)
    <3>1. /\ k \in Nat /\ u \in Nat /\ v \in Nat /\ o \in {0, 1}
          /\ v + o = u /\ u + lost <= repeated + k
      BY <1>3, <2>1, <2>3
    <3> HIDE DEF k, u, v, o
    <3>2. v + lost <= repeated + k
      BY <1>3, <3>1
    <3> QED
      BY <1>1, <1>2, <3>2 DEF Balance, k, v
  <2>5. Ages'
    <3>1. CASE One(m) = 0
      <4>1. UnderWay' = UnderWay
        BY <2>3, <3>1
      <4> QED
        BY <1>1, <1>3, <1>7, <2>1, <4>1 DEF Ages
    <3>2. CASE answers = <<>>
      <4>1. 1 .. Len(answers) = {}
        BY <3>2
      <4> QED
        BY <1>1, <1>3, <1>7, <2>1, <4>1 DEF Ages
    <3> QED
      BY <2>1, <3>1, <3>2
  <2>6. Unmatched' /\ AnswerAge'
    BY <1>1, <1>2, <2>1 DEF Unmatched, ControlIInv, AnswerAge
  <2> QED
    BY <1>2, <2>2, <2>4, <2>5, <2>6 DEF ControlIInv
<1> QED
  BY <1>8, <1>9

-----------------------------------------------------------------------------
(* A step of the controller keeps it.                                      *)
LEMMA ControllerKeeps == ASSUME ControlIInv, Controller PROVE ControlIInv'
<1>0. "controller" \in Workers /\ held \in BOOLEAN
  BY DEF Workers, ControlIInv, ControlTypes
<1>1. ASSUME NEW kind \in {"START", "SET", "STOP"},
             NEW from \in {"START", "SET", "calculate", "STOP"},
             NEW to \in {"activate", "loop", "deactivate"},
             Send("controller", from, to, Msg(kind, 0)), UNCHANGED gets
      PROVE  ControlIInv'
  <2> DEFINE m == Msg(kind, 0)
  <2>1. m \in Requests /\ m.kind # "GET"
    BY DEF Msg, Requests
  <2>2. /\ UNCHANGED <<repairs, held, answers, gets, y, toClient, lost, repeated>>
        /\ toServer' = Append(toServer, m) /\ Goto("controller", from, to)
    BY <1>1 DEF Send, sync
  <2>3. to \in Places /\ from # "none"
    BY DEF Places
  <2> HIDE DEF m
  <2> QED
    BY <1>0, <2>1, <2>2, <2>3, SendKeeps
<1>2. CASE Send("controller", "START", "activate", Msg("START", 0)) /\ UNCHANGED gets
  BY <1>1, <1>2
<1>3. CASE Send("controller", "SET", "loop", Msg("SET", 0)) /\ UNCHANGED gets
  BY <1>1, <1>3
<1>4. CASE Send("controller", "calculate", "loop", Msg("SET", 0)) /\ UNCHANGED gets
  BY <1>1, <1>4
<1>5. CASE Send("controller", "STOP", "deactivate", Msg("STOP", 0)) /\ UNCHANGED gets
  BY <1>1, <1>5
<1>6. CASE update_control_active("controller", "activate", "activate2", TRUE)
  BY <1>0, <1>6, FlagKeeps DEF Places
<1>7. CASE Second("controller", "activate2", "SET")
  BY <1>0, <1>7, FlagKeeps DEF Places
<1>8. CASE Deactivate
  BY <1>0, <1>8, FlagKeeps DEF Deactivate, Places
<1>9. CASE Second("controller", "deactivate2", "done")
  BY <1>0, <1>9, FlagKeeps DEF Places
<1>10. CASE HalfOver
  <2> DEFINE to == IF half = 1 THEN "SET" ELSE "STOP"
  <2>1. /\ UNCHANGED <<repairs, held, answers, gets, y, toServer, toClient, lost, repeated>>
        /\ Goto("controller", "loop", to)
    BY <1>10 DEF HalfOver, sync, network
  <2>2. to \in Places /\ to \notin {"get", "calculate"}
    BY DEF Places
  <2> HIDE DEF to
  <2> QED
    BY <1>0, <2>1, <2>2, UnmovedByWorker
<1> QED
  BY <1>2, <1>3, <1>4, <1>5, <1>6, <1>7, <1>8, <1>9, <1>10,
     SendGetKeeps, TakeAnswerKeeps DEF Controller

(* The acknowledgement of a signal keeps it.                               *)
LEMMA SendAckKeeps == ASSUME ControlIInv, SendAck PROVE ControlIInv'
<1>0. /\ "sendAck" \in Workers /\ "sendAck" # "controller" /\ held \in BOOLEAN
      /\ {"wait", "SIGNAL_ACK", "test"} \subseteq Places
  BY DEF Workers, ControlIInv, ControlTypes, Places
<1>1. CASE Test("sendAck", "wait")
  BY <1>0, <1>1, TestKeeps
<1>2. CASE WaitAck
  <2>1. /\ UNCHANGED <<repairs, held, answers, gets, y, toServer, toClient, lost, repeated>>
        /\ Goto("sendAck", "wait", "SIGNAL_ACK")
    BY <1>2 DEF WaitAck, sync, network
  <2> QED
    BY <1>0, <2>1, UnmovedByWorker
<1>3. CASE Acknowledge
  <2> DEFINE m == Msg("SIGNAL_ACK", 0)
  <2>1. m \in Requests /\ m.kind # "GET"
    BY DEF Msg, Requests
  <2>2. /\ UNCHANGED <<repairs, held, answers, gets, y, toClient, lost, repeated>>
        /\ toServer' = Append(toServer, m) /\ Goto("sendAck", "SIGNAL_ACK", "test")
    BY <1>3 DEF Acknowledge, data
  <2> HIDE DEF m
  <2> QED
    BY <1>0, <2>1, <2>2, SendKeeps
<1> QED
  BY <1>1, <1>2, <1>3 DEF SendAck

(* The invariant holds at the start.                                       *)
LEMMA ControlInitially == InitControl => ControlIInv
<1> SUFFICES ASSUME InitControl PROVE ControlIInv
  OBVIOUS
<1>1. /\ pc \in [Everybody -> Places] /\ pc["main"] = "init"
      /\ \A t \in Workers : pc[t] = "none"
  BY DEF InitControl, Everybody, Workers, Places
<1>2. /\ repairs \in SUBSET {"unlock", "match"} /\ held = FALSE
      /\ answers = <<>> /\ gets = 0 /\ y = 0 /\ toServer = <<>> /\ toClient = <<>>
      /\ lost = 0 /\ repeated = 0
  BY DEF InitControl
<1>3. ControlTypes
  <2>1. <<>> \in Seq(Nat) /\ <<>> \in Seq(Requests) /\ <<>> \in Seq(Replies)
    OBVIOUS
  <2> QED
    BY <1>1, <1>2, <2>1 DEF ControlTypes, Everybody
<1>4. OfGets(<<>>) = {} /\ Len(answers) = 0
  BY <1>2 DEF OfGets
<1>5. Later(<<>>, 0) = 0
  <2>1. LaterThan(<<>>, 0) = {}
    BY <1>4 DEF LaterThan
  <2> QED
    BY <2>1, FS_EmptySet DEF Later
<1>6. UnderWay = 0
  BY <1>2, <1>4, <1>5 DEF UnderWay
<1>7. Balance /\ Ages
  BY <1>1, <1>2, <1>4, <1>5, <1>6 DEF Balance, Ages, Fits, Workers
<1>8. "controller" \in Workers
  BY DEF Workers
<1> QED
  BY <1>1, <1>2, <1>3, <1>7, <1>8
  DEF ControlIInv, Unrepaired, Unmatched, NotYetCreated, AnswerAge

(* The invariant is inductive.                                             *)
LEMMA ControlInductive == ControlIInv /\ [NextControl]_controlVars => ControlIInv'
<1> SUFFICES ASSUME ControlIInv, [NextControl]_controlVars PROVE ControlIInv'
  OBVIOUS
<1>1. CASE Recv
  BY <1>1, TestKeeps, ReceiveKeeps DEF Recv, Places
<1>2. CASE UNCHANGED controlVars
  <2>1. Unmoved
    BY <1>2 DEF controlVars, sync, data, network, Unmoved, ControlIInv, ControlTypes, Everybody
  <2>2. UNCHANGED <<repairs, pc, held>>
    BY <1>2 DEF controlVars, sync
  <2>3. Unrepaired' /\ NotYetCreated'
    BY <2>2 DEF ControlIInv, Unrepaired, NotYetCreated
  <2> QED
    <3>1. ControlTypes' /\ Unmatched' /\ Balance' /\ Ages' /\ AnswerAge'
      BY <2>1, UnmovedKeeps
    <3> QED
      BY <2>3, <3>1 DEF ControlIInv
<1> QED
  BY <1>1, <1>2, MainKeeps, ControllerKeeps, SendAckKeeps, ServeKeeps, SignalKeeps,
     LoseKeeps, RepeatKeeps DEF NextControl

(* Whatever is repaired, lost and repeated, ControlIInv holds throughout.  *)
THEOREM ControlInvariance == SpecControl => []ControlIInv
<1>1. InitControl => ControlIInv
  BY ControlInitially
<1>2. ControlIInv /\ [NextControl]_controlVars => ControlIInv'
  BY ControlInductive
<1> QED
  BY <1>1, <1>2, PTL DEF SpecControl

(* As it is written the controller stops in main before it creates a       *)
(* thread, and with the mutex put right at the answer to its first GET.    *)
THEOREM ControlStops == SpecControl => []StopsAtItsFaults
<1>1. ControlIInv => StopsAtItsFaults
  BY DEF ControlIInv, ControlTypes, Unrepaired, Unmatched, StopsAtItsFaults
<1> QED
  BY <1>1, ControlInvariance, PTL

(* What control() computes with is no older than the datagrams repeated    *)
(* account for, in whatever order the threads, the server and the network  *)
(* run.                                                                    *)
THEOREM AnswerIsRecent == SpecControl => []AnswerAge
<1>1. ControlIInv => AnswerAge
  BY DEF ControlIInv
<1> QED
  BY <1>1, ControlInvariance, PTL

(* Once more has been lost than repeated, control() is at its wait for an  *)
(* answer, and has not stopped the simulation.                             *)
THEOREM LossIsFatal == SpecControl => []LossStopsControl
<1>1. ASSUME ControlIInv PROVE LossStopsControl
  <2> DEFINE k == IF pc["controller"] = "get" THEN 1 ELSE 0
             u == UnderWay
  <2>1. u + lost <= repeated + k /\ k \in Nat /\ lost \in Nat /\ repeated \in Nat
    BY <1>1 DEF ControlIInv, ControlTypes, Balance
  <2>2. u \in Nat
    <3>1. Len(answers) \in Nat
      BY <1>1 DEF ControlIInv, ControlTypes
    <3>2. Later(toServer, 0) \in Nat /\ Later(toClient, 0) \in Nat
      BY <1>1, LaterType, AreDatagrams DEF ControlIInv, ControlTypes
    <3> QED
      BY <3>1, <3>2 DEF UnderWay
  <2> HIDE DEF k, u
  <2>3. lost > repeated => k # 0
    BY <2>1, <2>2
  <2> QED
    BY <2>3 DEF LossStopsControl, k
<1> QED
  BY <1>1, ControlInvariance, PTL
=============================================================================
