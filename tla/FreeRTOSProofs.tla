--------------------------- MODULE FreeRTOSProofs ---------------------------
(***************************************************************************)
(* The kernel of FreeRTOSTasks for any number of tasks, priorities, ticks  *)
(* and sequence of calls, and the response tasks of Ex4 that run on it.    *)
(*                                                                         *)
(* The inductive invariant IInv has three parts.  Sound(k) is about the    *)
(* kernel's lists alone, and every function of the kernel keeps it: a task *)
(* is in one list of a kind at most and there once, the delayed lists are  *)
(* sorted by wake time, each ready list holds tasks of its priority, and   *)
(* uxTopReadyPriority is no lower than any of them.  EventsAsleep says     *)
(* that whoever waits for an event, or has had it but waits for the        *)
(* scheduler to be resumed, is blocked or suspended.  Controlled relates   *)
(* the lists to the points the tasks have reached: with the scheduler      *)
(* working nothing is put off and the task that runs is most urgent, or    *)
(* about to yield; with it suspended only that one is in a call.           *)
(*                                                                         *)
(* The kernel's loops, over the heads of a list and over the ticks missed, *)
(* are recursive functions on numbers in the model.  What holds of them up *)
(* to every number is proved by looking at the least one of which it does  *)
(* not hold.                                                               *)
(*                                                                         *)
(* That the kernel implements DelayLists needs Timed besides: the lists    *)
(* mean of the kernel what they are proved to mean of DelayLists, and no   *)
(* wake time is left behind.  Each step is then either somebody's going to *)
(* sleep, or tasks taken off the lists and some ticks after that: none for *)
(* a call, one for the tick interrupt, all that were missed at the end of  *)
(* a suspension of the scheduler.                                          *)
(*                                                                         *)
(* That the tests of line A are answered in time is an account in ticks:   *)
(* task A, with a priority of its own above all others, runs unless it     *)
(* sleeps, sleeps to the next tick at most, and TicksLeft says from each   *)
(* point of a test how many ticks may still pass before the answer.        *)
(***************************************************************************)
EXTENDS ResponseTasks, SequenceTheorems, WellFoundedInduction, TLAPS

-----------------------------------------------------------------------------
(* Least numbers, which stand for induction here.                          *)

(* The pairs of numbers of which the first is less than the second.        *)
Less == {p \in Nat \X Nat : p[1] < p[2]}

(* There is no infinite descent in the natural numbers.                    *)
LEMMA LessIsWellFounded == IsWellFoundedOn(Less, Nat)
<1>1. Less = OpToRel(<, Nat)
  BY DEF Less, OpToRel
<1> QED
  BY <1>1, NatLessThanWellFounded

(* A set of natural numbers has a least member.                            *)
LEMMA LeastNat ==
  ASSUME NEW T \in SUBSET Nat, T # {}
  PROVE  \E x \in T : \A y \in T : x <= y
<1>1. \E x \in T : \A y \in T : ~ (<<y, x>> \in Less)
  BY LessIsWellFounded, WFMin
<1>2. PICK x \in T : \A y \in T : ~ (<<y, x>> \in Less)
  BY <1>1
<1>3. ASSUME NEW y \in T
      PROVE  x <= y
  <2>1. <<y, x>> \in Nat \X Nat /\ <<y, x>>[1] = y /\ <<y, x>>[2] = x
    BY <1>2
  <2>2. ~ (y < x)
    BY <1>2, <2>1 DEF Less
  <2> QED
    BY <2>2, <1>2
<1> QED
  BY <1>2, <1>3

(* Min is what it is called.                                               *)
LEMMA MinIsLeast ==
  ASSUME NEW T \in SUBSET Nat, T # {}
  PROVE  Min(T) \in T /\ \A y \in T : Min(T) <= y
BY LeastNat DEF Min

(* Induction up to N, on the set of the numbers of which something holds.  *)
LEMMA InductionUpTo ==
  ASSUME NEW N \in Nat, NEW G, 0 \in G, \A m \in 1 .. N : m - 1 \in G => m \in G
  PROVE  \A m \in 0 .. N : m \in G
<1> DEFINE Bad == {m \in 0 .. N : m \notin G}
<1>1. ASSUME Bad # {}
      PROVE  FALSE
  <2>1. Bad \in SUBSET Nat
    OBVIOUS
  <2>2. PICK m \in Bad : \A n \in Bad : m <= n
    BY <1>1, <2>1, LeastNat
  <2>3. m \in 1 .. N /\ m - 1 \in 0 .. N /\ ~ (m <= m - 1)
    BY <2>2
  <2>4. m - 1 \in G
    BY <2>2, <2>3
  <2> QED
    BY <2>2, <2>3, <2>4
<1> QED
  BY <1>1

-----------------------------------------------------------------------------
(* Lists.                                                                  *)

Sorted(s, value) == \A i, j \in 1 .. Len(s) : i < j => value[s[i]] <= value[s[j]]

(* The members of a list, by their places.                                 *)
LEMMA MembersOf ==
  ASSUME NEW S, NEW s \in Seq(S)
  PROVE  /\ ToSet(s) \in SUBSET S
         /\ \A e : e \in ToSet(s) <=> \E i \in 1 .. Len(s) : s[i] = e
         /\ s = <<>> <=> ToSet(s) = {}
         /\ IsInjective(s) <=> \A i, j \in 1 .. Len(s) : s[i] = s[j] => i = j
         /\ \A e : Contains(s, e) <=> e \in ToSet(s)
BY LenProperties, EmptySeq DEF ToSet, IsInjective, Contains

(* An item removed leaves the others in their order.                       *)
LEMMA WithoutPlaces ==
  ASSUME NEW S, NEW s \in Seq(S), NEW t, t \in ToSet(s)
  PROVE  /\ Without(s, t) \in Seq(S)
         /\ Len(Without(s, t)) = Len(s) - 1
         /\ \E m \in 1 .. Len(s) :
              /\ s[m] = t
              /\ \A i \in 1 .. Len(s) - 1 :
                   Without(s, t)[i] = s[IF i < m THEN i ELSE i + 1]
<1> DEFINE I == {i \in 1 .. Len(s) : s[i] = t}
           m == Min(I)
           a == SubSeq(s, 1, m - 1)
           b == SubSeq(s, m + 1, Len(s))
<1>1. \E i \in 1 .. Len(s) : s[i] = t
  BY MembersOf
<1>2. Len(s) \in Nat /\ \A i \in 1 .. Len(s) : s[i] \in S
  BY LenProperties
<1>3. I \in SUBSET Nat /\ I # {}
  BY <1>1, <1>2
<1>4. m \in I
  BY <1>3, MinIsLeast
<1>5. SelectInSeq(s, LAMBDA v : v = t) = m
  BY <1>3 DEF SelectInSeq
<1>6. Without(s, t) = a \o b
  BY <1>1, <1>5 DEF Without, RemoveFirst, RemoveAt
<1>7. m \in 1 .. Len(s) /\ s[m] = t
  BY <1>4
<1> HIDE DEF m, I
<1>8. /\ a \in Seq(S) /\ Len(a) = m - 1
      /\ \A i \in 1 .. m - 1 : a[i] = s[i]
  BY <1>2, <1>7, SubSeqProperties
<1>9. /\ b \in Seq(S) /\ Len(b) = Len(s) - m
      /\ \A i \in 1 .. Len(s) - m : b[i] = s[m + i]
  BY <1>2, <1>7, SubSeqProperties
<1> HIDE DEF a, b
<1>10. /\ a \o b \in Seq(S) /\ Len(a \o b) = Len(s) - 1
       /\ \A i \in 1 .. Len(s) - 1 :
            (a \o b)[i] = IF i <= m - 1 THEN a[i] ELSE b[i - (m - 1)]
  <2>1. /\ a \o b \in Seq(S) /\ Len(a \o b) = Len(a) + Len(b)
        /\ \A i \in 1 .. Len(a) + Len(b) :
             (a \o b)[i] = IF i <= Len(a) THEN a[i] ELSE b[i - Len(a)]
    BY <1>8, <1>9, ConcatProperties
  <2>2. Len(a) + Len(b) = Len(s) - 1
    BY <1>2, <1>7, <1>8, <1>9
  <2> QED
    BY <2>1, <2>2, <1>8
<1>11. ASSUME NEW i \in 1 .. Len(s) - 1
       PROVE  (a \o b)[i] = s[IF i < m THEN i ELSE i + 1]
  <2>1. CASE i < m
    BY <2>1, <1>2, <1>7, <1>8, <1>10
  <2>2. CASE ~ (i < m)
    <3>1. i - (m - 1) \in 1 .. Len(s) - m /\ m + (i - (m - 1)) = i + 1
      BY <2>2, <1>2, <1>7
    <3> QED
      BY <2>2, <3>1, <1>2, <1>7, <1>9, <1>10
  <2> QED
    BY <2>1, <2>2
<1> QED
  BY <1>6, <1>7, <1>10, <1>11

(* What is not in a list cannot be removed from it.                        *)
LEMMA WithoutStranger ==
  ASSUME NEW S, NEW s \in Seq(S), NEW t, t \notin ToSet(s)
  PROVE  Without(s, t) = s
BY MembersOf DEF Without, RemoveFirst

(* A list without t is a list of the others.                               *)
LEMMA WithoutIs ==
  ASSUME NEW S, NEW s \in Seq(S), NEW t, IsInjective(s)
  PROVE  /\ Without(s, t) \in Seq(S)
         /\ IsInjective(Without(s, t))
         /\ ToSet(Without(s, t)) = ToSet(s) \ {t}
<1>1. CASE t \notin ToSet(s)
  BY <1>1, WithoutStranger
<1>2. CASE t \in ToSet(s)
  <2> DEFINE w == Without(s, t)
  <2>1. /\ w \in Seq(S) /\ Len(w) = Len(s) - 1 /\ Len(s) \in Nat
        /\ \E m \in 1 .. Len(s) :
              /\ s[m] = t
              /\ \A i \in 1 .. Len(s) - 1 : w[i] = s[IF i < m THEN i ELSE i + 1]
    BY <1>2, WithoutPlaces, LenProperties
  <2> HIDE DEF w
  <2>2. PICK m \in 1 .. Len(s) :
              /\ s[m] = t
              /\ \A i \in 1 .. Len(s) - 1 : w[i] = s[IF i < m THEN i ELSE i + 1]
    BY <2>1
  <2>3. \A i, j \in 1 .. Len(s) : s[i] = s[j] => i = j
    BY MembersOf
  <2>4. IsInjective(w)
    <3>1. ASSUME NEW i \in 1 .. Len(w), NEW j \in 1 .. Len(w), w[i] = w[j]
          PROVE  i = j
      <4> DEFINE a == IF i < m THEN i ELSE i + 1
                 b == IF j < m THEN j ELSE j + 1
      <4>1. a \in 1 .. Len(s) /\ b \in 1 .. Len(s)
        BY <2>1
      <4>2. w[i] = s[a] /\ w[j] = s[b]
        BY <2>1, <2>2
      <4>3. a = b
        BY <4>1, <4>2, <3>1, <2>3
      <4> QED
        BY <4>3, <2>1
    <3> QED
      BY <3>1, <2>1, MembersOf
  <2>5. ASSUME NEW e, e \in ToSet(w)
        PROVE  e \in ToSet(s) \ {t}
    <3>1. PICK i \in 1 .. Len(w) : w[i] = e
      BY <2>5, <2>1, MembersOf
    <3> DEFINE j == IF i < m THEN i ELSE i + 1
    <3>2. j \in 1 .. Len(s) /\ j # m
      BY <2>1
    <3>3. s[j] = e
      BY <3>1, <2>1, <2>2
    <3> HIDE DEF j
    <3> QED
      BY <3>2, <3>3, <2>2, <2>3, MembersOf
  <2>6. ASSUME NEW e, e \in ToSet(s), e # t
        PROVE  e \in ToSet(w)
    <3>1. PICK j \in 1 .. Len(s) : s[j] = e
      BY <2>6, MembersOf
    <3>2. CASE j < m
      <4>1. j \in 1 .. Len(w) /\ w[j] = s[j]
        BY <3>2, <2>1, <2>2
      <4> QED
        BY <4>1, <3>1, <2>1, MembersOf
    <3>3. CASE j > m
      <4> DEFINE i == j - 1
      <4>1. i \in 1 .. Len(s) - 1 /\ i \in 1 .. Len(w) /\ ~ (i < m) /\ i + 1 = j
        BY <3>3, <2>1
      <4> HIDE DEF i
      <4>2. w[i] = s[j]
        BY <4>1, <2>2
      <4> QED
        BY <4>1, <4>2, <3>1, <2>1, MembersOf
    <3> QED
      BY <3>1, <3>2, <3>3, <2>2, <2>6
  <2> QED
    BY <2>1, <2>4, <2>5, <2>6 DEF w
<1> QED
  BY <1>1, <1>2

(* Without t a sorted list stays sorted, whatever becomes of t's value.    *)
LEMMA WithoutSorted ==
  ASSUME NEW S, NEW s \in Seq(S), NEW t, IsInjective(s),
         NEW v \in [S -> Int], NEW w \in [S -> Int], Sorted(s, v),
         \A u \in ToSet(s) \ {t} : w[u] = v[u]
  PROVE  Sorted(Without(s, t), w)
<1>1. CASE t \notin ToSet(s)
  <2>1. \A i \in 1 .. Len(s) : w[s[i]] = v[s[i]]
    BY <1>1, MembersOf
  <2> QED
    BY <2>1, <1>1, WithoutStranger DEF Sorted
<1>2. CASE t \in ToSet(s)
  <2> DEFINE x == Without(s, t)
  <2>1. /\ x \in Seq(S) /\ Len(x) = Len(s) - 1 /\ Len(s) \in Nat
        /\ \E m \in 1 .. Len(s) :
              /\ s[m] = t
              /\ \A i \in 1 .. Len(s) - 1 : x[i] = s[IF i < m THEN i ELSE i + 1]
    BY <1>2, WithoutPlaces, LenProperties
  <2>2. ToSet(x) = ToSet(s) \ {t}
    BY WithoutIs
  <2> HIDE DEF x
  <2>3. PICK m \in 1 .. Len(s) :
              /\ s[m] = t
              /\ \A i \in 1 .. Len(s) - 1 : x[i] = s[IF i < m THEN i ELSE i + 1]
    BY <2>1
  <2>4. \A i \in 1 .. Len(x) : w[x[i]] = v[x[i]]
    BY <2>1, <2>2, MembersOf
  <2>5. ASSUME NEW i \in 1 .. Len(x), NEW j \in 1 .. Len(x), i < j
        PROVE  w[x[i]] <= w[x[j]]
    <3> DEFINE a == IF i < m THEN i ELSE i + 1
               b == IF j < m THEN j ELSE j + 1
    <3>1. i \in 1 .. Len(s) - 1 /\ j \in 1 .. Len(s) - 1 /\ m \in 1 .. Len(s)
      BY <2>1
    <3>2. x[i] = s[a] /\ x[j] = s[b]
      BY <3>1, <2>3
    <3>3. a \in 1 .. Len(s) /\ b \in 1 .. Len(s) /\ a < b
      <4> DEFINE n == Len(s)
      <4>1. n \in Int /\ i \in Int /\ j \in Int /\ m \in Int
        BY <2>1
      <4>2. 1 <= i /\ i <= n - 1 /\ 1 <= j /\ j <= n - 1 /\ i < j
        BY <2>1, <2>5
      <4> HIDE DEF n
      <4>3. a \in Int /\ b \in Int /\ 1 <= a /\ b <= n /\ a < b
        BY <4>1, <4>2
      <4>4. a <= n /\ 1 <= b
        BY <4>1, <4>3
      <4> HIDE DEF a, b
      <4>5. a \in 1 .. n /\ b \in 1 .. n
        BY <4>1, <4>3, <4>4
      <4> QED
        BY <4>3, <4>5 DEF n
    <3> HIDE DEF a, b
    <3>4. v[s[a]] <= v[s[b]]
      BY <3>3 DEF Sorted
    <3>5. w[x[i]] = v[x[i]] /\ w[x[j]] = v[x[j]]
      BY <2>4
    <3>6. w[x[i]] = v[s[a]] /\ w[x[j]] = v[s[b]]
      BY <3>2, <3>5
    <3> QED
      BY <3>4, <3>6
  <2> QED
    BY <2>5 DEF Sorted, x
<1> QED
  BY <1>1, <1>2

(* An item put at the end.                                                 *)
LEMMA AppendIs ==
  ASSUME NEW S, NEW s \in Seq(S), NEW t \in S, IsInjective(s), t \notin ToSet(s)
  PROVE  /\ Append(s, t) \in Seq(S)
         /\ IsInjective(Append(s, t))
         /\ ToSet(Append(s, t)) = ToSet(s) \cup {t}
<1> DEFINE x == Append(s, t)
<1>1. /\ x \in Seq(S) /\ Len(x) = Len(s) + 1 /\ Len(s) \in Nat
      /\ \A i \in 1 .. Len(s) : x[i] = s[i]
      /\ x[Len(s) + 1] = t
  BY AppendProperties, LenProperties
<1> HIDE DEF x
<1>2. \A i \in 1 .. Len(x) : i \in 1 .. Len(s) \/ i = Len(s) + 1
  BY <1>1
<1>3. \A i \in 1 .. Len(s) : s[i] \in ToSet(s)
  BY MembersOf
<1>4. IsInjective(x)
  <2>1. ASSUME NEW i \in 1 .. Len(x), NEW j \in 1 .. Len(x), x[i] = x[j]
        PROVE  i = j
    BY <2>1, <1>1, <1>2, <1>3, MembersOf
  <2> QED
    BY <2>1, <1>1, MembersOf
<1>5. ToSet(x) = ToSet(s) \cup {t}
  <2>1. \A e : (\E i \in 1 .. Len(x) : x[i] = e) <=> (\E i \in 1 .. Len(s) : s[i] = e) \/ e = t
    BY <1>1, <1>2
  <2> QED
    BY <2>1, <1>1, MembersOf
<1> QED
  BY <1>1, <1>4, <1>5 DEF x

(* An item put before the first of greater value.                          *)
LEMMA InsertPlaces ==
  ASSUME NEW S, NEW s \in Seq(S), NEW t \in S, NEW v \in [S -> Int]
  PROVE  /\ vListInsert(s, t, v) \in Seq(S)
         /\ Len(vListInsert(s, t, v)) = Len(s) + 1
         /\ \E m \in 1 .. Len(s) + 1 :
              /\ \A i \in 1 .. Len(s) + 1 :
                   vListInsert(s, t, v)[i] =
                     IF i = m THEN t ELSE s[IF i < m THEN i ELSE i - 1]
              /\ \A i \in 1 .. m - 1 : v[s[i]] <= v[t]
              /\ m <= Len(s) => v[s[m]] > v[t]
<1> DEFINE I == {i \in 1 .. Len(s) : v[s[i]] > v[t]}
           x == vListInsert(s, t, v)
<1>1. Len(s) \in Nat /\ \A i \in 1 .. Len(s) : s[i] \in S
  BY LenProperties
<1>2. CASE I = {}
  <2>1. x = Append(s, t)
    BY <1>2 DEF vListInsert, SelectInSeq
  <2>2. /\ x \in Seq(S) /\ Len(x) = Len(s) + 1
        /\ \A i \in 1 .. Len(s) : x[i] = s[i]
        /\ x[Len(s) + 1] = t
    BY <2>1, AppendProperties
  <2>3. \A i \in 1 .. Len(s) : v[s[i]] <= v[t]
    BY <1>1, <1>2
  <2> HIDE DEF x, I
  <2> DEFINE m == Len(s) + 1
  <2>4. m \in 1 .. Len(s) + 1 /\ ~ (m <= Len(s)) /\ m - 1 = Len(s)
    BY <1>1
  <2>5. ASSUME NEW i \in 1 .. Len(s) + 1
        PROVE  x[i] = IF i = m THEN t ELSE s[IF i < m THEN i ELSE i - 1]
    <3>1. CASE i = m
      BY <3>1, <2>2
    <3>2. CASE i # m
      <4>1. i \in 1 .. Len(s) /\ i < m
        BY <3>2, <1>1
      <4> QED
        BY <4>1, <3>2, <2>2
    <3> QED
      BY <3>1, <3>2
  <2>6. \A i \in 1 .. m - 1 : v[s[i]] <= v[t]
    BY <2>3, <2>4
  <2> HIDE DEF m
  <2> QED
    BY <2>2, <2>4, <2>5, <2>6 DEF x
<1>3. CASE I # {}
  <2> DEFINE m == Min(I)
             a == SubSeq(s, 1, m - 1)
             b == SubSeq(s, m, Len(s))
             c == a \o <<t>>
  <2>1. I \in SUBSET Nat
    BY <1>1
  <2>2. m \in I /\ \A i \in I : m <= i
    BY <2>1, <1>3, MinIsLeast
  <2>3. SelectInSeq(s, LAMBDA u : v[u] > v[t]) = m
    BY <1>3 DEF SelectInSeq
  <2>4. m \in 1 .. Len(s) /\ v[s[m]] > v[t]
    BY <2>2
  <2>5. ASSUME NEW i \in 1 .. m - 1
        PROVE  v[s[i]] <= v[t]
    <3>1. i \in 1 .. Len(s) /\ ~ (m <= i)
      BY <1>1, <2>4
    <3>2. i \notin I
      BY <2>2, <3>1
    <3> QED
      BY <1>1, <3>1, <3>2
  <2>6. x = c \o b
    <3>1. x = IF m = 0 THEN Append(s, t) ELSE InsertAt(s, m, t)
      BY <1>3 DEF vListInsert, SelectInSeq
    <3>2. m # 0
      BY <2>4, <1>1
    <3> QED
      BY <3>1, <3>2 DEF InsertAt
  <2> HIDE DEF m, I
  <2>7. /\ a \in Seq(S) /\ Len(a) = m - 1
        /\ \A i \in 1 .. m - 1 : a[i] = s[i]
    BY <1>1, <2>4, SubSeqProperties
  <2>8. /\ b \in Seq(S) /\ Len(b) = Len(s) - m + 1
        /\ \A i \in 1 .. Len(s) - m + 1 : b[i] = s[m + i - 1]
    <3>1. \A i \in m .. Len(s) : s[i] \in S
      BY <1>1, <2>4
    <3>2. m \in Int /\ Len(s) \in Int /\ m <= Len(s)
      BY <1>1, <2>4
    <3> HIDE DEF b
    <3>3. /\ SubSeq(s, m, Len(s)) \in Seq(S)
          /\ Len(SubSeq(s, m, Len(s))) = IF m <= Len(s) THEN Len(s) - m + 1 ELSE 0
          /\ \A i \in 1 .. Len(s) - m + 1 : SubSeq(s, m, Len(s))[i] = s[m + i - 1]
      BY <3>1, <3>2, SubSeqProperties
    <3>4. b = SubSeq(s, m, Len(s))
      BY DEF b
    <3>5. Len(b) = Len(s) - m + 1
      BY <3>2, <3>3, <3>4
    <3> QED
      BY <3>3, <3>4, <3>5
  <2>9. <<t>> \in Seq(S) /\ Len(<<t>>) = 1 /\ <<t>>[1] = t
    OBVIOUS
  <2> HIDE DEF a, b
  <2>10. /\ c \in Seq(S) /\ Len(c) = m
         /\ \A i \in 1 .. m : c[i] = IF i = m THEN t ELSE s[i]
    <3>1. /\ c \in Seq(S) /\ Len(c) = Len(a) + Len(<<t>>)
          /\ \A i \in 1 .. Len(a) + Len(<<t>>) :
               c[i] = IF i <= Len(a) THEN a[i] ELSE <<t>>[i - Len(a)]
      BY <2>7, <2>9, ConcatProperties
    <3>2. Len(c) = m /\ Len(a) + Len(<<t>>) = m
      BY <3>1, <2>4, <2>7, <2>9
    <3> HIDE DEF c
    <3>3. ASSUME NEW i \in 1 .. m
          PROVE  c[i] = IF i = m THEN t ELSE s[i]
      <4>1. CASE i = m
        BY <4>1, <3>1, <3>2, <2>4, <2>7, <2>9
      <4>2. CASE i # m
        <5>1. i \in 1 .. m - 1
          BY <4>2, <2>4, <1>1
        <5>2. c[i] = a[i]
          BY <5>1, <3>1, <3>2, <2>4, <2>7
        <5> QED
          BY <4>2, <5>1, <5>2, <2>7
      <4> QED
        BY <4>1, <4>2
    <3> QED
      BY <3>1, <3>2, <3>3
  <2> HIDE DEF c
  <2>11. /\ c \o b \in Seq(S) /\ Len(c \o b) = Len(s) + 1
         /\ \A i \in 1 .. Len(s) + 1 : (c \o b)[i] = IF i <= m THEN c[i] ELSE b[i - m]
    <3>1. /\ c \o b \in Seq(S) /\ Len(c \o b) = Len(c) + Len(b)
          /\ \A i \in 1 .. Len(c) + Len(b) :
               (c \o b)[i] = IF i <= Len(c) THEN c[i] ELSE b[i - Len(c)]
      BY <2>8, <2>10, ConcatProperties
    <3>2. Len(c) + Len(b) = Len(s) + 1
      BY <1>1, <2>4, <2>8, <2>10
    <3> QED
      BY <3>1, <3>2, <2>10
  <2>12. ASSUME NEW i \in 1 .. Len(s) + 1
         PROVE  (c \o b)[i] = IF i = m THEN t ELSE s[IF i < m THEN i ELSE i - 1]
    <3>1. CASE i <= m
      BY <3>1, <1>1, <2>4, <2>10, <2>11, SMTT(30)
    <3>2. CASE ~ (i <= m)
      <4>1. i - m \in 1 .. Len(s) - m + 1 /\ m + (i - m) - 1 = i - 1 /\ i # m /\ ~ (i < m)
        BY <3>2, <1>1, <2>4
      <4>2. b[i - m] = s[i - 1]
        BY <4>1, <2>8
      <4> QED
        BY <3>2, <4>1, <4>2, <2>11
    <3> QED
      BY <3>1, <3>2
  <2>13. m \in 1 .. Len(s) + 1
    BY <1>1, <2>4
  <2> QED
    BY <2>4, <2>5, <2>6, <2>11, <2>12, <2>13
<1> QED
  BY <1>2, <1>3

(* A list with t inserted.                                                 *)
LEMMA InsertIs ==
  ASSUME NEW S, NEW s \in Seq(S), NEW t \in S, NEW v \in [S -> Int],
         IsInjective(s), t \notin ToSet(s)
  PROVE  /\ vListInsert(s, t, v) \in Seq(S)
         /\ IsInjective(vListInsert(s, t, v))
         /\ ToSet(vListInsert(s, t, v)) = ToSet(s) \cup {t}
<1> DEFINE x == vListInsert(s, t, v)
<1>1. /\ x \in Seq(S) /\ Len(x) = Len(s) + 1 /\ Len(s) \in Nat
      /\ \E m \in 1 .. Len(s) + 1 :
           \A i \in 1 .. Len(s) + 1 :
             x[i] = IF i = m THEN t ELSE s[IF i < m THEN i ELSE i - 1]
  BY InsertPlaces, LenProperties
<1> HIDE DEF x
<1>2. PICK m \in 1 .. Len(s) + 1 :
           \A i \in 1 .. Len(s) + 1 :
             x[i] = IF i = m THEN t ELSE s[IF i < m THEN i ELSE i - 1]
  BY <1>1
<1>3. \A i \in 1 .. Len(s) : s[i] \in ToSet(s)
  BY MembersOf
<1>4. \A i \in 1 .. Len(s) + 1 :
        i # m => (IF i < m THEN i ELSE i - 1) \in 1 .. Len(s)
  BY <1>1
<1>5. \A i, j \in 1 .. Len(s) : s[i] = s[j] => i = j
  BY MembersOf
<1>6. IsInjective(x)
  <2>1. ASSUME NEW i \in 1 .. Len(s) + 1, NEW j \in 1 .. Len(s) + 1, x[i] = x[j]
        PROVE  i = j
    <3>1. CASE i = m \/ j = m
      BY <3>1, <2>1, <1>2, <1>3, <1>4
    <3>2. CASE i # m /\ j # m
      <4> DEFINE a == IF i < m THEN i ELSE i - 1
                 b == IF j < m THEN j ELSE j - 1
      <4>1. a \in 1 .. Len(s) /\ b \in 1 .. Len(s)
        BY <3>2, <1>4
      <4>2. s[a] = s[b]
        BY <2>1, <3>2, <1>2
      <4>3. a = b
        BY <4>1, <4>2, <1>5
      <4>4. i \in Int /\ j \in Int /\ m \in Int
        BY <1>1
      <4> QED
        BY <4>3, <4>4, <3>2
    <3> QED
      BY <3>1, <3>2
  <2> QED
    BY <2>1, <1>1, MembersOf
<1>7. ASSUME NEW e, e \in ToSet(x)
      PROVE  e \in ToSet(s) \cup {t}
  <2>1. PICK i \in 1 .. Len(s) + 1 : x[i] = e
    BY <1>1, <1>7, MembersOf
  <2> QED
    BY <2>1, <1>2, <1>3, <1>4
<1>8. ASSUME NEW e, e \in ToSet(s)
      PROVE  e \in ToSet(x)
  <2>1. PICK j \in 1 .. Len(s) : s[j] = e
    BY <1>8, MembersOf
  <2>2. CASE j < m
    <3>1. j \in 1 .. Len(s) + 1 /\ x[j] = e
      <4>1. j \in 1 .. Len(s) + 1 /\ j # m
        BY <2>2, <1>1
      <4> QED
        BY <4>1, <2>1, <2>2, <1>2
    <3> QED
      BY <3>1, <1>1, MembersOf
  <2>3. CASE ~ (j < m)
    <3>1. j + 1 \in 1 .. Len(s) + 1 /\ j + 1 # m /\ ~ (j + 1 < m) /\ j + 1 - 1 = j
      BY <2>3, <1>1
    <3>2. x[j + 1] = e
      BY <3>1, <2>1, <1>2
    <3> QED
      BY <3>1, <3>2, <1>1, MembersOf
  <2> QED
    BY <2>2, <2>3
<1>9. t \in ToSet(x)
  BY <1>1, <1>2, MembersOf
<1> QED
  BY <1>1, <1>6, <1>7, <1>8, <1>9 DEF x

(* Insertion keeps a list sorted.                                          *)
LEMMA InsertSorted ==
  ASSUME NEW S, NEW s \in Seq(S), NEW t \in S, NEW v \in [S -> Int], Sorted(s, v)
  PROVE  Sorted(vListInsert(s, t, v), v)
<1> DEFINE x == vListInsert(s, t, v)
<1>1. /\ x \in Seq(S) /\ Len(x) = Len(s) + 1 /\ Len(s) \in Nat
      /\ \E m \in 1 .. Len(s) + 1 :
           /\ \A i \in 1 .. Len(s) + 1 :
                x[i] = IF i = m THEN t ELSE s[IF i < m THEN i ELSE i - 1]
           /\ \A i \in 1 .. m - 1 : v[s[i]] <= v[t]
           /\ m <= Len(s) => v[s[m]] > v[t]
  <2>1. Len(s) \in Nat
    BY LenProperties
  <2>2. x \in Seq(S) /\ Len(x) = Len(s) + 1
    BY InsertPlaces
  <2>3. \E m \in 1 .. Len(s) + 1 :
           /\ \A i \in 1 .. Len(s) + 1 :
                x[i] = IF i = m THEN t ELSE s[IF i < m THEN i ELSE i - 1]
           /\ \A i \in 1 .. m - 1 : v[s[i]] <= v[t]
           /\ m <= Len(s) => v[s[m]] > v[t]
    BY InsertPlaces, Zenon
  <2> QED
    BY <2>1, <2>2, <2>3
<1> HIDE DEF x
<1>2. PICK m \in 1 .. Len(s) + 1 :
           /\ \A i \in 1 .. Len(s) + 1 :
                x[i] = IF i = m THEN t ELSE s[IF i < m THEN i ELSE i - 1]
           /\ \A i \in 1 .. m - 1 : v[s[i]] <= v[t]
           /\ m <= Len(s) => v[s[m]] > v[t]
  BY <1>1
<1>3. \A i \in 1 .. Len(s) : s[i] \in S /\ v[s[i]] \in Int
  BY LenProperties
<1>4. \A i \in m .. Len(s) : v[t] <= v[s[i]]
  <2> SUFFICES ASSUME NEW i \in m .. Len(s)
               PROVE  v[t] <= v[s[i]]
    OBVIOUS
  <2>1. m \in 1 .. Len(s) /\ i \in 1 .. Len(s) /\ m <= i
    BY <1>1
  <2>2. v[s[m]] <= v[s[i]]
    BY <2>1, <1>3 DEF Sorted
  <2> QED
    BY <2>1, <2>2, <1>2, <1>3
<1>5. ASSUME NEW i \in 1 .. Len(x), NEW j \in 1 .. Len(x), i < j
      PROVE  v[x[i]] <= v[x[j]]
  <2> DEFINE a == IF i < m THEN i ELSE i - 1
             b == IF j < m THEN j ELSE j - 1
  <2>1. i \in 1 .. Len(s) + 1 /\ j \in 1 .. Len(s) + 1
    BY <1>1
  <2>2. CASE i = m
    <3>1. j - 1 \in m .. Len(s) /\ j # m /\ ~ (j < m)
      <4> DEFINE n == Len(s)
      <4>1. n \in Int /\ m \in Int /\ j \in Int /\ j <= n + 1 /\ m < j
        BY <2>1, <2>2, <1>1, <1>5
      <4> HIDE DEF n
      <4>2. j - 1 \in Int /\ m <= j - 1 /\ j - 1 <= n
        BY <4>1
      <4>3. j - 1 \in m .. n
        BY <4>1, <4>2
      <4> QED
        BY <4>1, <4>3 DEF n
    <3> QED
      BY <3>1, <2>1, <2>2, <1>2, <1>4
  <2>3. CASE j = m
    <3>1. i \in 1 .. m - 1 /\ i # m /\ i < m
      BY <2>1, <2>3, <1>1, <1>5
    <3> QED
      BY <3>1, <2>1, <2>3, <1>2
  <2>4. CASE i # m /\ j # m
    <3>1. x[i] = s[a] /\ x[j] = s[b]
      BY <2>1, <2>4, <1>2
    <3>2. a \in 1 .. Len(s) /\ b \in 1 .. Len(s) /\ a < b
      <4>1. CASE j < m
        <5>1. a = i /\ b = j
          BY <4>1, <2>1, <1>1, <1>5
        <5> DEFINE n == Len(s)
        <5>2. n \in Int /\ m \in Int /\ i \in Int /\ j \in Int /\ m <= n + 1 /\ i >= 1
          BY <2>1, <1>1
        <5> HIDE DEF a, b, n
        <5>3. j <= n /\ i <= n /\ j >= 1
          BY <4>1, <5>2, <1>5
        <5>4. i \in 1 .. n /\ j \in 1 .. n
          BY <5>2, <5>3
        <5>5. i \in 1 .. Len(s) /\ j \in 1 .. Len(s)
          BY <5>4 DEF n
        <5> QED
          BY <5>1, <5>5, <1>5
      <4>2. CASE i < m /\ ~ (j < m)
        <5>1. a = i /\ b = j - 1
          BY <4>2
        <5> QED
          BY <5>1, <4>2, <2>1, <2>4, <1>1
      <4>3. CASE ~ (i < m)
        <5>1. a = i - 1 /\ b = j - 1
          BY <4>3, <2>1, <1>1, <1>5
        <5> QED
          BY <5>1, <4>3, <2>1, <2>4, <1>1, <1>5
      <4> QED
        BY <4>1, <4>2, <4>3
    <3> HIDE DEF a, b
    <3> QED
      BY <3>1, <3>2 DEF Sorted
  <2> QED
    BY <2>2, <2>3, <2>4
<1> QED
  BY <1>5 DEF Sorted, x

(* The items after the first.                                              *)
LEMMA TailIs ==
  ASSUME NEW S, NEW s \in Seq(S), IsInjective(s), s # <<>>
  PROVE  /\ Head(s) \in ToSet(s)
         /\ Tail(s) \in Seq(S)
         /\ IsInjective(Tail(s))
         /\ ToSet(Tail(s)) = ToSet(s) \ {Head(s)}
<1> DEFINE x == Tail(s)
<1>1. /\ Head(s) = s[1] /\ x \in Seq(S) /\ Len(x) = Len(s) - 1
      /\ \A i \in 1 .. Len(x) : x[i] = s[i + 1]
      /\ Len(s) \in Nat /\ 1 \in 1 .. Len(s)
  BY HeadTailProperties, LenProperties, EmptySeq
<1> HIDE DEF x
<1>2. \A i, j \in 1 .. Len(s) : s[i] = s[j] => i = j
  BY MembersOf
<1>3. \A i \in 1 .. Len(x) : i + 1 \in 1 .. Len(s) /\ i + 1 # 1
  BY <1>1
<1>4. IsInjective(x)
  <2>1. ASSUME NEW i \in 1 .. Len(x), NEW j \in 1 .. Len(x), x[i] = x[j]
        PROVE  i = j
    <3>1. i + 1 = j + 1
      BY <2>1, <1>1, <1>2, <1>3
    <3> QED
      BY <3>1
  <2> QED
    BY <2>1, <1>1, MembersOf
<1>5. ASSUME NEW e, e \in ToSet(x)
      PROVE  e \in ToSet(s) \ {Head(s)}
  <2>1. PICK i \in 1 .. Len(x) : x[i] = e
    BY <1>5, <1>1, MembersOf
  <2>2. i + 1 \in 1 .. Len(s) /\ i + 1 # 1 /\ s[i + 1] = e
    BY <2>1, <1>1, <1>3
  <2> QED
    BY <2>2, <1>1, <1>2, MembersOf
<1>6. ASSUME NEW e, e \in ToSet(s), e # Head(s)
      PROVE  e \in ToSet(x)
  <2>1. PICK i \in 1 .. Len(s) : s[i] = e
    BY <1>6, MembersOf
  <2>2. i - 1 \in 1 .. Len(x) /\ (i - 1) + 1 = i
    BY <2>1, <1>1, <1>6
  <2>3. x[i - 1] = e
    BY <2>1, <2>2, <1>1
  <2> QED
    BY <2>2, <2>3, <1>1, MembersOf
<1> QED
  BY <1>1, <1>4, <1>5, <1>6, MembersOf DEF x

(* The first item sent to the end.                                         *)
LEMMA RotationIs ==
  ASSUME NEW S, NEW s \in Seq(S), IsInjective(s), s # <<>>
  PROVE  /\ Append(Tail(s), Head(s)) \in Seq(S)
         /\ IsInjective(Append(Tail(s), Head(s)))
         /\ ToSet(Append(Tail(s), Head(s))) = ToSet(s)
<1>1. /\ Head(s) \in ToSet(s) /\ Tail(s) \in Seq(S) /\ IsInjective(Tail(s))
      /\ ToSet(Tail(s)) = ToSet(s) \ {Head(s)}
  BY TailIs
<1>2. Head(s) \in S
  BY HeadTailProperties
<1>3. Head(s) \notin ToSet(Tail(s)) /\ ToSet(Tail(s)) \cup {Head(s)} = ToSet(s)
  BY <1>1
<1>4. /\ Append(Tail(s), Head(s)) \in Seq(S)
      /\ IsInjective(Append(Tail(s), Head(s)))
      /\ ToSet(Append(Tail(s), Head(s))) = ToSet(Tail(s)) \cup {Head(s)}
  <2> DEFINE x == Tail(s)
             h == Head(s)
  <2>1. x \in Seq(S) /\ h \in S /\ IsInjective(x) /\ h \notin ToSet(x)
    BY <1>1, <1>2, <1>3
  <2> HIDE DEF x, h
  <2>2. /\ Append(x, h) \in Seq(S) /\ IsInjective(Append(x, h))
        /\ ToSet(Append(x, h)) = ToSet(x) \cup {h}
    BY <2>1, AppendIs
  <2> QED
    BY <2>2 DEF x, h
<1> QED
  BY <1>3, <1>4

(* The first n items.                                                      *)
LEMMA PrefixIs ==
  ASSUME NEW S, NEW s \in Seq(S), NEW n \in 0 .. Len(s), IsInjective(s)
  PROVE  /\ SubSeq(s, 1, n) \in Seq(S)
         /\ Len(SubSeq(s, 1, n)) = n
         /\ \A i \in 1 .. n : SubSeq(s, 1, n)[i] = s[i]
         /\ IsInjective(SubSeq(s, 1, n))
         /\ ToSet(SubSeq(s, 1, n)) = {s[i] : i \in 1 .. n}
<1> DEFINE x == SubSeq(s, 1, n)
<1>1. Len(s) \in Nat /\ \A i \in 1 .. Len(s) : s[i] \in S
  BY LenProperties
<1>2. /\ x \in Seq(S) /\ Len(x) = IF 1 <= n THEN n - 1 + 1 ELSE 0
      /\ \A i \in 1 .. n - 1 + 1 : x[i] = s[1 + i - 1]
  BY <1>1, SubSeqProperties
<1> HIDE DEF x
<1>3. Len(x) = n /\ \A i \in 1 .. n : x[i] = s[i]
  BY <1>1, <1>2
<1>4. \A i, j \in 1 .. Len(s) : s[i] = s[j] => i = j
  BY MembersOf
<1>5. IsInjective(x)
  BY <1>1, <1>2, <1>3, <1>4, MembersOf
<1>6. ToSet(x) = {s[i] : i \in 1 .. n}
  BY <1>1, <1>2, <1>3, MembersOf
<1> QED
  BY <1>2, <1>3, <1>5, <1>6 DEF x

-----------------------------------------------------------------------------
(* What is true of the kernel's variables whatever it is in the middle of. *)

(* The tasks in each list.                                                 *)
ReadyAt(r, p)  == ToSet(r.ready[p])
Delayed(r)     == ToSet(r.delayed)
Overflown(r)   == ToSet(r.overflow)
Asleep(r)      == Delayed(r) \cup Overflown(r)
Suspended(r)   == ToSet(r.suspended)
Terminated(r)  == ToSet(r.termination)
Waiting(r)     == ToSet(r.event)
Pending(r)     == ToSet(r.pending)

(* No list has a task twice.                                               *)
Injective(r) ==
  /\ \A p \in Priority : IsInjective(r.ready[p])
  /\ IsInjective(r.delayed) /\ IsInjective(r.overflow)
  /\ IsInjective(r.suspended) /\ IsInjective(r.termination)
  /\ IsInjective(r.event) /\ IsInjective(r.pending)

(* No two of the lists of one kind have a task in common.                  *)
Apart(r) ==
  /\ \A p \in Priority :
       ReadyAt(r, p) \cap (Asleep(r) \cup Suspended(r) \cup Terminated(r)) = {}
  /\ Delayed(r) \cap Overflown(r) = {}
  /\ Asleep(r) \cap Suspended(r) = {}
  /\ Asleep(r) \cap Terminated(r) = {}
  /\ Suspended(r) \cap Terminated(r) = {}
  /\ Waiting(r) \cap Pending(r) = {}

(* The ready lists go by priority, none above uxTopReadyPriority is used,  *)
(* and the idle task is ready.                                             *)
Ranked(r) ==
  /\ \A p \in Priority : \A t \in ReadyAt(r, p) : r.uxPriority[t] = p
  /\ \A p \in Priority : r.ready[p] # <<>> => p <= r.uxTopReadyPriority
  /\ Idle \in ReadyAt(r, 0)

InOrder(r) == Sorted(r.delayed, r.wake) /\ Sorted(r.overflow, r.wake)

Sound(r) == r \in Kernel /\ Injective(r) /\ Apart(r) /\ Ranked(r) /\ InOrder(r)

(* Who waits for an event waits for a tick too, or is suspended.           *)
EventsAsleep(r) == Waiting(r) \cup Pending(r) \subseteq Asleep(r) \cup Suspended(r)

(* t is in no list but, perhaps, one of the events.                        *)
Off(r, t) ==
  /\ \A p \in Priority : t \notin ReadyAt(r, p)
  /\ t \notin Asleep(r) /\ t \notin Suspended(r) /\ t \notin Terminated(r)

(* Nobody has switched, slept or changed a priority between r and j.       *)
Steady(r, j) ==
  /\ j.pxCurrentTCB = r.pxCurrentTCB
  /\ j.uxPriority = r.uxPriority
  /\ j.uxSchedulerSuspended = r.uxSchedulerSuspended
  /\ j.xMissedYield = r.xMissedYield

SameClock(r, j) ==
  /\ j.xTickCount = r.xTickCount
  /\ j.xNextTaskUnblockTime = r.xNextTaskUnblockTime
  /\ j.uxMissedTicks = r.uxMissedTicks

(* Types of what the kernel has.                                           *)
LEMMA KernelTypes ==
  ASSUME NEW r \in Kernel
  PROVE  /\ r.pxCurrentTCB \in Tasks /\ r.uxPriority \in [Tasks -> Priority]
         /\ r.uxTopReadyPriority \in Priority
         /\ r.ready \in [Priority -> Seq(Tasks)]
         /\ r.delayed \in Seq(Tasks) /\ r.overflow \in Seq(Tasks)
         /\ r.wake \in [Tasks -> Ticks]
         /\ r.suspended \in Seq(Tasks) /\ r.termination \in Seq(Tasks)
         /\ r.event \in Seq(Tasks) /\ r.pending \in Seq(Tasks)
         /\ r.xTickCount \in Ticks /\ r.xNextTaskUnblockTime \in Ticks
         /\ r.uxSchedulerSuspended \in 0 .. 1
         /\ r.uxMissedTicks \in 0 .. MaxMissed
         /\ r.xMissedYield \in BOOLEAN
BY DEF Kernel, Lists

(* Taking a task off the lists it waits in, ready or not.                  *)
LEMMA RemoveGenericKeeps ==
  ASSUME NEW r, Sound(r), NEW t \in Task, NEW j, j = RemoveGeneric(r, t)
  PROVE  /\ Sound(j) /\ Off(j, t)
         /\ \A p \in Priority : ReadyAt(j, p) = ReadyAt(r, p) \ {t}
         /\ Delayed(j) = Delayed(r) \ {t} /\ Overflown(j) = Overflown(r) \ {t}
         /\ Suspended(j) = Suspended(r) \ {t}
         /\ Terminated(j) = Terminated(r) \ {t}
         /\ Waiting(j) = Waiting(r) /\ Pending(j) = Pending(r)
         /\ j.event = r.event /\ j.pending = r.pending
         /\ j.wake = [r.wake EXCEPT ![t] = 0]
         /\ j.uxTopReadyPriority = r.uxTopReadyPriority
         /\ Steady(r, j) /\ SameClock(r, j)
<1>1. r \in Kernel /\ Injective(r) /\ Apart(r) /\ Ranked(r) /\ InOrder(r)
  BY DEF Sound
<1>2. t \in Tasks /\ t # Idle
  BY FreeRTOSAssumption DEF Tasks
<1>3. \A p \in Priority :
        /\ Without(r.ready[p], t) \in Seq(Tasks)
        /\ IsInjective(Without(r.ready[p], t))
        /\ ToSet(Without(r.ready[p], t)) = ToSet(r.ready[p]) \ {t}
  <2> SUFFICES ASSUME NEW p \in Priority
               PROVE  /\ Without(r.ready[p], t) \in Seq(Tasks)
                      /\ IsInjective(Without(r.ready[p], t))
                      /\ ToSet(Without(r.ready[p], t)) = ToSet(r.ready[p]) \ {t}
    OBVIOUS
  <2>1. r.ready[p] \in Seq(Tasks) /\ IsInjective(r.ready[p])
    BY <1>1, KernelTypes DEF Injective
  <2> QED
    BY <2>1, WithoutIs
<1>4. /\ r.delayed \in Seq(Tasks) /\ r.overflow \in Seq(Tasks)
      /\ r.suspended \in Seq(Tasks) /\ r.termination \in Seq(Tasks)
  BY <1>1, KernelTypes
<1>5. /\ IsInjective(r.delayed) /\ IsInjective(r.overflow)
      /\ IsInjective(r.suspended) /\ IsInjective(r.termination)
      /\ IsInjective(r.event) /\ IsInjective(r.pending)
  BY <1>1 DEF Injective
<1>6. /\ Without(r.delayed, t) \in Seq(Tasks) /\ IsInjective(Without(r.delayed, t))
      /\ ToSet(Without(r.delayed, t)) = ToSet(r.delayed) \ {t}
  BY <1>4, <1>5, WithoutIs
<1>7. /\ Without(r.overflow, t) \in Seq(Tasks) /\ IsInjective(Without(r.overflow, t))
      /\ ToSet(Without(r.overflow, t)) = ToSet(r.overflow) \ {t}
  BY <1>4, <1>5, WithoutIs
<1>8. /\ Without(r.suspended, t) \in Seq(Tasks) /\ IsInjective(Without(r.suspended, t))
      /\ ToSet(Without(r.suspended, t)) = ToSet(r.suspended) \ {t}
  BY <1>4, <1>5, WithoutIs
<1>9. /\ Without(r.termination, t) \in Seq(Tasks) /\ IsInjective(Without(r.termination, t))
      /\ ToSet(Without(r.termination, t)) = ToSet(r.termination) \ {t}
  BY <1>4, <1>5, WithoutIs
<1>10. /\ j \in Kernel
       /\ \A p \in Priority : j.ready[p] = Without(r.ready[p], t)
       /\ j.delayed = Without(r.delayed, t) /\ j.overflow = Without(r.overflow, t)
       /\ j.suspended = Without(r.suspended, t)
       /\ j.termination = Without(r.termination, t)
       /\ j.wake = [r.wake EXCEPT ![t] = 0]
       /\ j.event = r.event /\ j.pending = r.pending
       /\ j.uxTopReadyPriority = r.uxTopReadyPriority
       /\ Steady(r, j) /\ SameClock(r, j)
  <2>1. \A p \in Priority : Without(r.ready[p], t) \in Seq(Tasks)
    BY <1>3
  <2>2. /\ Without(r.delayed, t) \in Seq(Tasks) /\ Without(r.overflow, t) \in Seq(Tasks)
        /\ Without(r.suspended, t) \in Seq(Tasks)
        /\ Without(r.termination, t) \in Seq(Tasks)
    BY <1>6, <1>7, <1>8, <1>9
  <2>3. [r.wake EXCEPT ![t] = 0] \in [Tasks -> Ticks]
    <3>1. 0 \in Ticks
      BY FreeRTOSAssumption DEF Ticks
    <3> QED
      BY <3>1, <1>1, KernelTypes
  <2>4. [p \in Priority |-> Without(r.ready[p], t)] \in [Priority -> Seq(Tasks)]
    BY <2>1
  <2> QED
    BY <2>1, <2>2, <2>3, <2>4, <1>1 DEF RemoveGeneric, Kernel, Lists, Steady, SameClock
<1>11. /\ \A p \in Priority : ReadyAt(j, p) = ReadyAt(r, p) \ {t}
       /\ Delayed(j) = Delayed(r) \ {t} /\ Overflown(j) = Overflown(r) \ {t}
       /\ Suspended(j) = Suspended(r) \ {t}
       /\ Terminated(j) = Terminated(r) \ {t}
       /\ Waiting(j) = Waiting(r) /\ Pending(j) = Pending(r)
  BY <1>3, <1>6, <1>7, <1>8, <1>9, <1>10
     DEF ReadyAt, Delayed, Overflown, Suspended, Terminated, Waiting, Pending
<1>12. Injective(j)
  BY <1>3, <1>5, <1>6, <1>7, <1>8, <1>9, <1>10 DEF Injective
<1>13. Apart(j) /\ Off(j, t)
  BY <1>1, <1>11 DEF Apart, Off, Asleep
<1>14. Ranked(j)
  <2>1. \A p \in Priority : \A u \in ReadyAt(j, p) : j.uxPriority[u] = p
    BY <1>1, <1>10, <1>11 DEF Ranked, Steady
  <2>2. ASSUME NEW p \in Priority, j.ready[p] # <<>>
        PROVE  p <= j.uxTopReadyPriority
    <3>1. j.ready[p] \in Seq(Tasks) /\ r.ready[p] \in Seq(Tasks)
      BY <1>1, <1>10, KernelTypes
    <3>2. ReadyAt(j, p) # {}
      <4> DEFINE q == j.ready[p]
      <4>1. q # <<>> /\ q \in Seq(Tasks)
        BY <2>2, <3>1
      <4> HIDE DEF q
      <4>2. ToSet(q) # {}
        BY <4>1, MembersOf
      <4> QED
        BY <4>2 DEF q, ReadyAt
    <3>3. ReadyAt(r, p) # {}
      BY <3>2, <1>11
    <3>4. r.ready[p] # <<>>
      BY <3>1, <3>3, MembersOf DEF ReadyAt
    <3> QED
      BY <3>4, <1>1, <1>10 DEF Ranked
  <2>3. Idle \in ReadyAt(j, 0)
    BY <1>1, <1>2, <1>11, FreeRTOSAssumption DEF Ranked, Priority
  <2> QED
    BY <2>1, <2>2, <2>3 DEF Ranked
<1>15. InOrder(j)
  <2>1. /\ r.wake \in [Tasks -> Int] /\ j.wake \in [Tasks -> Int]
        /\ \A u \in Tasks \ {t} : j.wake[u] = r.wake[u]
    BY <1>1, <1>2, <1>10, KernelTypes, FreeRTOSAssumption, SMTT(30) DEF Ticks
  <2>2. ToSet(r.delayed) \subseteq Tasks /\ ToSet(r.overflow) \subseteq Tasks
    BY <1>4, MembersOf
  <2>3. Sorted(r.delayed, r.wake) /\ Sorted(r.overflow, r.wake)
    BY <1>1 DEF InOrder
  <2>4. Sorted(Without(r.delayed, t), j.wake)
    <3>1. \A u \in ToSet(r.delayed) \ {t} : j.wake[u] = r.wake[u]
      BY <2>1, <2>2
    <3> QED
      BY <3>1, <2>1, <2>3, <1>4, <1>5, WithoutSorted
  <2>5. Sorted(Without(r.overflow, t), j.wake)
    <3>1. \A u \in ToSet(r.overflow) \ {t} : j.wake[u] = r.wake[u]
      BY <2>1, <2>2
    <3> QED
      BY <3>1, <2>1, <2>3, <1>4, <1>5, WithoutSorted
  <2> QED
    BY <2>4, <2>5, <1>10 DEF InOrder
<1> QED
  BY <1>10, <1>11, <1>12, <1>13, <1>14, <1>15 DEF Sound

(* Taking a task off the lists of events.                                  *)
LEMMA RemoveEventKeeps ==
  ASSUME NEW r, Sound(r), NEW t \in Tasks, NEW j, j = RemoveEvent(r, t)
  PROVE  /\ Sound(j)
         /\ j.ready = r.ready /\ j.delayed = r.delayed /\ j.overflow = r.overflow
         /\ j.suspended = r.suspended /\ j.termination = r.termination
         /\ j.wake = r.wake /\ j.uxTopReadyPriority = r.uxTopReadyPriority
         /\ Waiting(j) = Waiting(r) \ {t} /\ Pending(j) = Pending(r) \ {t}
         /\ j.event = Without(r.event, t) /\ j.pending = Without(r.pending, t)
         /\ Steady(r, j) /\ SameClock(r, j)
<1>1. r \in Kernel /\ Injective(r) /\ Apart(r) /\ Ranked(r) /\ InOrder(r)
  BY DEF Sound
<1>2. /\ r.event \in Seq(Tasks) /\ IsInjective(r.event)
      /\ r.pending \in Seq(Tasks) /\ IsInjective(r.pending)
  BY <1>1, KernelTypes DEF Injective
<1>3. /\ Without(r.event, t) \in Seq(Tasks) /\ IsInjective(Without(r.event, t))
      /\ ToSet(Without(r.event, t)) = ToSet(r.event) \ {t}
  BY <1>2, WithoutIs
<1>4. /\ Without(r.pending, t) \in Seq(Tasks) /\ IsInjective(Without(r.pending, t))
      /\ ToSet(Without(r.pending, t)) = ToSet(r.pending) \ {t}
  BY <1>2, WithoutIs
<1>5. /\ j \in Kernel
      /\ j.ready = r.ready /\ j.delayed = r.delayed /\ j.overflow = r.overflow
      /\ j.suspended = r.suspended /\ j.termination = r.termination
      /\ j.wake = r.wake /\ j.uxTopReadyPriority = r.uxTopReadyPriority
      /\ j.event = Without(r.event, t) /\ j.pending = Without(r.pending, t)
      /\ Steady(r, j) /\ SameClock(r, j)
  BY <1>1, <1>3, <1>4 DEF RemoveEvent, Kernel, Lists, Steady, SameClock
<1>6. Waiting(j) = Waiting(r) \ {t} /\ Pending(j) = Pending(r) \ {t}
  BY <1>3, <1>4, <1>5 DEF Waiting, Pending
<1>7. Injective(j)
  BY <1>1, <1>3, <1>4, <1>5 DEF Injective
<1>8. Apart(j)
  BY <1>1, <1>5, <1>6
     DEF Apart, ReadyAt, Delayed, Overflown, Asleep, Suspended, Terminated
<1>9. Ranked(j) /\ InOrder(j)
  BY <1>1, <1>5 DEF Ranked, ReadyAt, InOrder, Steady
<1> QED
  BY <1>5, <1>6, <1>7, <1>8, <1>9 DEF Sound

(* Putting a task that is in no list among the ready ones.                 *)
LEMMA AddReadyKeeps ==
  ASSUME NEW r, Sound(r), NEW t \in Tasks, Off(r, t),
         NEW j, j = prvAddTaskToReadyQueue(r, t)
  PROVE  /\ Sound(j)
         /\ \A p \in Priority : ReadyAt(j, p) =
              ReadyAt(r, p) \cup (IF p = r.uxPriority[t] THEN {t} ELSE {})
         /\ j.delayed = r.delayed /\ j.overflow = r.overflow
         /\ j.suspended = r.suspended /\ j.termination = r.termination
         /\ j.event = r.event /\ j.pending = r.pending
         /\ j.wake = r.wake
         /\ Steady(r, j) /\ SameClock(r, j)
<1> DEFINE q == r.uxPriority[t]
<1>1. r \in Kernel /\ Injective(r) /\ Apart(r) /\ Ranked(r) /\ InOrder(r)
  BY DEF Sound
<1>2. q \in Priority /\ r.uxTopReadyPriority \in Priority /\ Priority \subseteq Int
  BY <1>1, KernelTypes, FreeRTOSAssumption DEF Priority
<1>3. r.ready[q] \in Seq(Tasks) /\ IsInjective(r.ready[q]) /\ t \notin ToSet(r.ready[q])
  BY <1>1, <1>2, KernelTypes DEF Injective, Off, ReadyAt
<1>4. /\ Append(r.ready[q], t) \in Seq(Tasks) /\ IsInjective(Append(r.ready[q], t))
      /\ ToSet(Append(r.ready[q], t)) = ToSet(r.ready[q]) \cup {t}
  BY <1>3, AppendIs
<1>5. r.ready \in [Priority -> Seq(Tasks)]
  BY <1>1, KernelTypes
<1> DEFINE ready == [r.ready EXCEPT ![q] = Append(r.ready[q], t)]
           top   == IF q > r.uxTopReadyPriority THEN q ELSE r.uxTopReadyPriority
<1>6. ready \in [Priority -> Seq(Tasks)] /\ top \in Priority
  BY <1>2, <1>4, <1>5
<1>7. j = [r EXCEPT !.ready = ready, !.uxTopReadyPriority = top]
  BY DEF prvAddTaskToReadyQueue
<1>8. \A p \in Priority : ready[p] = IF p = q THEN Append(r.ready[q], t) ELSE r.ready[p]
  BY <1>5
<1>9. q <= top /\ r.uxTopReadyPriority <= top /\ top \in Int /\ q \in Int
      /\ r.uxTopReadyPriority \in Int
  <2>1. q \in Int /\ r.uxTopReadyPriority \in Int
    BY <1>2
  <2> HIDE DEF q
  <2> QED
    BY <2>1
<1> HIDE DEF q, ready, top
<1>10. /\ j \in Kernel /\ j.ready = ready /\ j.uxTopReadyPriority = top
       /\ j.delayed = r.delayed /\ j.overflow = r.overflow
       /\ j.suspended = r.suspended /\ j.termination = r.termination
       /\ j.event = r.event /\ j.pending = r.pending
       /\ j.wake = r.wake
       /\ Steady(r, j) /\ SameClock(r, j)
  BY <1>1, <1>6, <1>7 DEF Kernel, Lists, Steady, SameClock
<1>11. \A p \in Priority :
         ReadyAt(j, p) = ReadyAt(r, p) \cup (IF p = q THEN {t} ELSE {})
  BY <1>4, <1>8, <1>10 DEF ReadyAt
<1>12. Injective(j)
  BY <1>1, <1>4, <1>8, <1>10 DEF Injective
<1>13. Apart(j)
  BY <1>1, <1>10, <1>11
     DEF Apart, Off, Delayed, Overflown, Asleep, Suspended, Terminated, Waiting, Pending
<1>14. Ranked(j)
  <2>1. \A p \in Priority : \A u \in ReadyAt(j, p) : j.uxPriority[u] = p
    BY <1>1, <1>10, <1>11 DEF Ranked, Steady, q
  <2>2. ASSUME NEW p \in Priority, j.ready[p] # <<>>
        PROVE  p <= j.uxTopReadyPriority
    <3>1. p = q \/ p <= r.uxTopReadyPriority
      BY <2>2, <1>1, <1>8, <1>10 DEF Ranked
    <3> QED
      BY <3>1, <1>2, <1>9, <1>10
  <2>3. Idle \in ReadyAt(j, 0)
    BY <1>1, <1>11, FreeRTOSAssumption DEF Ranked, Priority
  <2> QED
    BY <2>1, <2>2, <2>3 DEF Ranked
<1>15. InOrder(j)
  BY <1>1, <1>10 DEF InOrder
<1> QED
  BY <1>10, <1>11, <1>12, <1>13, <1>14, <1>15 DEF Sound, q

(* f is what becomes of x when it is changed for each number up to N.      *)
IsHistory(f, S, N, x, Op) ==
  f \in [0 .. N -> S] /\ f[0] = x /\ \A n \in 1 .. N : f[n] = Op[<<f[n - 1], n>>]

(* There is such a history.                                                *)
LEMMA HistoryExists ==
  ASSUME NEW S, NEW N \in Nat, NEW x \in S, NEW Op \in [S \X (1 .. N) -> S]
  PROVE  \E f : IsHistory(f, S, N, x, Op)
<1> DEFINE G == {m \in 0 .. N : \E f : IsHistory(f, S, m, x, Op)}
<1>1. 0 \in G
  <2> DEFINE z == [n \in 0 .. 0 |-> x]
  <2>1. z \in [0 .. 0 -> S] /\ z[0] = x
    OBVIOUS
  <2> HIDE DEF z
  <2>2. IsHistory(z, S, 0, x, Op)
    BY <2>1 DEF IsHistory
  <2> QED
    BY <2>2
<1>2. ASSUME NEW m \in 1 .. N, m - 1 \in G
      PROVE  m \in G
  <2>1. m \in 0 .. N /\ m - 1 \in 0 .. m - 1 /\ m - 1 \in Nat
    OBVIOUS
  <2>2. PICK f : IsHistory(f, S, m - 1, x, Op)
    BY <1>2
  <2>3. /\ f \in [0 .. m - 1 -> S] /\ f[0] = x
        /\ \A n \in 1 .. m - 1 : f[n] = Op[<<f[n - 1], n>>]
    BY <2>2 DEF IsHistory
  <2> DEFINE g == [n \in 0 .. m |-> IF n = m THEN Op[<<f[m - 1], m>>] ELSE f[n]]
  <2>4. g \in [0 .. m -> S]
    <3>1. f[m - 1] \in S
      BY <2>1, <2>3
    <3>2. Op[<<f[m - 1], m>>] \in S
      BY <3>1
    <3> QED
      BY <3>2, <2>3
  <2>5. g[0] = x
    BY <2>3
  <2>6. ASSUME NEW n \in 1 .. m
        PROVE  g[n] = Op[<<g[n - 1], n>>]
    <3>1. CASE n = m
      <4>1. g[m] = Op[<<f[m - 1], m>>] /\ g[m - 1] = f[m - 1]
        BY <2>1
      <4> QED
        BY <4>1, <3>1
    <3>2. CASE n # m
      <4>1. n \in 1 .. m - 1 /\ n \in 0 .. m /\ n - 1 \in 0 .. m /\ n - 1 # m
        BY <3>2
      <4>2. g[n] = f[n] /\ g[n - 1] = f[n - 1]
        BY <4>1, <3>2
      <4> QED
        BY <4>1, <4>2, <2>3
    <3> QED
      BY <3>1, <3>2
  <2> HIDE DEF g
  <2>7. IsHistory(g, S, m, x, Op)
    BY <2>4, <2>5, <2>6 DEF IsHistory
  <2> QED
    BY <2>7, <2>1
<1>3. \A m \in 1 .. N : m - 1 \in G => m \in G
  BY <1>2
<1> HIDE DEF G
<1>4. \A m \in 0 .. N : m \in G
  BY <1>1, <1>3, InductionUpTo
<1>5. N \in 0 .. N
  OBVIOUS
<1> QED
  BY <1>4, <1>5 DEF G

(* Tasks that sleep or are suspended are not the idle task.                *)
LEMMA SleepersAreTasks ==
  ASSUME NEW r, Sound(r)
  PROVE  /\ Asleep(r) \subseteq Task /\ Suspended(r) \subseteq Task
         /\ Terminated(r) \subseteq Task
<1>1. r \in Kernel /\ Apart(r) /\ Idle \in ReadyAt(r, 0)
  BY DEF Sound, Ranked
<1>2. 0 \in Priority
  BY FreeRTOSAssumption DEF Priority
<1>3. /\ Asleep(r) \subseteq Tasks /\ Suspended(r) \subseteq Tasks
      /\ Terminated(r) \subseteq Tasks
  BY <1>1, KernelTypes, MembersOf DEF Asleep, Delayed, Overflown, Suspended, Terminated
<1>4. Idle \notin Asleep(r) \cup Suspended(r) \cup Terminated(r)
  BY <1>1, <1>2 DEF Apart
<1> QED
  BY <1>3, <1>4 DEF Tasks

(* j is r with the tasks of W moved to the ready lists.                    *)
Woken(r, j, W) ==
  /\ \A p \in Priority :
       ReadyAt(j, p) = ReadyAt(r, p) \cup {t \in W : r.uxPriority[t] = p}
  /\ Asleep(j) = Asleep(r) \ W
  /\ Suspended(j) = Suspended(r) \ W
  /\ Terminated(j) = Terminated(r)
  /\ Waiting(j) = Waiting(r) \ W /\ Pending(j) = Pending(r) \ W
  /\ \A t \in Tasks : j.wake[t] = IF t \in W THEN 0 ELSE r.wake[t]
  /\ Steady(r, j)

(* Nothing else has happened to the delayed lists.                         *)
InPlace(r, j, W) ==
  /\ Delayed(j) = Delayed(r) \ W /\ Overflown(j) = Overflown(r) \ W
  /\ SameClock(r, j)

(* Tasks moved in two steps.                                               *)
LEMMA WokenTwice ==
  ASSUME NEW r, NEW i, NEW j, NEW V, NEW W, Woken(r, i, V), Woken(i, j, W)
  PROVE  Woken(r, j, V \cup W)
<1>1. Steady(r, j) /\ i.uxPriority = r.uxPriority
  BY DEF Woken, Steady
<1>2. \A p \in Priority :
        ReadyAt(j, p) = ReadyAt(r, p) \cup {t \in V \cup W : r.uxPriority[t] = p}
  BY <1>1 DEF Woken
<1>3. /\ Asleep(j) = Asleep(r) \ (V \cup W)
      /\ Suspended(j) = Suspended(r) \ (V \cup W)
      /\ Terminated(j) = Terminated(r)
      /\ Waiting(j) = Waiting(r) \ (V \cup W) /\ Pending(j) = Pending(r) \ (V \cup W)
  BY DEF Woken
<1>4. \A t \in Tasks : j.wake[t] = IF t \in V \cup W THEN 0 ELSE r.wake[t]
  BY DEF Woken
<1> QED
  BY <1>1, <1>2, <1>3, <1>4 DEF Woken

(* The same when the lists stay in their places.                           *)
LEMMA InPlaceTwice ==
  ASSUME NEW r, NEW i, NEW j, NEW V, NEW W, InPlace(r, i, V), InPlace(i, j, W)
  PROVE  InPlace(r, j, V \cup W)
BY DEF InPlace, SameClock

(* Waking nobody.                                                          *)
LEMMA WokenNone ==
  ASSUME NEW r
  PROVE  Woken(r, r, {}) /\ InPlace(r, r, {})
BY DEF Woken, InPlace, Steady, SameClock

(* Waking changes nothing about who waits for an event.                    *)
LEMMA WokenEvents ==
  ASSUME NEW r, NEW j, NEW W, Woken(r, j, W), EventsAsleep(r)
  PROVE  EventsAsleep(j)
BY DEF Woken, EventsAsleep

(* One task is unblocked.                                                  *)
LEMMA UnblockKeeps ==
  ASSUME NEW r, Sound(r), NEW t \in Task, NEW j, j = Unblock(r, t)
  PROVE  /\ Sound(j)
         /\ t \notin Terminated(r) => Woken(r, j, {t}) /\ InPlace(r, j, {t})
<1> DEFINE a == RemoveGeneric(r, t)
           b == RemoveEvent(a, t)
<1>1. j = prvAddTaskToReadyQueue(b, t) /\ t \in Tasks
  BY DEF Unblock, Tasks
<1>2. /\ Sound(a) /\ Off(a, t)
      /\ \A p \in Priority : ReadyAt(a, p) = ReadyAt(r, p) \ {t}
      /\ Delayed(a) = Delayed(r) \ {t} /\ Overflown(a) = Overflown(r) \ {t}
      /\ Suspended(a) = Suspended(r) \ {t}
      /\ Terminated(a) = Terminated(r) \ {t}
      /\ Waiting(a) = Waiting(r) /\ Pending(a) = Pending(r)
      /\ a.wake = [r.wake EXCEPT ![t] = 0]
      /\ Steady(r, a) /\ SameClock(r, a)
  BY RemoveGenericKeeps
<1> HIDE DEF a
<1>3. /\ Sound(b)
      /\ b.ready = a.ready /\ b.delayed = a.delayed /\ b.overflow = a.overflow
      /\ b.suspended = a.suspended /\ b.termination = a.termination
      /\ b.wake = a.wake
      /\ Waiting(b) = Waiting(a) \ {t} /\ Pending(b) = Pending(a) \ {t}
      /\ Steady(a, b) /\ SameClock(a, b)
  BY <1>1, <1>2, RemoveEventKeeps
<1> HIDE DEF b
<1>4. Off(b, t)
  BY <1>2, <1>3 DEF Off, ReadyAt, Asleep, Delayed, Overflown, Suspended, Terminated
<1>5. /\ Sound(j)
      /\ \A p \in Priority : ReadyAt(j, p) =
           ReadyAt(b, p) \cup (IF p = b.uxPriority[t] THEN {t} ELSE {})
      /\ j.delayed = b.delayed /\ j.overflow = b.overflow
      /\ j.suspended = b.suspended /\ j.termination = b.termination
      /\ j.event = b.event /\ j.pending = b.pending
      /\ j.wake = b.wake
      /\ Steady(b, j) /\ SameClock(b, j)
  BY <1>1, <1>3, <1>4, AddReadyKeeps
<1>6. Steady(r, j) /\ SameClock(r, j) /\ b.uxPriority = r.uxPriority
  BY <1>2, <1>3, <1>5 DEF Steady, SameClock
<1>7. ASSUME t \notin Terminated(r)
      PROVE  Woken(r, j, {t}) /\ InPlace(r, j, {t})
  <2>1. ASSUME NEW p \in Priority
        PROVE  ReadyAt(j, p) = ReadyAt(r, p) \cup {u \in {t} : r.uxPriority[u] = p}
    <3>1. ReadyAt(b, p) = ReadyAt(r, p) \ {t}
      BY <1>2, <1>3 DEF ReadyAt
    <3>2. p # r.uxPriority[t] => t \notin ReadyAt(r, p)
      BY DEF Sound, Ranked
    <3> QED
      BY <3>1, <3>2, <1>5, <1>6
  <2>2. Asleep(j) = Asleep(r) \ {t} /\ Delayed(j) = Delayed(r) \ {t}
        /\ Overflown(j) = Overflown(r) \ {t}
    BY <1>2, <1>3, <1>5 DEF Asleep, Delayed, Overflown
  <2>3. Suspended(j) = Suspended(r) \ {t} /\ Terminated(j) = Terminated(r)
    BY <1>2, <1>3, <1>5, <1>7 DEF Suspended, Terminated
  <2>4. Waiting(j) = Waiting(r) \ {t} /\ Pending(j) = Pending(r) \ {t}
    BY <1>2, <1>3, <1>5 DEF Waiting, Pending
  <2>5. \A u \in Tasks : j.wake[u] = IF u \in {t} THEN 0 ELSE r.wake[u]
    <3>1. r.wake \in [Tasks -> Ticks]
      BY KernelTypes DEF Sound
    <3> QED
      BY <3>1, <1>2, <1>3, <1>5
  <2> QED
    BY <2>1, <2>2, <2>3, <2>4, <2>5, <1>6 DEF Woken, InPlace
<1> QED
  BY <1>5, <1>7

(* Tasks are unblocked one after another.                                  *)
LEMMA UnblockAllKeeps ==
  ASSUME NEW r, Sound(r), NEW s \in Seq(Tasks),
         ToSet(s) \subseteq Asleep(r) \cup Suspended(r),
         NEW j, j = UnblockAll(r, s)
  PROVE  Sound(j) /\ Woken(r, j, ToSet(s)) /\ InPlace(r, j, ToSet(s))
<1> DEFINE N == Len(s)
           S == {x \in Kernel : Sound(x)}
           Op == [y \in S \X (1 .. N) |-> Unblock(y[1], s[y[2]])]
           F == CHOOSE f : f = [n \in 0 .. N |->
                                  IF n = 0 THEN r ELSE Unblock(f[n - 1], s[n])]
<1>1. j = F[N]
  BY DEF UnblockAll
<1>2. N \in Nat /\ \A n \in 1 .. N : s[n] \in ToSet(s)
  BY LenProperties, MembersOf
<1>3. \A n \in 1 .. N : s[n] \in Task /\ s[n] \notin Terminated(r)
  <2>1. Asleep(r) \cup Suspended(r) \subseteq Task
    BY SleepersAreTasks
  <2>2. (Asleep(r) \cup Suspended(r)) \cap Terminated(r) = {}
    BY DEF Sound, Apart
  <2> QED
    BY <2>1, <2>2, <1>2
<1>4. \A x \in S, n \in 1 .. N : Unblock(x, s[n]) \in S
  <2> SUFFICES ASSUME NEW x \in S, NEW n \in 1 .. N
               PROVE  Unblock(x, s[n]) \in S
    OBVIOUS
  <2>1. Sound(Unblock(x, s[n]))
    BY <1>3, UnblockKeeps
  <2> QED
    BY <2>1 DEF Sound
<1>5. Op \in [S \X (1 .. N) -> S]
  BY <1>4
<1>6. \A x \in S, n \in 1 .. N : Op[<<x, n>>] = Unblock(x, s[n])
  OBVIOUS
<1>7. r \in S
  BY DEF Sound
<1> HIDE DEF S, Op, N
<1>8. PICK f : IsHistory(f, S, N, r, Op)
  BY <1>2, <1>5, <1>7, HistoryExists
<1>9. f = [n \in 0 .. N |-> IF n = 0 THEN r ELSE Unblock(f[n - 1], s[n])]
  <2>1. ASSUME NEW n \in 0 .. N
        PROVE  f[n] = IF n = 0 THEN r ELSE Unblock(f[n - 1], s[n])
    <3>1. CASE n = 0
      BY <3>1, <1>8 DEF IsHistory
    <3>2. CASE n # 0
      <4>1. n \in 1 .. N /\ n - 1 \in 0 .. N
        BY <3>2, <1>2
      <4> QED
        BY <4>1, <3>2, <1>6, <1>8 DEF IsHistory
    <3> QED
      BY <3>1, <3>2
  <2> QED
    BY <2>1, <1>8 DEF IsHistory
<1>10. F = [n \in 0 .. N |-> IF n = 0 THEN r ELSE Unblock(F[n - 1], s[n])]
  BY <1>9
<1> HIDE DEF F
<1>11. F[0] = r /\ \A n \in 1 .. N : F[n] = Unblock(F[n - 1], s[n])
  <2>1. 0 \in 0 .. N /\ \A n \in 1 .. N : n \in 0 .. N /\ n # 0
    BY <1>2
  <2> QED
    BY <2>1, <1>10
<1> DEFINE First(n) == {s[i] : i \in 1 .. n}
           Good(n) == /\ Sound(F[n])
                      /\ Woken(r, F[n], First(n)) /\ InPlace(r, F[n], First(n))
           G == {n \in 0 .. N : Good(n)}
<1>12. 0 \in G
  <2>1. First(0) = {}
    OBVIOUS
  <2> HIDE DEF First
  <2>2. Good(0) /\ 0 \in 0 .. N
    <3>1. Woken(r, r, {}) /\ InPlace(r, r, {})
      BY WokenNone
    <3>2. F[0] = r /\ Sound(r)
      BY <1>11
    <3>3. 0 \in 0 .. N
      BY <1>2
    <3> QED
      BY <3>1, <3>2, <3>3, <2>1, Zenon
  <2> QED
    BY <2>2
<1>13. ASSUME NEW m \in 1 .. N, m - 1 \in G
       PROVE  m \in G
  <2>1. m \in 0 .. N /\ Good(m - 1)
    BY <1>2, <1>13
  <2>2. s[m] \in Task /\ s[m] \notin Terminated(F[m - 1])
    BY <2>1, <1>3 DEF Woken
  <2>3. /\ Sound(F[m])
        /\ Woken(F[m - 1], F[m], {s[m]}) /\ InPlace(F[m - 1], F[m], {s[m]})
    BY <2>1, <2>2, <1>11, UnblockKeeps
  <2>4. First(m) = First(m - 1) \cup {s[m]}
    <3>1. \A i : i \in 1 .. m <=> i \in 1 .. m - 1 \/ i = m
      OBVIOUS
    <3> QED
      BY <3>1
  <2> HIDE DEF First
  <2>5. Woken(r, F[m], First(m)) /\ InPlace(r, F[m], First(m))
    BY <2>1, <2>3, <2>4, WokenTwice, InPlaceTwice
  <2> QED
    BY <2>1, <2>3, <2>5
<1>14. Good(N)
  <2> HIDE DEF G
  <2>1. N \in Nat /\ N \in 0 .. N /\ \A m \in 1 .. N : m - 1 \in G => m \in G
    BY <1>2, <1>13
  <2>2. N \in G
    BY <2>1, <1>12, InductionUpTo
  <2> QED
    BY <2>2 DEF G
<1>15. First(N) = ToSet(s)
  BY MembersOf DEF N
<1> QED
  BY <1>1, <1>14, <1>15

(* The lists of j are those of r.                                          *)
SameLists(r, j) ==
  /\ j.ready = r.ready /\ j.delayed = r.delayed /\ j.overflow = r.overflow
  /\ j.suspended = r.suspended /\ j.termination = r.termination
  /\ j.event = r.event /\ j.pending = r.pending
  /\ j.wake = r.wake /\ j.uxPriority = r.uxPriority

(* Nothing but the lists matters to their soundness.                       *)
LEMMA SameListsKeep ==
  ASSUME NEW r, Sound(r), NEW j \in Kernel, SameLists(r, j),
         j.uxTopReadyPriority = r.uxTopReadyPriority
  PROVE  /\ Sound(j)
         /\ EventsAsleep(r) => EventsAsleep(j)
         /\ \A p \in Priority : ReadyAt(j, p) = ReadyAt(r, p)
         /\ Delayed(j) = Delayed(r) /\ Overflown(j) = Overflown(r)
         /\ Asleep(j) = Asleep(r)
         /\ Suspended(j) = Suspended(r) /\ Terminated(j) = Terminated(r)
         /\ Waiting(j) = Waiting(r) /\ Pending(j) = Pending(r)
<1>1. /\ Injective(r) /\ Apart(r) /\ Ranked(r) /\ InOrder(r)
  BY DEF Sound
<1>2. Injective(j)
  BY <1>1 DEF Injective, SameLists
<1>3. /\ \A p \in Priority : ReadyAt(j, p) = ReadyAt(r, p)
      /\ Delayed(j) = Delayed(r) /\ Overflown(j) = Overflown(r)
      /\ Asleep(j) = Asleep(r)
      /\ Suspended(j) = Suspended(r) /\ Terminated(j) = Terminated(r)
      /\ Waiting(j) = Waiting(r) /\ Pending(j) = Pending(r)
  BY DEF SameLists, ReadyAt, Delayed, Overflown, Asleep, Suspended, Terminated, Waiting,
         Pending
<1>4. Apart(j)
  BY <1>1, <1>3 DEF Apart
<1>5. Ranked(j)
  BY <1>1, <1>3 DEF Ranked, SameLists, ReadyAt
<1>6. InOrder(j)
  BY <1>1 DEF InOrder, SameLists
<1>7. EventsAsleep(r) => EventsAsleep(j)
  BY <1>3 DEF EventsAsleep
<1> QED
  BY <1>2, <1>3, <1>4, <1>5, <1>6, <1>7 DEF Sound

(* The first item of s with a value above now is at m.                     *)
FirstLate(s, v, now, m) ==
  m \in 1 .. Len(s) /\ v[s[m]] > now /\ \A i \in 1 .. m - 1 : v[s[i]] <= now

(* What comes before the first of the later values of a sorted list.       *)
LEMMA PrefixIsDue ==
  ASSUME NEW S, NEW s \in Seq(S), IsInjective(s), NEW v \in [S -> Int], Sorted(s, v),
         NEW now \in Int, NEW n \in Nat, NEW m \in Int, m = n + 1, FirstLate(s, v, now, m)
  PROVE  \A t : t \in ToSet(SubSeq(s, 1, n)) <=> t \in ToSet(s) /\ v[t] <= now
<1>1. Len(s) \in Nat /\ \A i \in 1 .. Len(s) : s[i] \in S /\ v[s[i]] \in Int
  BY LenProperties
<1>8. m \in 1 .. Len(s) /\ v[s[m]] > now /\ \A i \in 1 .. n : v[s[i]] <= now
  BY DEF FirstLate
<1>2. n \in 0 .. Len(s) /\ \A i \in 1 .. n : i \in 1 .. Len(s)
  BY <1>1, <1>8
<1>3. ToSet(SubSeq(s, 1, n)) = {s[i] : i \in 1 .. n}
  BY <1>2, PrefixIs
<1>4. ASSUME NEW i \in 1 .. Len(s), v[s[i]] <= now
      PROVE  i \in 1 .. n
  <2>1. CASE m < i
    <3>1. v[s[m]] <= v[s[i]]
      BY <2>1, <1>8 DEF Sorted
    <3>2. v[s[m]] \in Int /\ v[s[i]] \in Int
      BY <1>1, <1>8
    <3> QED
      BY <3>1, <3>2, <1>4, <1>8
  <2>2. CASE m = i
    BY <2>2, <1>1, <1>4, <1>8
  <2>3. CASE i < m
    BY <2>3
  <2>4. i \in Int /\ m \in Int
    OBVIOUS
  <2> QED
    BY <2>1, <2>2, <2>3, <2>4
<1>5. \A e : e \in ToSet(s) <=> \E i \in 1 .. Len(s) : s[i] = e
  BY MembersOf
<1>6. ASSUME NEW e, e \in ToSet(SubSeq(s, 1, n))
      PROVE  e \in ToSet(s) /\ v[e] <= now
  <2>1. PICK i \in 1 .. n : s[i] = e
    BY <1>3, <1>6
  <2> QED
    BY <2>1, <1>2, <1>5, <1>8
<1>7. ASSUME NEW e, e \in ToSet(s), v[e] <= now
      PROVE  e \in ToSet(SubSeq(s, 1, n))
  <2>1. PICK i \in 1 .. Len(s) : s[i] = e
    BY <1>5, <1>7
  <2>2. i \in 1 .. n
    BY <2>1, <1>4, <1>7
  <2> QED
    BY <2>1, <2>2, <1>3
<1> QED
  BY <1>6, <1>7

(* The part of a sorted list whose time has come.                          *)
DueOf(s, v, now) ==
  LET I    == {i \in 1 .. Len(s) : v[s[i]] > now}
      late == IF I # {} THEN Min(I) ELSE 0
  IN IF late = 0 THEN s ELSE SubSeq(s, 1, late - 1)

(* It is all of that part.                                                 *)
LEMMA DueIs ==
  ASSUME NEW S, NEW s \in Seq(S), IsInjective(s), NEW v \in [S -> Int], Sorted(s, v),
         NEW now \in Int
  PROVE  DueOf(s, v, now) \in Seq(S) /\ ToSet(DueOf(s, v, now)) = {t \in ToSet(s) : v[t] <= now}
<1> DEFINE I    == {i \in 1 .. Len(s) : v[s[i]] > now}
           late == IF I # {} THEN Min(I) ELSE 0
           d    == IF late = 0 THEN s ELSE SubSeq(s, 1, late - 1)
<1>4. DueOf(s, v, now) = d
  BY DEF DueOf
<1>1. Len(s) \in Nat /\ \A i \in 1 .. Len(s) : s[i] \in S /\ v[s[i]] \in Int
  BY LenProperties
<1>2. CASE I = {}
  <2>1. d = s
    BY <1>2
  <2> HIDE DEF d, late
  <2>2. ASSUME NEW i \in 1 .. Len(s)
        PROVE  v[s[i]] <= now
    <3>1. ~ (v[s[i]] > now)
      BY <1>2
    <3> QED
      BY <3>1, <1>1
  <2>3. d \in Seq(S) /\ ToSet(d) = {t \in ToSet(s) : v[t] <= now}
    BY <2>1, <2>2, MembersOf
  <2> QED
    BY <2>3, <1>4
<1>3. CASE I # {}
  <2>1. I \in SUBSET Nat
    BY <1>1
  <2>2. late = Min(I) /\ late \in I /\ \A i \in I : late <= i
    BY <1>3, <2>1, MinIsLeast
  <2> HIDE DEF late
  <2>3. late \in 1 .. Len(s) /\ v[s[late]] > now
    BY <2>2
  <2>4. \A i \in 1 .. Len(s) : v[s[i]] > now => late <= i
    BY <2>2
  <2> HIDE DEF I
  <2>5. PICK n \in Nat : late = n + 1
    <3>1. late - 1 \in Nat /\ late = (late - 1) + 1
      BY <2>3, <1>1
    <3> QED
      BY <3>1
  <2>6. n + 1 \in 1 .. Len(s) /\ v[s[n + 1]] > now /\ n \in 0 .. Len(s)
    BY <2>3, <2>5, <1>1
  <2>7. ASSUME NEW i \in 1 .. n
        PROVE  v[s[i]] <= now
    <3>1. i \in 1 .. Len(s) /\ ~ (n + 1 <= i)
      BY <2>6, <1>1
    <3>2. v[s[i]] \in Int /\ ~ (v[s[i]] > now)
      BY <3>1, <2>4, <2>5, <1>1
    <3> QED
      BY <3>2
  <2>8. d = SubSeq(s, 1, n)
    BY <2>5
  <2> HIDE DEF d
  <2>9. SubSeq(s, 1, n) \in Seq(S)
    BY <2>6, PrefixIs
  <2>10. ToSet(SubSeq(s, 1, n)) = {t \in ToSet(s) : v[t] <= now}
    <3>1. late = n + 1 /\ late \in Int
      BY <2>3, <2>5
    <3>2. FirstLate(s, v, now, late)
      <4>1. late - 1 = n
        BY <3>1
      <4> QED
        BY <4>1, <2>3, <2>7 DEF FirstLate
    <3>3. \A t : t \in ToSet(SubSeq(s, 1, n)) <=> t \in ToSet(s) /\ v[t] <= now
      BY <3>1, <3>2, PrefixIsDue
    <3> QED
      BY <3>3
  <2>11. d \in Seq(S) /\ ToSet(d) = {t \in ToSet(s) : v[t] <= now}
    BY <2>8, <2>9, <2>10
  <2> QED
    BY <2>11, <1>4
<1> QED
  BY <1>2, <1>3

(* The earliest wake time of a sorted list, MaxDelay if it is empty.       *)
LEMMA HeadWakeIs ==
  ASSUME NEW r, Sound(r)
  PROVE  /\ HeadWake(r) \in Ticks
         /\ \A t \in Delayed(r) : HeadWake(r) <= r.wake[t]
         /\ HeadWake(r) = MaxDelay \/ \E t \in Delayed(r) : HeadWake(r) = r.wake[t]
<1>1. /\ r.delayed \in Seq(Tasks) /\ r.wake \in [Tasks -> Ticks]
      /\ Sorted(r.delayed, r.wake)
  BY KernelTypes DEF Sound, InOrder
<1>2. MaxDelay \in Ticks /\ Ticks \subseteq Int
  BY FreeRTOSAssumption DEF Ticks
<1>3. CASE r.delayed = <<>>
  <2>1. Delayed(r) = {}
    BY <1>1, <1>3, MembersOf DEF Delayed
  <2> QED
    BY <2>1, <1>2, <1>3 DEF HeadWake
<1>4. CASE r.delayed # <<>>
  <2> DEFINE s == r.delayed
  <2>1. /\ Head(s) = s[1] /\ 1 \in 1 .. Len(s) /\ Len(s) \in Nat
        /\ \A i \in 1 .. Len(s) : s[i] \in Tasks
    BY <1>1, <1>4, HeadTailProperties, LenProperties, EmptySeq
  <2>2. HeadWake(r) = r.wake[s[1]]
    BY <1>4, <2>1 DEF HeadWake
  <2>3. ASSUME NEW i \in 1 .. Len(s)
        PROVE  r.wake[s[1]] <= r.wake[s[i]]
    <3>1. CASE i = 1
      <4>1. r.wake[s[1]] \in Int
        BY <2>1, <1>1, <1>2
      <4> QED
        BY <4>1, <3>1
    <3>2. CASE 1 < i
      BY <3>2, <2>1, <1>1 DEF Sorted
    <3> QED
      BY <3>1, <3>2
  <2> HIDE DEF s
  <2>4. \A e : e \in Delayed(r) <=> \E i \in 1 .. Len(s) : s[i] = e
    BY <1>1, MembersOf DEF Delayed, s
  <2> QED
    BY <2>1, <2>2, <2>3, <2>4, <1>1
<1> QED
  BY <1>3, <1>4

(* The tasks that prvCheckDelayedTasks wakes.                              *)
DueNow(r) ==
  IF r.xTickCount < r.xNextTaskUnblockTime THEN {}
  ELSE {t \in Delayed(r) : r.wake[t] <= r.xTickCount}

(* The tasks whose time has come are woken, and no others.                 *)
LEMMA CheckKeeps ==
  ASSUME NEW r, Sound(r), NEW j, j = prvCheckDelayedTasks(r)
  PROVE  /\ Sound(j)
         /\ Woken(r, j, DueNow(r))
         /\ Delayed(j) = Delayed(r) \ DueNow(r) /\ Overflown(j) = Overflown(r)
         /\ j.xTickCount = r.xTickCount /\ j.uxMissedTicks = r.uxMissedTicks
         /\ j.xNextTaskUnblockTime =
              IF r.xTickCount < r.xNextTaskUnblockTime THEN r.xNextTaskUnblockTime
              ELSE HeadWake(j)
<1>1. CASE r.xTickCount < r.xNextTaskUnblockTime
  <2>1. j = r /\ DueNow(r) = {}
    BY <1>1 DEF prvCheckDelayedTasks, DueNow
  <2>2. Woken(r, r, {}) /\ InPlace(r, r, {})
    BY WokenNone
  <2> QED
    BY <2>1, <2>2, <1>1 DEF InPlace
<1>2. CASE ~ (r.xTickCount < r.xNextTaskUnblockTime)
  <2> DEFINE late == SelectInSeq(r.delayed, LAMBDA t : r.wake[t] > r.xTickCount)
             d    == IF late = 0 THEN r.delayed ELSE SubSeq(r.delayed, 1, late - 1)
             i    == UnblockAll(r, d)
  <2>1. j = [i EXCEPT !.xNextTaskUnblockTime = HeadWake(i)]
    BY <1>2 DEF prvCheckDelayedTasks
  <2>2. /\ r.delayed \in Seq(Tasks) /\ IsInjective(r.delayed)
        /\ r.wake \in [Tasks -> Int] /\ Sorted(r.delayed, r.wake) /\ r.xTickCount \in Int
    BY KernelTypes, FreeRTOSAssumption DEF Sound, Injective, InOrder, Ticks
  <2>3. d \in Seq(Tasks) /\ ToSet(d) = DueNow(r)
    <3>1. d \in Seq(Tasks) /\ ToSet(d) = {t \in ToSet(r.delayed) : r.wake[t] <= r.xTickCount}
      <4> DEFINE s == r.delayed
                 v == r.wake
                 now == r.xTickCount
      <4>1. d = DueOf(s, v, now)
        BY DEF SelectInSeq, DueOf
      <4>2. /\ s \in Seq(Tasks) /\ IsInjective(s) /\ v \in [Tasks -> Int]
            /\ Sorted(s, v) /\ now \in Int
        BY <2>2
      <4> HIDE DEF d, s, v, now
      <4>3. DueOf(s, v, now) \in Seq(Tasks)
            /\ ToSet(DueOf(s, v, now)) = {t \in ToSet(s) : v[t] <= now}
        BY <4>2, DueIs
      <4> QED
        BY <4>1, <4>3 DEF s, v, now
    <3> QED
      BY <3>1, <1>2 DEF DueNow, Delayed
  <2> HIDE DEF d
  <2>4. DueNow(r) \subseteq Delayed(r) /\ Delayed(r) \cap Overflown(r) = {}
    BY DEF DueNow, Sound, Apart
  <2>5. Sound(i) /\ Woken(r, i, DueNow(r)) /\ InPlace(r, i, DueNow(r))
    <3>1. ToSet(d) \subseteq Asleep(r) \cup Suspended(r)
      BY <2>3, <2>4 DEF Asleep
    <3> QED
      BY <3>1, <2>3, UnblockAllKeeps
  <2> HIDE DEF i
  <2>6. HeadWake(i) \in Ticks
    BY <2>5, HeadWakeIs
  <2>7. /\ j \in Kernel /\ SameLists(i, j) /\ Steady(i, j)
        /\ j.uxTopReadyPriority = i.uxTopReadyPriority
        /\ j.xTickCount = i.xTickCount /\ j.uxMissedTicks = i.uxMissedTicks
        /\ j.xNextTaskUnblockTime = HeadWake(i)
    BY <2>1, <2>5, <2>6 DEF Sound, Kernel, SameLists, Steady
  <2>8. Sound(j)
    BY <2>5, <2>7, SameListsKeep
  <2>9. Woken(r, j, DueNow(r))
    <3>1. /\ \A p \in Priority : ReadyAt(j, p) = ReadyAt(i, p)
          /\ Asleep(j) = Asleep(i)
          /\ Suspended(j) = Suspended(i) /\ Terminated(j) = Terminated(i)
          /\ Waiting(j) = Waiting(i) /\ Pending(j) = Pending(i)
      BY <2>5, <2>7, SameListsKeep
    <3> QED
      BY <3>1, <2>5, <2>7 DEF Woken, Steady, SameLists
  <2>10. HeadWake(j) = HeadWake(i)
    BY <2>7 DEF HeadWake, SameLists
  <2> QED
    BY <2>4, <2>5, <2>7, <2>8, <2>9, <2>10, <1>2
       DEF InPlace, SameClock, SameLists, Delayed, Overflown
<1> QED
  BY <1>1, <1>2

(* The delayed lists change places.                                        *)
LEMMA SwapKeeps ==
  ASSUME NEW r, Sound(r), NEW j, j = SwapDelayedLists(r)
  PROVE  /\ Sound(j) /\ Woken(r, j, {})
         /\ Delayed(j) = Overflown(r) /\ Overflown(j) = Delayed(r)
         /\ j.xTickCount = r.xTickCount /\ j.uxMissedTicks = r.uxMissedTicks
         /\ j.xNextTaskUnblockTime = HeadWake(j)
<1> DEFINE i == [r EXCEPT !.delayed = r.overflow, !.overflow = r.delayed]
<1>1. r \in Kernel /\ Injective(r) /\ Apart(r) /\ Ranked(r) /\ InOrder(r)
  BY DEF Sound
<1>2. /\ i \in Kernel /\ i.ready = r.ready
      /\ i.delayed = r.overflow /\ i.overflow = r.delayed
      /\ i.suspended = r.suspended /\ i.termination = r.termination
      /\ i.event = r.event /\ i.pending = r.pending
      /\ i.wake = r.wake /\ i.uxTopReadyPriority = r.uxTopReadyPriority
      /\ Steady(r, i) /\ SameClock(r, i)
  BY <1>1 DEF Kernel, Steady, SameClock
<1>3. j = [i EXCEPT !.xNextTaskUnblockTime = HeadWake(i)]
  BY DEF SwapDelayedLists
<1> HIDE DEF i
<1>4. /\ \A p \in Priority : ReadyAt(i, p) = ReadyAt(r, p)
      /\ Delayed(i) = Overflown(r) /\ Overflown(i) = Delayed(r) /\ Asleep(i) = Asleep(r)
      /\ Suspended(i) = Suspended(r) /\ Terminated(i) = Terminated(r)
      /\ Waiting(i) = Waiting(r) /\ Pending(i) = Pending(r)
  BY <1>2 DEF ReadyAt, Delayed, Overflown, Asleep, Suspended, Terminated, Waiting, Pending
<1>5. Sound(i)
  <2>1. Injective(i)
    BY <1>1, <1>2 DEF Injective
  <2>2. Apart(i)
    BY <1>1, <1>4 DEF Apart
  <2>3. Ranked(i)
    BY <1>1, <1>2 DEF Ranked, Steady, ReadyAt
  <2>4. InOrder(i)
    BY <1>1, <1>2 DEF InOrder
  <2> QED
    BY <1>2, <2>1, <2>2, <2>3, <2>4 DEF Sound
<1>6. HeadWake(i) \in Ticks
  BY <1>5, HeadWakeIs
<1>7. /\ j \in Kernel /\ SameLists(i, j) /\ Steady(i, j)
      /\ j.uxTopReadyPriority = i.uxTopReadyPriority
      /\ j.xTickCount = i.xTickCount /\ j.uxMissedTicks = i.uxMissedTicks
      /\ j.xNextTaskUnblockTime = HeadWake(i)
  BY <1>2, <1>3, <1>6 DEF Kernel, SameLists, Steady
<1>8. /\ Sound(j)
      /\ \A p \in Priority : ReadyAt(j, p) = ReadyAt(i, p)
      /\ Delayed(j) = Delayed(i) /\ Overflown(j) = Overflown(i) /\ Asleep(j) = Asleep(i)
      /\ Suspended(j) = Suspended(i) /\ Terminated(j) = Terminated(i)
      /\ Waiting(j) = Waiting(i) /\ Pending(j) = Pending(i)
  BY <1>5, <1>7, SameListsKeep
<1>9. Woken(r, j, {})
  BY <1>2, <1>4, <1>7, <1>8 DEF Woken, Steady, SameLists
<1>10. HeadWake(j) = HeadWake(i)
  BY <1>7 DEF HeadWake, SameLists
<1> QED
  BY <1>2, <1>4, <1>7, <1>8, <1>9, <1>10 DEF SameClock

(* A tick while the scheduler works: the clock goes on, and sleepers wake. *)
LEMMA TickKeeps ==
  ASSUME NEW r, Sound(r), r.uxSchedulerSuspended = 0, NEW j, j = vTaskIncrementTick(r)
  PROVE  /\ Sound(j)
         /\ \E W \in SUBSET Asleep(r) : Woken(r, j, W)
         /\ j.uxMissedTicks = r.uxMissedTicks
<1> DEFINE a == [r EXCEPT !.xTickCount = After(r.xTickCount, 1)]
           b == IF a.xTickCount = 0 THEN SwapDelayedLists(a) ELSE a
<1>1. j = prvCheckDelayedTasks(b)
  BY DEF vTaskIncrementTick
<1>2. r \in Kernel
  BY DEF Sound
<1>3. After(r.xTickCount, 1) \in Ticks
  <2>1. r.xTickCount \in 0 .. MaxDelay /\ MaxDelay \in Nat
    BY <1>2, KernelTypes, FreeRTOSAssumption DEF Ticks
  <2> QED
    BY <2>1 DEF After, Ticks
<1>4. /\ a \in Kernel /\ SameLists(r, a) /\ Steady(r, a)
      /\ a.uxTopReadyPriority = r.uxTopReadyPriority
      /\ a.uxMissedTicks = r.uxMissedTicks
  BY <1>2, <1>3 DEF Kernel, SameLists, Steady
<1> HIDE DEF a
<1>5. /\ Sound(a)
      /\ \A p \in Priority : ReadyAt(a, p) = ReadyAt(r, p)
      /\ Asleep(a) = Asleep(r)
      /\ Suspended(a) = Suspended(r) /\ Terminated(a) = Terminated(r)
      /\ Waiting(a) = Waiting(r) /\ Pending(a) = Pending(r)
  BY <1>4, SameListsKeep
<1>6. Woken(r, a, {})
  BY <1>4, <1>5 DEF Woken, SameLists
<1>7. Sound(b) /\ Woken(a, b, {}) /\ b.uxMissedTicks = a.uxMissedTicks
  <2>1. CASE a.xTickCount = 0
    BY <2>1, <1>5, SwapKeeps
  <2>2. CASE a.xTickCount # 0
    BY <2>2, <1>5, WokenNone
  <2> QED
    BY <2>1, <2>2
<1> HIDE DEF b
<1>8. Sound(j) /\ Woken(b, j, DueNow(b)) /\ j.uxMissedTicks = b.uxMissedTicks
  BY <1>1, <1>7, CheckKeeps
<1>9. Woken(r, j, DueNow(b))
  <2>1. Woken(r, b, {} \cup {})
    BY <1>6, <1>7, WokenTwice
  <2>2. Woken(r, b, {})
    BY <2>1
  <2>3. Woken(r, j, {} \cup DueNow(b))
    BY <2>2, <1>8, WokenTwice
  <2>4. {} \cup DueNow(b) = DueNow(b)
    OBVIOUS
  <2> QED
    BY <2>3, <2>4
<1>10. DueNow(b) \subseteq Asleep(r)
  <2>1. DueNow(b) \subseteq Asleep(b)
    BY DEF DueNow, Asleep
  <2>2. Asleep(b) = Asleep(r)
    BY <1>5, <1>7 DEF Woken
  <2> QED
    BY <2>1, <2>2
<1> QED
  BY <1>4, <1>7, <1>8, <1>9, <1>10

(* A tick while the scheduler is suspended is counted.                     *)
LEMMA MissedTickKeeps ==
  ASSUME NEW r, Sound(r), r.uxSchedulerSuspended = 1, r.uxMissedTicks < MaxMissed,
         NEW j, j = vTaskIncrementTick(r)
  PROVE  /\ Sound(j) /\ SameLists(r, j) /\ Steady(r, j)
         /\ j.uxTopReadyPriority = r.uxTopReadyPriority
         /\ j.uxMissedTicks = r.uxMissedTicks + 1
<1>1. r \in Kernel /\ r.uxMissedTicks \in 0 .. MaxMissed /\ MaxMissed \in Int
  BY KernelTypes, FreeRTOSAssumption DEF Sound
<1>2. r.uxMissedTicks + 1 \in 0 .. MaxMissed
  BY <1>1
<1>3. j = [r EXCEPT !.uxMissedTicks = r.uxMissedTicks + 1]
  BY DEF vTaskIncrementTick
<1>4. /\ j \in Kernel /\ SameLists(r, j) /\ Steady(r, j)
      /\ j.uxTopReadyPriority = r.uxTopReadyPriority
      /\ j.uxMissedTicks = r.uxMissedTicks + 1
  BY <1>1, <1>2, <1>3 DEF Kernel, SameLists, Steady
<1> QED
  BY <1>4, SameListsKeep

(* The ticks missed are made up for one after another.                     *)
LEMMA UnwindSteps ==
  ASSUME NEW r, Sound(r), r.uxSchedulerSuspended = 0, NEW N, N = r.uxMissedTicks
  PROVE  \E f : /\ f[0] = r
                /\ \A n \in 1 .. N : f[n] = vTaskIncrementTick(f[n - 1])
                /\ UnwindTicks(r) = [f[N] EXCEPT !.uxMissedTicks = 0]
<1> DEFINE S == {x \in Kernel : Sound(x) /\ x.uxSchedulerSuspended = 0}
           Op == [y \in S \X (1 .. N) |-> vTaskIncrementTick(y[1])]
           F == CHOOSE f : f = [n \in 0 .. N |->
                                  IF n = 0 THEN r ELSE vTaskIncrementTick(f[n - 1])]
<1>1. UnwindTicks(r) = [F[N] EXCEPT !.uxMissedTicks = 0]
  BY DEF UnwindTicks
<1>2. N \in Nat /\ r \in Kernel
  BY KernelTypes, FreeRTOSAssumption DEF Sound
<1>3. ASSUME NEW x \in S
      PROVE  vTaskIncrementTick(x) \in S
  <2>1. Sound(vTaskIncrementTick(x)) /\ \E W : Woken(x, vTaskIncrementTick(x), W)
    BY TickKeeps
  <2> QED
    BY <2>1 DEF Sound, Woken, Steady
<1>4. Op \in [S \X (1 .. N) -> S]
  BY <1>3
<1>5. \A x \in S, n \in 1 .. N : Op[<<x, n>>] = vTaskIncrementTick(x)
  OBVIOUS
<1>6. r \in S
  BY <1>2
<1> HIDE DEF Op
<1>7. PICK f : IsHistory(f, S, N, r, Op)
  <2> HIDE DEF S
  <2> QED
    BY <1>2, <1>4, <1>6, HistoryExists
<1>8. f = [n \in 0 .. N |-> IF n = 0 THEN r ELSE vTaskIncrementTick(f[n - 1])]
  <2> HIDE DEF S
  <2>1. ASSUME NEW n \in 0 .. N
        PROVE  f[n] = IF n = 0 THEN r ELSE vTaskIncrementTick(f[n - 1])
    <3>1. CASE n = 0
      BY <3>1, <1>7 DEF IsHistory
    <3>2. CASE n # 0
      <4>1. n \in 1 .. N /\ n - 1 \in 0 .. N
        BY <3>2, <1>2
      <4> QED
        BY <4>1, <3>2, <1>5, <1>7 DEF IsHistory
    <3> QED
      BY <3>1, <3>2
  <2> QED
    BY <2>1, <1>7 DEF IsHistory
<1>9. F = [n \in 0 .. N |-> IF n = 0 THEN r ELSE vTaskIncrementTick(F[n - 1])]
  BY <1>8
<1> HIDE DEF F
<1>10. F[0] = r /\ \A n \in 1 .. N : F[n] = vTaskIncrementTick(F[n - 1])
  <2>1. 0 \in 0 .. N /\ \A n \in 1 .. N : n \in 0 .. N /\ n # 0
    BY <1>2
  <2> QED
    BY <2>1, <1>9
<1> QED
  BY <1>1, <1>10

(* The ticks missed are made up for.                                       *)
LEMMA UnwindKeeps ==
  ASSUME NEW r, Sound(r), r.uxSchedulerSuspended = 0, NEW j, j = UnwindTicks(r)
  PROVE  /\ Sound(j)
         /\ \E W \in SUBSET Asleep(r) :
              Woken(r, j, W) /\ (r.uxMissedTicks = 0 => W = {})
         /\ j.uxMissedTicks = 0
<1> DEFINE N == r.uxMissedTicks
<1>1. PICK F : /\ F[0] = r
               /\ \A n \in 1 .. N : F[n] = vTaskIncrementTick(F[n - 1])
               /\ UnwindTicks(r) = [F[N] EXCEPT !.uxMissedTicks = 0]
  BY UnwindSteps
<1>2. N \in Nat /\ r \in Kernel
  BY KernelTypes, FreeRTOSAssumption DEF Sound
<1> HIDE DEF N
<1> DEFINE Good(n) == /\ Sound(F[n]) /\ F[n].uxSchedulerSuspended = 0
                      /\ \E W \in SUBSET Asleep(r) : Woken(r, F[n], W)
           G == {n \in 0 .. N : Good(n)}
<1>11. 0 \in G
  <2>1. F[0] = r /\ 0 \in 0 .. N
    BY <1>2, <1>1
  <2>2. Woken(r, r, {}) /\ {} \in SUBSET Asleep(r)
    BY WokenNone
  <2> QED
    BY <2>1, <2>2
<1>12. ASSUME NEW m \in 1 .. N, m - 1 \in G
       PROVE  m \in G
  <2>1. m \in 0 .. N /\ Good(m - 1) /\ F[m] = vTaskIncrementTick(F[m - 1])
    BY <1>2, <1>1, <1>12
  <2>2. PICK V \in SUBSET Asleep(r) : Woken(r, F[m - 1], V)
    BY <2>1
  <2>3. /\ Sound(F[m])
        /\ \E W \in SUBSET Asleep(F[m - 1]) : Woken(F[m - 1], F[m], W)
    BY <2>1, TickKeeps
  <2>4. PICK W \in SUBSET Asleep(F[m - 1]) : Woken(F[m - 1], F[m], W)
    BY <2>3
  <2>5. V \cup W \in SUBSET Asleep(r)
    BY <2>2, <2>4 DEF Woken
  <2>6. Woken(r, F[m], V \cup W)
    BY <2>2, <2>4, WokenTwice
  <2>7. F[m].uxSchedulerSuspended = 0
    BY <2>6 DEF Woken, Steady
  <2> QED
    BY <2>1, <2>3, <2>5, <2>6, <2>7
<1>13. Good(N)
  <2>1. N \in 0 .. N
    BY <1>2
  <2> HIDE DEF G
  <2>2. \A m \in 1 .. N : m - 1 \in G => m \in G
    BY <1>12
  <2>3. N \in G
    BY <2>1, <2>2, <1>2, <1>11, InductionUpTo
  <2> QED
    BY <2>3 DEF G
<1> DEFINE i == F[N]
<1>14. PICK W \in SUBSET Asleep(r) : Woken(r, i, W) /\ (N = 0 => W = {})
  <2>1. CASE N = 0
    <3>1. Woken(r, r, {}) /\ {} \in SUBSET Asleep(r)
      BY WokenNone
    <3> QED
      BY <3>1, <2>1, <1>1
  <2>2. CASE N # 0
    BY <2>2, <1>13
  <2> QED
    BY <2>1, <2>2
<1>15. Sound(i) /\ j = [i EXCEPT !.uxMissedTicks = 0]
  BY <1>1, <1>13
<1> HIDE DEF i
<1>16. 0 \in 0 .. MaxMissed
  BY FreeRTOSAssumption
<1>17. /\ j \in Kernel /\ SameLists(i, j) /\ Steady(i, j)
       /\ j.uxTopReadyPriority = i.uxTopReadyPriority
       /\ j.uxMissedTicks = 0
  BY <1>15, <1>16 DEF Sound, Kernel, SameLists, Steady
<1>18. /\ Sound(j)
       /\ \A p \in Priority : ReadyAt(j, p) = ReadyAt(i, p)
       /\ Asleep(j) = Asleep(i)
       /\ Suspended(j) = Suspended(i) /\ Terminated(j) = Terminated(i)
       /\ Waiting(j) = Waiting(i) /\ Pending(j) = Pending(i)
  BY <1>15, <1>17, SameListsKeep
<1>19. Woken(r, j, W)
  BY <1>14, <1>17, <1>18 DEF Woken, Steady, SameLists
<1> QED
  BY <1>14, <1>17, <1>18, <1>19 DEF N

-----------------------------------------------------------------------------
(* Switching.                                                              *)

(* t is ready and nobody more urgent is.                                   *)
Urgent(r, t) ==
  /\ t \in ReadyAt(r, r.uxPriority[t])
  /\ \A p \in Priority : p > r.uxPriority[t] => ReadyAt(r, p) = {}

(* There is a list of the most urgent ready tasks, and none above it.      *)
LEMMA TopReadyIs ==
  ASSUME NEW r, Sound(r)
  PROVE  /\ TopReady(r) \in Priority /\ r.ready[TopReady(r)] # <<>>
         /\ \A p \in Priority : p > TopReady(r) => r.ready[p] = <<>>
<1> DEFINE top == r.uxTopReadyPriority
           N == {n \in Nat : \A q \in Priority : q > n => r.ready[q] = <<>>}
<1>1. /\ top \in Priority /\ r.ready \in [Priority -> Seq(Tasks)]
      /\ \A p \in Priority : r.ready[p] # <<>> => p <= top
      /\ Idle \in ReadyAt(r, 0)
  BY KernelTypes DEF Sound, Ranked
<1>2. Priority \subseteq Nat /\ 0 \in Priority /\ \A n \in Nat : n <= top => n \in Priority
  BY <1>1, FreeRTOSAssumption DEF Priority
<1> HIDE DEF top
<1>3. top \in N
  <2>1. \A q \in Priority : q > top => ~ (q <= top)
    BY <1>1, <1>2
  <2> QED
    BY <2>1, <1>1, <1>2
<1>4. PICK n \in N : \A m \in N : n <= m
  BY <1>3, LeastNat
<1>5. n \in Nat /\ n <= top /\ n \in Priority
  BY <1>2, <1>3, <1>4
<1>6. r.ready[n] # <<>>
  <2>1. CASE n = 0
    <3>1. r.ready[0] \in Seq(Tasks) /\ ToSet(r.ready[0]) # {}
      BY <1>1, <1>2 DEF ReadyAt
    <3> QED
      BY <3>1, <2>1, MembersOf
  <2>2. CASE n # 0
    <3>1. n - 1 \in Nat /\ ~ (n <= n - 1)
      BY <2>2, <1>5
    <3>2. n - 1 \notin N
      BY <3>1, <1>4
    <3>3. PICK q \in Priority : q > n - 1 /\ r.ready[q] # <<>>
      BY <3>1, <3>2
    <3>4. ~ (q > n)
      BY <3>3, <1>4
    <3>5. q = n
      BY <3>3, <3>4, <1>2, <1>5
    <3> QED
      BY <3>3, <3>5
  <2> QED
    BY <2>1, <2>2
<1>7. \A q \in Priority : q > n => r.ready[q] = <<>>
  BY <1>4
<1>8. /\ n \in 0 .. top /\ r.ready[n] # <<>>
      /\ \A q \in n + 1 .. top : r.ready[q] = <<>>
  <2>1. \A q \in n + 1 .. top : q \in Priority /\ q > n
    BY <1>2, <1>5
  <2> QED
    BY <2>1, <1>5, <1>6, <1>7
<1>9. /\ TopReady(r) \in 0 .. top /\ r.ready[TopReady(r)] # <<>>
      /\ \A q \in TopReady(r) + 1 .. top : r.ready[q] = <<>>
  BY <1>8 DEF TopReady, top
<1>10. ASSUME NEW p \in Priority, p > TopReady(r)
       PROVE  r.ready[p] = <<>>
  <2>1. CASE p \in TopReady(r) + 1 .. top
    BY <2>1, <1>9
  <2>2. CASE p \notin TopReady(r) + 1 .. top
    <3>1. ~ (p <= top)
      BY <2>2, <1>1, <1>2, <1>9, <1>10
    <3> QED
      BY <3>1, <1>1 DEF top
  <2> QED
    BY <2>1, <2>2
<1>11. TopReady(r) \in Priority
  <2>1. TopReady(r) \in Nat /\ TopReady(r) <= top
    BY <1>1, <1>2, <1>9
  <2> QED
    BY <2>1, <1>2
<1> QED
  BY <1>9, <1>10, <1>11

(* j has the tasks of r in its lists, in whatever order.                   *)
SameMembers(r, j) ==
  /\ \A p \in Priority : ReadyAt(j, p) = ReadyAt(r, p)
  /\ Delayed(j) = Delayed(r) /\ Overflown(j) = Overflown(r)
  /\ Asleep(j) = Asleep(r)
  /\ Suspended(j) = Suspended(r) /\ Terminated(j) = Terminated(r)
  /\ Waiting(j) = Waiting(r) /\ Pending(j) = Pending(r)

(* What exists, by the members of the lists.                               *)
LEMMA ExistsIs ==
  ASSUME NEW r \in Kernel, NEW t
  PROVE  Exists(r, t) <=> \/ \E p \in Priority : t \in ReadyAt(r, p)
                          \/ t \in Asleep(r) \cup Suspended(r) \cup Terminated(r)
<1>1. /\ \A p \in Priority : Contains(r.ready[p], t) <=> t \in ReadyAt(r, p)
      /\ Contains(r.delayed, t) <=> t \in Delayed(r)
      /\ Contains(r.overflow, t) <=> t \in Overflown(r)
      /\ Contains(r.suspended, t) <=> t \in Suspended(r)
      /\ Contains(r.termination, t) <=> t \in Terminated(r)
  BY KernelTypes, MembersOf DEF ReadyAt, Delayed, Overflown, Suspended, Terminated
<1> QED
  BY <1>1 DEF Exists, Asleep

(* A switch, while the scheduler works, to one of the most urgent tasks.   *)
LEMMA SwitchKeeps ==
  ASSUME NEW r, Sound(r), r.uxSchedulerSuspended = 0, NEW j, j = vTaskSwitchContext(r)
  PROVE  /\ Sound(j) /\ SameMembers(r, j) /\ Urgent(j, j.pxCurrentTCB)
         /\ j.uxPriority = r.uxPriority /\ j.wake = r.wake
         /\ j.event = r.event /\ j.pending = r.pending
         /\ j.delayed = r.delayed /\ j.overflow = r.overflow
         /\ j.uxSchedulerSuspended = 0 /\ j.xMissedYield = r.xMissedYield
         /\ SameClock(r, j)
<1> DEFINE top == TopReady(r)
           s   == r.ready[top]
           t   == Head(s)
           e   == Append(Tail(s), t)
           ready == [r.ready EXCEPT ![top] = e]
<1>1. r \in Kernel /\ Injective(r) /\ Apart(r) /\ Ranked(r) /\ InOrder(r)
  BY DEF Sound
<1>2. /\ top \in Priority /\ s # <<>>
      /\ \A p \in Priority : p > top => r.ready[p] = <<>>
  BY TopReadyIs
<1>3. s \in Seq(Tasks) /\ IsInjective(s) /\ r.ready \in [Priority -> Seq(Tasks)]
  BY <1>1, <1>2, KernelTypes DEF Injective
<1>4. /\ e \in Seq(Tasks) /\ IsInjective(e) /\ ToSet(e) = ToSet(s)
      /\ t \in ToSet(s) /\ t \in Tasks
  <2> HIDE DEF s
  <2>1. t \in ToSet(s)
    BY <1>2, <1>3, TailIs
  <2>2. ToSet(s) \subseteq Tasks
    BY <1>3, MembersOf
  <2> QED
    BY <2>1, <2>2, <1>2, <1>3, RotationIs
<1>5. ready \in [Priority -> Seq(Tasks)]
  <2> HIDE DEF e, top
  <2> QED
    BY <1>2, <1>3, <1>4
<1>6. \A p \in Priority : ready[p] = IF p = top THEN e ELSE r.ready[p]
  BY <1>3
<1>7. j = [r EXCEPT !.uxTopReadyPriority = top, !.pxCurrentTCB = t, !.ready = ready]
  BY <1>2 DEF vTaskSwitchContext
<1> HIDE DEF ready, e, t, s, top
<1>8. /\ j \in Kernel /\ j.ready = ready /\ j.uxTopReadyPriority = top
      /\ j.pxCurrentTCB = t
      /\ j.delayed = r.delayed /\ j.overflow = r.overflow
      /\ j.suspended = r.suspended /\ j.termination = r.termination
      /\ j.event = r.event /\ j.pending = r.pending
      /\ j.wake = r.wake /\ j.uxPriority = r.uxPriority
      /\ j.uxSchedulerSuspended = 0 /\ j.xMissedYield = r.xMissedYield
      /\ SameClock(r, j)
  BY <1>1, <1>2, <1>4, <1>5, <1>7, ZenonT(30) DEF Kernel, Lists, SameClock
<1>9. \A p \in Priority : ReadyAt(j, p) = ReadyAt(r, p)
  BY <1>4, <1>6, <1>8 DEF ReadyAt, s
<1>10. SameMembers(r, j)
  BY <1>8, <1>9
     DEF SameMembers, Delayed, Overflown, Asleep, Suspended, Terminated, Waiting, Pending
<1>11. Injective(j)
  BY <1>1, <1>4, <1>6, <1>8 DEF Injective
<1>12. Apart(j)
  BY <1>1, <1>10 DEF Apart, SameMembers
<1>13. Ranked(j)
  <2>1. \A p \in Priority : \A u \in ReadyAt(j, p) : j.uxPriority[u] = p
    BY <1>1, <1>8, <1>9 DEF Ranked
  <2>2. ASSUME NEW p \in Priority, j.ready[p] # <<>>
        PROVE  p <= j.uxTopReadyPriority
    <3>1. p \in Int /\ top \in Int
      BY <1>2, FreeRTOSAssumption DEF Priority
    <3>2. CASE p > top
      <4>1. p # top
        BY <3>1, <3>2
      <4> QED
        BY <4>1, <3>2, <2>2, <1>2, <1>6, <1>8
    <3>3. CASE p <= top
      BY <3>3, <1>8
    <3> QED
      BY <3>1, <3>2, <3>3
  <2>3. Idle \in ReadyAt(j, 0)
    BY <1>1, <1>9, FreeRTOSAssumption DEF Ranked, Priority
  <2> QED
    BY <2>1, <2>2, <2>3 DEF Ranked
<1>14. InOrder(j)
  BY <1>1, <1>8 DEF InOrder
<1>15. Urgent(j, j.pxCurrentTCB)
  <2>1. t \in ReadyAt(r, top) /\ r.uxPriority[t] = top
    BY <1>1, <1>2, <1>4 DEF ReadyAt, s, Ranked
  <2>2. \A p \in Priority : p > top => ReadyAt(r, p) = {}
    <3>1. ToSet(<<>>) = {}
      BY DEF ToSet
    <3> QED
      BY <3>1, <1>2 DEF ReadyAt
  <2> QED
    BY <2>1, <2>2, <1>2, <1>8, <1>9 DEF Urgent
<1> QED
  BY <1>8, <1>10, <1>11, <1>12, <1>13, <1>14, <1>15 DEF Sound

(* A switch, while the scheduler is suspended, is put off.                 *)
LEMMA PutOffKeeps ==
  ASSUME NEW r, Sound(r), r.uxSchedulerSuspended = 1, NEW j, j = vTaskSwitchContext(r)
  PROVE  /\ Sound(j) /\ SameLists(r, j) /\ SameClock(r, j)
         /\ j.pxCurrentTCB = r.pxCurrentTCB
         /\ j.uxSchedulerSuspended = 1 /\ j.xMissedYield = TRUE
<1>1. j = [r EXCEPT !.xMissedYield = TRUE]
  BY DEF vTaskSwitchContext
<1>2. /\ j \in Kernel /\ SameLists(r, j) /\ SameClock(r, j)
      /\ j.uxTopReadyPriority = r.uxTopReadyPriority
      /\ j.pxCurrentTCB = r.pxCurrentTCB
      /\ j.uxSchedulerSuspended = 1 /\ j.xMissedYield = TRUE
  BY <1>1 DEF Sound, Kernel, SameLists, SameClock
<1> QED
  BY <1>2, SameListsKeep

(* What is woken has existed.                                              *)
LEMMA WokenExists ==
  ASSUME NEW r, Sound(r), NEW j, Sound(j), NEW W \in SUBSET (Asleep(r) \cup Suspended(r)),
         Woken(r, j, W), NEW t
  PROVE  Exists(j, t) <=> Exists(r, t)
<1>1. r \in Kernel /\ j \in Kernel
  BY DEF Sound
<1>2. \A u \in W : r.uxPriority[u] \in Priority
  <2>1. W \subseteq Tasks
    BY SleepersAreTasks DEF Tasks
  <2> QED
    BY <2>1, <1>1, KernelTypes
<1>3. /\ \A p \in Priority :
           ReadyAt(j, p) = ReadyAt(r, p) \cup {u \in W : r.uxPriority[u] = p}
      /\ Asleep(j) = Asleep(r) \ W
      /\ Suspended(j) = Suspended(r) \ W
      /\ Terminated(j) = Terminated(r)
  BY DEF Woken
<1>4. /\ Exists(j, t) <=> \/ \E p \in Priority : t \in ReadyAt(j, p)
                          \/ t \in Asleep(j) \cup Suspended(j) \cup Terminated(j)
      /\ Exists(r, t) <=> \/ \E p \in Priority : t \in ReadyAt(r, p)
                          \/ t \in Asleep(r) \cup Suspended(r) \cup Terminated(r)
  BY <1>1, ExistsIs
<1>5. CASE t \in W
  BY <1>2, <1>3, <1>4, <1>5
<1>6. CASE t \notin W
  BY <1>3, <1>4, <1>6
<1> QED
  BY <1>5, <1>6

(* The end of a suspension of the scheduler: what was put off is done.     *)
LEMMA ResumeAllKeeps ==
  ASSUME NEW r, Sound(r), EventsAsleep(r), r.uxSchedulerSuspended = 1,
         NEW res, res = xTaskResumeAll(r)
  PROVE  /\ res.yielded \in BOOLEAN
         /\ Sound(res.k) /\ EventsAsleep(res.k)
         /\ res.k.uxSchedulerSuspended = 0 /\ res.k.uxMissedTicks = 0
         /\ ~ res.k.xMissedYield /\ Pending(res.k) = {}
         /\ Terminated(res.k) = Terminated(r) /\ Suspended(res.k) \subseteq Suspended(r)
         /\ \A t : Exists(res.k, t) <=> Exists(r, t)
         /\ res.k.uxPriority = r.uxPriority
         /\ r.uxMissedTicks > 0 => res.yielded
         /\ res.yielded => Urgent(res.k, res.k.pxCurrentTCB)
         /\ ~ res.yielded => /\ res.k.pxCurrentTCB = r.pxCurrentTCB
                             /\ ~ r.xMissedYield
                             /\ Urgent(r, r.pxCurrentTCB) =>
                                  Urgent(res.k, r.pxCurrentTCB)
<1> DEFINE a == [r EXCEPT !.uxSchedulerSuspended = r.uxSchedulerSuspended - 1]
           b == UnblockAll(a, a.pending)
           c == UnwindTicks(b)
           yield == \/ r.xMissedYield \/ r.uxMissedTicks > 0
                    \/ \E t \in ToSet(r.pending) :
                         r.uxPriority[t] >= r.uxPriority[r.pxCurrentTCB]
           d == [c EXCEPT !.xMissedYield = FALSE]
           e == vTaskSwitchContext(d)
<1>1. res = [k |-> IF yield THEN e ELSE c, yielded |-> yield]
  BY DEF xTaskResumeAll
<1>2. r \in Kernel
  BY DEF Sound
<1>3. /\ a \in Kernel /\ SameLists(r, a) /\ SameClock(r, a)
      /\ a.uxTopReadyPriority = r.uxTopReadyPriority
      /\ a.uxSchedulerSuspended = 0 /\ a.xMissedYield = r.xMissedYield
      /\ a.pxCurrentTCB = r.pxCurrentTCB
  BY <1>2 DEF Kernel, SameLists, SameClock
<1>4. /\ yield \in BOOLEAN
      /\ ~ yield => /\ r.xMissedYield = FALSE /\ ~ (r.uxMissedTicks > 0)
                    /\ \A t \in Pending(r) :
                         ~ (r.uxPriority[t] >= r.uxPriority[r.pxCurrentTCB])
  BY <1>2, KernelTypes DEF Pending
<1> HIDE DEF a, yield
<1>5. /\ Sound(a) /\ EventsAsleep(a)
      /\ \A p \in Priority : ReadyAt(a, p) = ReadyAt(r, p)
      /\ Asleep(a) = Asleep(r)
      /\ Suspended(a) = Suspended(r) /\ Terminated(a) = Terminated(r)
      /\ Waiting(a) = Waiting(r) /\ Pending(a) = Pending(r)
  BY <1>3, SameListsKeep
<1>6. Sound(b) /\ Woken(a, b, Pending(r)) /\ SameClock(a, b)
  <2>1. a.pending \in Seq(Tasks) /\ ToSet(a.pending) = Pending(r)
    BY <1>3, <1>5, KernelTypes DEF Pending, SameLists
  <2>2. ToSet(a.pending) \subseteq Asleep(a) \cup Suspended(a)
    BY <2>1, <1>5 DEF EventsAsleep
  <2>3. Sound(b) /\ Woken(a, b, ToSet(a.pending)) /\ InPlace(a, b, ToSet(a.pending))
    BY <2>1, <2>2, <1>5, UnblockAllKeeps
  <2> QED
    BY <2>1, <2>3 DEF InPlace
<1> HIDE DEF b
<1>7. b.uxSchedulerSuspended = 0 /\ b.uxMissedTicks = r.uxMissedTicks
  BY <1>3, <1>6 DEF Woken, Steady, SameClock
<1>8. PICK W \in SUBSET Asleep(b) :
        /\ Sound(c) /\ c.uxMissedTicks = 0
        /\ Woken(b, c, W) /\ (b.uxMissedTicks = 0 => W = {})
  BY <1>6, <1>7, UnwindKeeps
<1> HIDE DEF c
<1>9. /\ c.uxSchedulerSuspended = 0 /\ c.xMissedYield = r.xMissedYield
      /\ c.pxCurrentTCB = r.pxCurrentTCB /\ c.uxPriority = r.uxPriority
  BY <1>3, <1>6, <1>7, <1>8 DEF Woken, Steady, SameLists
<1>10. /\ EventsAsleep(c) /\ Pending(c) = {} /\ Terminated(c) = Terminated(r)
       /\ Suspended(c) \subseteq Suspended(r)
  <2>1. EventsAsleep(b)
    BY <1>5, <1>6, WokenEvents
  <2>2. EventsAsleep(c)
    BY <2>1, <1>8, WokenEvents
  <2>3. /\ Pending(b) = {} /\ Terminated(b) = Terminated(r)
        /\ Suspended(b) \subseteq Suspended(r)
    BY <1>5, <1>6 DEF Woken
  <2> QED
    BY <2>2, <2>3, <1>8 DEF Woken
<1>11. ASSUME NEW t
       PROVE  Exists(c, t) <=> Exists(r, t)
  <2>1. Exists(a, t) <=> Exists(r, t)
    BY <1>2, <1>3, <1>5, ExistsIs
  <2>2. Exists(b, t) <=> Exists(a, t)
    <3>1. Pending(r) \in SUBSET (Asleep(a) \cup Suspended(a))
      BY <1>5 DEF EventsAsleep
    <3> QED
      BY <3>1, <1>5, <1>6, WokenExists
  <2>3. Exists(c, t) <=> Exists(b, t)
    <3>1. W \in SUBSET (Asleep(b) \cup Suspended(b))
      OBVIOUS
    <3> QED
      BY <3>1, <1>6, <1>8, WokenExists
  <2> QED
    BY <2>1, <2>2, <2>3
<1>12. CASE yield
  <2>1. /\ d \in Kernel /\ SameLists(c, d) /\ SameClock(c, d)
        /\ d.uxTopReadyPriority = c.uxTopReadyPriority
        /\ d.uxSchedulerSuspended = 0 /\ d.xMissedYield = FALSE
    BY <1>8, <1>9 DEF Sound, Kernel, SameLists, SameClock
  <2> HIDE DEF d
  <2>2. /\ Sound(d) /\ EventsAsleep(d)
        /\ \A p \in Priority : ReadyAt(d, p) = ReadyAt(c, p)
        /\ Asleep(d) = Asleep(c)
        /\ Suspended(d) = Suspended(c) /\ Terminated(d) = Terminated(c)
        /\ Waiting(d) = Waiting(c) /\ Pending(d) = Pending(c)
    BY <2>1, <1>8, <1>10, SameListsKeep
  <2>3. /\ Sound(e) /\ SameMembers(d, e) /\ Urgent(e, e.pxCurrentTCB)
        /\ e.uxSchedulerSuspended = 0 /\ e.xMissedYield = FALSE
        /\ e.uxPriority = d.uxPriority /\ SameClock(d, e)
    BY <2>1, <2>2, SwitchKeeps
  <2> HIDE DEF e
  <2>4. /\ EventsAsleep(e) /\ Pending(e) = {} /\ Terminated(e) = Terminated(r)
        /\ Suspended(e) \subseteq Suspended(r) /\ e.uxPriority = r.uxPriority
    BY <2>1, <2>2, <2>3, <1>9, <1>10 DEF EventsAsleep, SameMembers, SameLists
  <2>5. e.uxMissedTicks = 0
    BY <2>1, <2>3, <1>8 DEF SameClock
  <2>6. ASSUME NEW t
        PROVE  Exists(e, t) <=> Exists(r, t)
    <3>1. Exists(e, t) <=> Exists(c, t)
      <4>1. e \in Kernel /\ c \in Kernel
        BY <2>3, <1>8 DEF Sound
      <4>2. /\ \A p \in Priority : ReadyAt(e, p) = ReadyAt(c, p)
            /\ Asleep(e) = Asleep(c)
            /\ Suspended(e) = Suspended(c) /\ Terminated(e) = Terminated(c)
        BY <2>2, <2>3 DEF SameMembers
      <4> QED
        BY <4>1, <4>2, ExistsIs
    <3> QED
      BY <3>1, <1>11
  <2>7. res.k = e /\ res.yielded = yield
    BY <1>1, <1>12
  <2> QED
    BY <2>3, <2>4, <2>5, <2>6, <2>7, <1>4, <1>12
<1>13. CASE ~ yield
  <2>1. res.k = c /\ res.yielded = yield
    BY <1>1, <1>13
  <2>2. W = {}
    <3>1. r.uxMissedTicks \in Nat
      BY <1>2, KernelTypes, FreeRTOSAssumption
    <3>2. r.uxMissedTicks = 0
      BY <3>1, <1>4, <1>13
    <3> QED
      BY <3>2, <1>7, <1>8
  <2>3. ASSUME Urgent(r, r.pxCurrentTCB)
        PROVE  Urgent(c, r.pxCurrentTCB)
    <3> DEFINE t == r.pxCurrentTCB
               q == r.uxPriority[t]
    <3>1. t \in Tasks /\ q \in Priority /\ Priority \subseteq Int
      BY <1>2, KernelTypes, FreeRTOSAssumption DEF Priority
    <3>2. \A p \in Priority :
            ReadyAt(c, p) = ReadyAt(r, p) \cup {u \in Pending(r) : r.uxPriority[u] = p}
      <4>1. a.uxPriority = r.uxPriority
        BY <1>3 DEF SameLists
      <4> QED
        BY <4>1, <2>2, <1>5, <1>6, <1>8 DEF Woken
    <3>3. t \in ReadyAt(r, q) /\ \A p \in Priority : p > q => ReadyAt(r, p) = {}
      BY <2>3 DEF Urgent
    <3>4. \A p \in Priority : p > q => {u \in Pending(r) : r.uxPriority[u] = p} = {}
      <4>1. \A u \in Pending(r) : ~ (r.uxPriority[u] >= q)
        BY <1>4, <1>13
      <4> HIDE DEF q
      <4> QED
        BY <4>1, <3>1
    <3> HIDE DEF q
    <3>5. t \in ReadyAt(c, q) /\ \A p \in Priority : p > q => ReadyAt(c, p) = {}
      BY <3>1, <3>2, <3>3, <3>4
    <3> QED
      BY <3>5, <1>9 DEF Urgent, q
  <2>4. ~ r.xMissedYield /\ ~ c.xMissedYield
    BY <1>4, <1>9, <1>13
  <2>5. ~ res.yielded
    BY <2>1, <1>13
  <2>6. ~ (r.uxMissedTicks > 0)
    BY <1>4, <1>13
  <2> QED
    BY <2>1, <2>3, <2>4, <2>5, <2>6, <1>4, <1>8, <1>9, <1>10, <1>11
<1> QED
  BY <1>4, <1>12, <1>13

-----------------------------------------------------------------------------
(* What the calls do to the lists.                                         *)

(* The running task, taken off its list, goes to sleep.                    *)
LEMMA DelayKeeps ==
  ASSUME NEW r, Sound(r), Off(r, r.pxCurrentTCB), NEW time \in Ticks,
         NEW j, j = prvAddCurrentTaskToDelayedList(r, time)
  PROVE  /\ Sound(j)
         /\ \A p \in Priority : ReadyAt(j, p) = ReadyAt(r, p)
         /\ Asleep(j) = Asleep(r) \cup {r.pxCurrentTCB}
         /\ Suspended(j) = Suspended(r) /\ Terminated(j) = Terminated(r)
         /\ Waiting(j) = Waiting(r) /\ Pending(j) = Pending(r)
         /\ j.pending = r.pending /\ j.termination = r.termination
         /\ Steady(r, j)
         /\ j.xTickCount = r.xTickCount /\ j.uxMissedTicks = r.uxMissedTicks
<1> DEFINE t == r.pxCurrentTCB
           v == [r.wake EXCEPT ![t] = time]
           over == vListInsert(r.overflow, t, v)
           soon == vListInsert(r.delayed, t, v)
           next == IF time < r.xNextTaskUnblockTime THEN time ELSE r.xNextTaskUnblockTime
<1>1. r \in Kernel /\ Injective(r) /\ Apart(r) /\ Ranked(r) /\ InOrder(r) /\ t \in Tasks
  BY KernelTypes DEF Sound
<1>2. /\ v \in [Tasks -> Ticks] /\ v \in [Tasks -> Int]
      /\ \A u \in Tasks : u # t => v[u] = r.wake[u]
      /\ next \in Ticks
  BY <1>1, KernelTypes, FreeRTOSAssumption DEF Ticks
<1>3. /\ r.delayed \in Seq(Tasks) /\ r.overflow \in Seq(Tasks)
      /\ IsInjective(r.delayed) /\ IsInjective(r.overflow)
      /\ t \notin ToSet(r.delayed) /\ t \notin ToSet(r.overflow)
      /\ Sorted(r.delayed, r.wake) /\ Sorted(r.overflow, r.wake)
  BY <1>1, KernelTypes DEF Injective, InOrder, Off, Asleep, Delayed, Overflown
<1> HIDE DEF v
<1>4. Sorted(r.delayed, v) /\ Sorted(r.overflow, v)
  <2>1. ASSUME NEW s \in Seq(Tasks), t \notin ToSet(s), Sorted(s, r.wake)
        PROVE  Sorted(s, v)
    <3>1. \A i \in 1 .. Len(s) : s[i] \in Tasks /\ s[i] # t
      BY <2>1, MembersOf, LenProperties
    <3>2. \A i \in 1 .. Len(s) : v[s[i]] = r.wake[s[i]]
      BY <3>1, <1>2
    <3> QED
      BY <3>2, <2>1 DEF Sorted
  <2> QED
    BY <2>1, <1>3
<1>5. /\ over \in Seq(Tasks) /\ IsInjective(over) /\ ToSet(over) = ToSet(r.overflow) \cup {t}
  BY <1>1, <1>2, <1>3, InsertIs
<1>6. Sorted(over, v)
  BY <1>1, <1>2, <1>3, <1>4, InsertSorted
<1>7. /\ soon \in Seq(Tasks) /\ IsInjective(soon) /\ ToSet(soon) = ToSet(r.delayed) \cup {t}
  BY <1>1, <1>2, <1>3, InsertIs
<1>8. Sorted(soon, v)
  BY <1>1, <1>2, <1>3, <1>4, InsertSorted
<1>9. j = IF time < r.xTickCount
          THEN [r EXCEPT !.wake = v, !.overflow = over]
          ELSE [r EXCEPT !.wake = v, !.delayed = soon, !.xNextTaskUnblockTime = next]
  BY DEF prvAddCurrentTaskToDelayedList, v
<1> HIDE DEF over, soon, next
<1>10. /\ j \in Kernel /\ j.ready = r.ready /\ j.wake = v
       /\ j.suspended = r.suspended /\ j.termination = r.termination
       /\ j.event = r.event /\ j.pending = r.pending
       /\ j.uxTopReadyPriority = r.uxTopReadyPriority
       /\ Steady(r, j)
       /\ j.xTickCount = r.xTickCount /\ j.uxMissedTicks = r.uxMissedTicks
       /\ \/ j.overflow = over /\ j.delayed = r.delayed
          \/ j.overflow = r.overflow /\ j.delayed = soon
  <2>1. CASE time < r.xTickCount
    BY <2>1, <1>1, <1>2, <1>5, <1>9, ZenonT(30) DEF Kernel, Lists, Steady
  <2>2. CASE ~ (time < r.xTickCount)
    BY <2>2, <1>1, <1>2, <1>7, <1>9, ZenonT(90) DEF Kernel, Lists, Steady
  <2> QED
    BY <2>1, <2>2
<1>11. \/ Overflown(j) = Overflown(r) \cup {t} /\ Delayed(j) = Delayed(r)
       \/ Overflown(j) = Overflown(r) /\ Delayed(j) = Delayed(r) \cup {t}
  BY <1>5, <1>7, <1>10 DEF Overflown, Delayed
<1>12. /\ \A p \in Priority : ReadyAt(j, p) = ReadyAt(r, p)
       /\ Asleep(j) = Asleep(r) \cup {t}
       /\ Suspended(j) = Suspended(r) /\ Terminated(j) = Terminated(r)
       /\ Waiting(j) = Waiting(r) /\ Pending(j) = Pending(r)
  BY <1>10, <1>11 DEF ReadyAt, Asleep, Suspended, Terminated, Waiting, Pending
<1>13. Injective(j)
  BY <1>1, <1>5, <1>7, <1>10 DEF Injective
<1>14. Apart(j)
  <2>1. /\ \A p \in Priority : t \notin ReadyAt(r, p)
        /\ t \notin Delayed(r) /\ t \notin Overflown(r)
        /\ t \notin Suspended(r) /\ t \notin Terminated(r)
    BY DEF Off, Asleep
  <2>2. Delayed(j) \cap Overflown(j) = {}
    BY <2>1, <1>1, <1>11 DEF Apart
  <2> QED
    BY <2>1, <2>2, <1>1, <1>12 DEF Apart
<1>15. Ranked(j)
  BY <1>1, <1>10 DEF Ranked, Steady, ReadyAt
<1>16. InOrder(j)
  BY <1>4, <1>6, <1>8, <1>10 DEF InOrder
<1> QED
  BY <1>10, <1>12, <1>13, <1>14, <1>15, <1>16 DEF Sound

(* A task taken off its list is suspended, or left to be deleted.          *)
LEMMA LayAsideKeeps ==
  ASSUME NEW r, Sound(r), NEW t \in Tasks, Off(r, t),
         NEW j, \/ j = [r EXCEPT !.suspended = Append(@, t)]
                \/ j = [r EXCEPT !.termination = Append(@, t)]
  PROVE  /\ Sound(j)
         /\ \A p \in Priority : ReadyAt(j, p) = ReadyAt(r, p)
         /\ Asleep(j) = Asleep(r)
         /\ Suspended(j) \cup Terminated(j) = Suspended(r) \cup Terminated(r) \cup {t}
         /\ Suspended(r) \subseteq Suspended(j)
         /\ j = [r EXCEPT !.suspended = Append(@, t)] => t \in Suspended(j)
         /\ Waiting(j) = Waiting(r) /\ Pending(j) = Pending(r)
         /\ j.pending = r.pending
         /\ r.termination # <<>> => j.termination # <<>>
         /\ Steady(r, j) /\ SameClock(r, j)
<1> DEFINE a == Append(r.suspended, t)
           b == Append(r.termination, t)
<1>1. r \in Kernel /\ Injective(r) /\ Apart(r) /\ Ranked(r) /\ InOrder(r)
  BY DEF Sound
<1>2. /\ r.suspended \in Seq(Tasks) /\ IsInjective(r.suspended)
      /\ r.termination \in Seq(Tasks) /\ IsInjective(r.termination)
      /\ t \notin ToSet(r.suspended) /\ t \notin ToSet(r.termination)
  BY <1>1, KernelTypes DEF Injective, Off, Suspended, Terminated
<1>3. a \in Seq(Tasks) /\ IsInjective(a) /\ ToSet(a) = ToSet(r.suspended) \cup {t}
  BY <1>2, AppendIs
<1>4. b \in Seq(Tasks) /\ IsInjective(b) /\ ToSet(b) = ToSet(r.termination) \cup {t}
  BY <1>2, AppendIs
<1>5. j = [r EXCEPT !.suspended = a] \/ j = [r EXCEPT !.termination = b]
  OBVIOUS
<1>6. b # <<>>
  BY <1>2
<1>7. j = [r EXCEPT !.suspended = Append(@, t)] => j.suspended = a
  BY <1>1 DEF Kernel
<1> HIDE DEF a, b
<1>8. /\ j \in Kernel /\ j.ready = r.ready /\ j.wake = r.wake
      /\ j.delayed = r.delayed /\ j.overflow = r.overflow
      /\ j.event = r.event /\ j.pending = r.pending
      /\ j.uxTopReadyPriority = r.uxTopReadyPriority
      /\ Steady(r, j) /\ SameClock(r, j)
      /\ \/ j.suspended = a /\ j.termination = r.termination
         \/ j.suspended = r.suspended /\ j.termination = b
  BY <1>1, <1>3, <1>4, <1>5, ZenonT(30) DEF Kernel, Lists, Steady, SameClock
<1>9. \/ Suspended(j) = Suspended(r) \cup {t} /\ Terminated(j) = Terminated(r)
      \/ Suspended(j) = Suspended(r) /\ Terminated(j) = Terminated(r) \cup {t}
  BY <1>3, <1>4, <1>8 DEF Suspended, Terminated
<1>10. /\ \A p \in Priority : ReadyAt(j, p) = ReadyAt(r, p)
       /\ Asleep(j) = Asleep(r) /\ Delayed(j) = Delayed(r) /\ Overflown(j) = Overflown(r)
       /\ Waiting(j) = Waiting(r) /\ Pending(j) = Pending(r)
  BY <1>8 DEF ReadyAt, Asleep, Delayed, Overflown, Waiting, Pending
<1>11. Injective(j)
  BY <1>1, <1>3, <1>4, <1>8 DEF Injective
<1>12. Apart(j)
  BY <1>1, <1>9, <1>10 DEF Apart, Off
<1>13. Ranked(j)
  BY <1>1, <1>8 DEF Ranked, Steady, ReadyAt
<1>14. InOrder(j)
  BY <1>1, <1>8 DEF InOrder
<1>15. j = [r EXCEPT !.suspended = Append(@, t)] => t \in Suspended(j)
  BY <1>3, <1>7 DEF Suspended
<1>16. r.termination # <<>> => j.termination # <<>>
  BY <1>6, <1>8
<1> QED
  BY <1>8, <1>9, <1>10, <1>11, <1>12, <1>13, <1>14, <1>15, <1>16 DEF Sound

(* A task that waits for no event begins to, or is taken from the events   *)
(* to those whose event came while the scheduler was suspended.            *)
LEMMA EventKeeps ==
  ASSUME NEW r, Sound(r), NEW t \in Tasks, t \notin Waiting(r) \cup Pending(r),
         NEW v \in [Tasks -> Int],
         NEW j, \/ j = [r EXCEPT !.event = vListInsert(@, t, v)]
                \/ j = [r EXCEPT !.pending = Append(@, t)]
  PROVE  /\ Sound(j)
         /\ j.ready = r.ready /\ j.delayed = r.delayed /\ j.overflow = r.overflow
         /\ j.suspended = r.suspended /\ j.termination = r.termination
         /\ j.wake = r.wake
         /\ Waiting(j) \cup Pending(j) = Waiting(r) \cup Pending(r) \cup {t}
         /\ j = [r EXCEPT !.event = vListInsert(@, t, v)] => j.pending = r.pending
         /\ Steady(r, j) /\ SameClock(r, j)
<1> DEFINE a == vListInsert(r.event, t, v)
           b == Append(r.pending, t)
<1>1. r \in Kernel /\ Injective(r) /\ Apart(r) /\ Ranked(r) /\ InOrder(r)
  BY DEF Sound
<1>2. /\ r.event \in Seq(Tasks) /\ IsInjective(r.event)
      /\ r.pending \in Seq(Tasks) /\ IsInjective(r.pending)
      /\ t \notin ToSet(r.event) /\ t \notin ToSet(r.pending)
  BY <1>1, KernelTypes DEF Injective, Waiting, Pending
<1>3. a \in Seq(Tasks) /\ IsInjective(a) /\ ToSet(a) = ToSet(r.event) \cup {t}
  BY <1>2, InsertIs
<1>4. b \in Seq(Tasks) /\ IsInjective(b) /\ ToSet(b) = ToSet(r.pending) \cup {t}
  BY <1>2, AppendIs
<1>5. j = [r EXCEPT !.event = a] \/ j = [r EXCEPT !.pending = b]
  OBVIOUS
<1>6. j = [r EXCEPT !.event = vListInsert(@, t, v)] => j.pending = r.pending
  BY <1>1 DEF Kernel
<1> HIDE DEF a, b
<1>7. /\ j \in Kernel /\ j.ready = r.ready /\ j.wake = r.wake
      /\ j.delayed = r.delayed /\ j.overflow = r.overflow
      /\ j.suspended = r.suspended /\ j.termination = r.termination
      /\ j.uxTopReadyPriority = r.uxTopReadyPriority
      /\ Steady(r, j) /\ SameClock(r, j)
      /\ \/ j.event = a /\ j.pending = r.pending
         \/ j.event = r.event /\ j.pending = b
  BY <1>1, <1>3, <1>4, <1>5, ZenonT(30) DEF Kernel, Lists, Steady, SameClock
<1>8. \/ Waiting(j) = Waiting(r) \cup {t} /\ Pending(j) = Pending(r)
      \/ Waiting(j) = Waiting(r) /\ Pending(j) = Pending(r) \cup {t}
  BY <1>3, <1>4, <1>7 DEF Waiting, Pending
<1>9. Injective(j)
  BY <1>1, <1>3, <1>4, <1>7 DEF Injective
<1>10. Apart(j)
  <2>1. /\ \A p \in Priority : ReadyAt(j, p) = ReadyAt(r, p)
        /\ Asleep(j) = Asleep(r) /\ Delayed(j) = Delayed(r) /\ Overflown(j) = Overflown(r)
        /\ Suspended(j) = Suspended(r) /\ Terminated(j) = Terminated(r)
    BY <1>7 DEF ReadyAt, Asleep, Delayed, Overflown, Suspended, Terminated
  <2> QED
    BY <2>1, <1>1, <1>8 DEF Apart
<1>11. Ranked(j)
  BY <1>1, <1>7 DEF Ranked, Steady, ReadyAt
<1>12. InOrder(j)
  BY <1>1, <1>7 DEF InOrder
<1> QED
  BY <1>6, <1>7, <1>8, <1>9, <1>10, <1>11, <1>12 DEF Sound

-----------------------------------------------------------------------------
(* The inductive invariant.                                                *)

InCall == {"locked", "resume"}

(* What holds of the kernel r when each task t is at where[t]: only the    *)
(* running task has the scheduler suspended; what was put off waits for    *)
(* the end of that; and who runs is the most urgent or about to yield.     *)
Controlled(r, where) ==
  LET cur == r.pxCurrentTCB IN
  /\ where \in [Tasks -> PCs]
  /\ \A t \in Tasks : t # cur => where[t] \notin InCall
  /\ r.uxSchedulerSuspended = 1 <=> where[cur] \in InCall
  /\ where[Idle] \notin {"locked", "yield"}
  /\ \A t \in Task : where[t] \notin {"reap", "share"}
  /\ where[Idle] \in {"resume", "reap"} => Terminated(r) # {}
  /\ Exists(r, cur)
  /\ r.uxSchedulerSuspended = 0 =>
       Pending(r) = {} /\ ~ r.xMissedYield /\ r.uxMissedTicks = 0
  /\ r.uxSchedulerSuspended = 0 /\ where[cur] # "yield" => Urgent(r, cur)
  /\ \/ where[cur] = "locked"
     \/ cur = Idle /\ where[cur] = "resume"
     => r.xMissedYield \/ Urgent(r, cur)

IInv == Sound(k) /\ EventsAsleep(k) /\ Controlled(k, pc)

(* A task that is urgent exists.                                           *)
LEMMA UrgentExists ==
  ASSUME NEW r, Sound(r), NEW t \in Tasks, Urgent(r, t)
  PROVE  Exists(r, t)
<1>1. r \in Kernel
  BY DEF Sound
<1>2. r.uxPriority[t] \in Priority /\ t \in ReadyAt(r, r.uxPriority[t])
  BY <1>1, KernelTypes DEF Urgent
<1> QED
  BY <1>1, <1>2, ExistsIs

(* While the scheduler works it is enough that nobody is in a call, that   *)
(* nothing is put off, and that who runs is urgent or about to yield.      *)
LEMMA WorksControlled ==
  ASSUME NEW r, Sound(r), NEW where \in [Tasks -> PCs],
         r.uxSchedulerSuspended = 0, Pending(r) = {}, ~ r.xMissedYield,
         r.uxMissedTicks = 0,
         \A t \in Tasks : where[t] \notin InCall,
         where[Idle] # "yield", \A t \in Task : where[t] \notin {"reap", "share"},
         where[Idle] = "reap" => Terminated(r) # {},
         \/ Urgent(r, r.pxCurrentTCB)
         \/ where[r.pxCurrentTCB] = "yield" /\ Exists(r, r.pxCurrentTCB)
  PROVE  Controlled(r, where)
<1> DEFINE cur == r.pxCurrentTCB
<1>1. cur \in Tasks /\ Idle \in Tasks
  BY KernelTypes DEF Sound, Tasks
<1>2. Exists(r, cur)
  BY <1>1, UrgentExists
<1>3. where[cur] \notin InCall /\ where[Idle] \notin InCall
  BY <1>1
<1> QED
  BY <1>2, <1>3 DEF Controlled, InCall

(* An interrupt or a call after which the running task is the same and as  *)
(* urgent as before, unless it ends with a switch.                         *)
LEMMA SwitchIfKeeps ==
  ASSUME IInv, NEW j, Sound(j), EventsAsleep(j),
         j.pxCurrentTCB = k.pxCurrentTCB,
         j.uxSchedulerSuspended = k.uxSchedulerSuspended,
         j.xMissedYield = k.xMissedYield,
         k.uxSchedulerSuspended = 0 => Pending(j) = {} /\ j.uxMissedTicks = 0,
         Terminated(k) # {} => Terminated(j) # {},
         Exists(j, k.pxCurrentTCB),
         NEW c \in BOOLEAN,
         c \/ (Urgent(k, k.pxCurrentTCB) => Urgent(j, k.pxCurrentTCB)),
         NEW r, r = SwitchIf(c, j)
  PROVE  Sound(r) /\ EventsAsleep(r) /\ Controlled(r, pc)
<1> DEFINE cur == k.pxCurrentTCB
<1>1. Sound(k) /\ Controlled(k, pc) /\ k \in Kernel /\ j \in Kernel
  BY DEF IInv, Sound
<1>2. pc \in [Tasks -> PCs] /\ cur \in Tasks /\ Idle \in Tasks
  BY <1>1, KernelTypes DEF Controlled, Tasks
<1>3. CASE k.uxSchedulerSuspended = 0
  <2>1. /\ \A t \in Tasks : pc[t] \notin InCall
        /\ pc[Idle] # "yield" /\ \A t \in Task : pc[t] \notin {"reap", "share"}
        /\ pc[Idle] = "reap" => Terminated(k) # {}
        /\ pc[cur] # "yield" => Urgent(k, cur)
        /\ ~ k.xMissedYield
    BY <1>1, <1>2, <1>3 DEF Controlled
  <2>2. CASE c
    <3>1. r = vTaskSwitchContext(j)
      BY <2>2 DEF SwitchIf
    <3>2. /\ Sound(r) /\ SameMembers(j, r) /\ Urgent(r, r.pxCurrentTCB)
          /\ r.uxSchedulerSuspended = 0 /\ r.xMissedYield = j.xMissedYield
          /\ SameClock(j, r)
      BY <3>1, <1>3, SwitchKeeps
    <3>3. EventsAsleep(r) /\ Pending(r) = {} /\ Terminated(r) = Terminated(j)
          /\ r.uxMissedTicks = 0 /\ ~ r.xMissedYield
      BY <3>2, <2>1, <1>3 DEF EventsAsleep, SameMembers, SameClock
    <3>4. pc[Idle] = "reap" => Terminated(r) # {}
      BY <3>3, <2>1
    <3>5. Controlled(r, pc)
      BY <3>2, <3>3, <3>4, <2>1, <1>2, WorksControlled
    <3> QED
      BY <3>2, <3>3, <3>5
  <2>3. CASE ~ c
    <3>1. r = j
      BY <2>3 DEF SwitchIf
    <3>2. \/ Urgent(r, r.pxCurrentTCB)
          \/ pc[r.pxCurrentTCB] = "yield" /\ Exists(r, r.pxCurrentTCB)
      BY <3>1, <2>1, <2>3
    <3>3. pc[Idle] = "reap" => Terminated(r) # {}
      BY <3>1, <2>1
    <3>4. /\ Sound(r) /\ r.uxSchedulerSuspended = 0 /\ Pending(r) = {}
          /\ ~ r.xMissedYield /\ r.uxMissedTicks = 0
      BY <3>1, <2>1, <1>3
    <3>5. Controlled(r, pc)
      BY <3>2, <3>3, <3>4, <2>1, <1>2, WorksControlled
    <3> QED
      BY <3>1, <3>5
  <2> QED
    BY <2>2, <2>3
<1>4. CASE k.uxSchedulerSuspended = 1
  <2>1. /\ Sound(r) /\ EventsAsleep(r)
        /\ r.pxCurrentTCB = cur /\ r.uxSchedulerSuspended = 1
        /\ Terminated(r) = Terminated(j)
        /\ Exists(r, cur)
        /\ \/ r.xMissedYield
           \/ r.xMissedYield = k.xMissedYield /\ (Urgent(k, cur) => Urgent(r, cur))
    <3>1. CASE c
      <4>1. r = vTaskSwitchContext(j)
        BY <3>1 DEF SwitchIf
      <4>2. /\ Sound(r) /\ SameLists(j, r) /\ SameClock(j, r)
            /\ r.pxCurrentTCB = j.pxCurrentTCB
            /\ r.uxSchedulerSuspended = 1 /\ r.xMissedYield = TRUE
        BY <4>1, <1>4, PutOffKeeps
      <4>3. /\ Terminated(r) = Terminated(j) /\ EventsAsleep(r)
        BY <4>2 DEF SameLists, Terminated, EventsAsleep, Waiting, Pending, Asleep, Delayed,
                    Overflown, Suspended
      <4>4. Exists(r, cur)
        BY <4>2 DEF SameLists, Exists
      <4> QED
        BY <4>2, <4>3, <4>4
    <3>2. CASE ~ c
      <4>1. r = j
        BY <3>2 DEF SwitchIf
      <4> QED
        BY <4>1, <3>2, <1>4
    <3> QED
      BY <3>1, <3>2
  <2>2. Controlled(r, pc)
    BY <2>1, <1>1, <1>2, <1>4 DEF Controlled
  <2> QED
    BY <2>1, <2>2
<1> QED
  BY <1>1, <1>3, <1>4, KernelTypes

-----------------------------------------------------------------------------
(* The actions.                                                            *)

(* A task that waits for no event is made ready.                           *)
LEMMA MakeReadyKeeps ==
  ASSUME NEW r, Sound(r), NEW t \in Task,
         t \notin Terminated(r) \cup Waiting(r) \cup Pending(r),
         NEW j, j = prvAddTaskToReadyQueue(RemoveGeneric(r, t), t)
  PROVE  Sound(j) /\ Woken(r, j, {t}) /\ InPlace(r, j, {t})
<1> DEFINE a == RemoveGeneric(r, t)
<1>1. t \in Tasks
  BY DEF Tasks
<1>2. /\ Sound(a) /\ Off(a, t)
      /\ \A p \in Priority : ReadyAt(a, p) = ReadyAt(r, p) \ {t}
      /\ Delayed(a) = Delayed(r) \ {t} /\ Overflown(a) = Overflown(r) \ {t}
      /\ Suspended(a) = Suspended(r) \ {t}
      /\ Terminated(a) = Terminated(r) \ {t}
      /\ Waiting(a) = Waiting(r) /\ Pending(a) = Pending(r)
      /\ a.wake = [r.wake EXCEPT ![t] = 0]
      /\ Steady(r, a) /\ SameClock(r, a)
  BY RemoveGenericKeeps
<1> HIDE DEF a
<1>3. j = prvAddTaskToReadyQueue(a, t)
  BY DEF a
<1>4. /\ Sound(j)
      /\ \A p \in Priority : ReadyAt(j, p) =
           ReadyAt(a, p) \cup (IF p = a.uxPriority[t] THEN {t} ELSE {})
      /\ j.delayed = a.delayed /\ j.overflow = a.overflow
      /\ j.suspended = a.suspended /\ j.termination = a.termination
      /\ j.event = a.event /\ j.pending = a.pending
      /\ j.wake = a.wake
      /\ Steady(a, j) /\ SameClock(a, j)
  BY <1>1, <1>2, <1>3, AddReadyKeeps
<1>5. Steady(r, j) /\ SameClock(r, j) /\ a.uxPriority = r.uxPriority
  BY <1>2, <1>4 DEF Steady, SameClock
<1>6. ASSUME NEW p \in Priority
      PROVE  ReadyAt(j, p) = ReadyAt(r, p) \cup {u \in {t} : r.uxPriority[u] = p}
  <2>1. p # r.uxPriority[t] => t \notin ReadyAt(r, p)
    BY DEF Sound, Ranked
  <2> QED
    BY <2>1, <1>2, <1>4, <1>5
<1>7. /\ Delayed(j) = Delayed(r) \ {t} /\ Overflown(j) = Overflown(r) \ {t}
      /\ Asleep(j) = Asleep(r) \ {t}
      /\ Suspended(j) = Suspended(r) \ {t} /\ Terminated(j) = Terminated(r)
      /\ Waiting(j) = Waiting(r) \ {t} /\ Pending(j) = Pending(r) \ {t}
  BY <1>2, <1>4
     DEF Delayed, Overflown, Asleep, Suspended, Terminated, Waiting, Pending
<1>8. \A u \in Tasks : j.wake[u] = IF u \in {t} THEN 0 ELSE r.wake[u]
  <2>1. r.wake \in [Tasks -> Ticks]
    BY KernelTypes DEF Sound
  <2> QED
    BY <2>1, <1>1, <1>2, <1>4
<1> QED
  BY <1>4, <1>5, <1>6, <1>7, <1>8 DEF Woken, InPlace

(* A task less urgent than the running one takes nothing from it.          *)
LEMMA LessUrgentWoken ==
  ASSUME NEW r, Sound(r), NEW j, NEW u \in Tasks, Woken(r, j, {u}),
         ~ (r.uxPriority[u] >= r.uxPriority[r.pxCurrentTCB]), Urgent(r, r.pxCurrentTCB)
  PROVE  Urgent(j, r.pxCurrentTCB)
<1> DEFINE t == r.pxCurrentTCB
           q == r.uxPriority[t]
<1>1. r \in Kernel
  BY DEF Sound
<1>2. /\ q \in Priority /\ r.uxPriority[u] \in Priority /\ Priority \subseteq Int
  BY <1>1, KernelTypes, FreeRTOSAssumption DEF Priority
<1>3. j.uxPriority = r.uxPriority
  BY DEF Woken, Steady
<1>4. t \in ReadyAt(r, q) /\ \A p \in Priority : p > q => ReadyAt(r, p) = {}
  BY DEF Urgent
<1>5. \A p \in Priority : ReadyAt(j, p) = ReadyAt(r, p) \cup {v \in {u} : r.uxPriority[v] = p}
  BY DEF Woken
<1>6. ~ (r.uxPriority[u] >= q)
  OBVIOUS
<1> HIDE DEF q
<1>7. \A p \in Priority : p > q => p # r.uxPriority[u]
  BY <1>2, <1>6
<1>8. t \in ReadyAt(j, q) /\ \A p \in Priority : p > q => ReadyAt(j, p) = {}
  BY <1>2, <1>4, <1>5, <1>7
<1> QED
  BY <1>3, <1>8 DEF Urgent, q

(* One task is woken, by a call or an interrupt, with a switch if it is as *)
(* urgent as the running one.                                              *)
LEMMA WakeOneKeeps ==
  ASSUME IInv, NEW u \in Task, u \in Asleep(k) \cup Suspended(k),
         NEW j, Sound(j), Woken(k, j, {u}), j.uxMissedTicks = k.uxMissedTicks,
         NEW r, r = SwitchIf(AsUrgent(u), j)
  PROVE  Sound(r) /\ EventsAsleep(r) /\ Controlled(r, pc)
<1>1. Sound(k) /\ EventsAsleep(k) /\ Controlled(k, pc) /\ u \in Tasks
  BY DEF IInv, Tasks
<1>2. EventsAsleep(j)
  BY <1>1, WokenEvents
<1>3. Exists(j, k.pxCurrentTCB)
  <2>1. {u} \in SUBSET (Asleep(k) \cup Suspended(k))
    OBVIOUS
  <2> QED
    BY <2>1, <1>1, WokenExists DEF Controlled
<1>4. AsUrgent(u) \/ (Urgent(k, k.pxCurrentTCB) => Urgent(j, k.pxCurrentTCB))
  BY <1>1, LessUrgentWoken DEF AsUrgent
<1>5. AsUrgent(u) \in BOOLEAN
  BY DEF AsUrgent
<1>6. /\ j.pxCurrentTCB = k.pxCurrentTCB
      /\ j.uxSchedulerSuspended = k.uxSchedulerSuspended
      /\ j.xMissedYield = k.xMissedYield
      /\ Terminated(j) = Terminated(k) /\ Pending(j) = Pending(k) \ {u}
  BY DEF Woken, Steady
<1>7. k.uxSchedulerSuspended = 0 => Pending(j) = {} /\ j.uxMissedTicks = 0
  BY <1>1, <1>6 DEF Controlled
<1> QED
  BY <1>2, <1>3, <1>4, <1>5, <1>6, <1>7, SwitchIfKeeps

(* To stay at its place is to go nowhere.                                  *)
LEMMA Staying ==
  ASSUME pc \in [Tasks -> PCs], k.pxCurrentTCB \in Tasks
  PROVE  [pc EXCEPT ![k.pxCurrentTCB] = pc[k.pxCurrentTCB]] = pc
OBVIOUS

(* The parts of the invariant, by name.                                    *)
LEMMA IInvIs ==
  ASSUME IInv
  PROVE  /\ k \in Kernel /\ Sound(k) /\ EventsAsleep(k) /\ Controlled(k, pc)
         /\ pc \in [Tasks -> PCs] /\ k.pxCurrentTCB \in Tasks
         /\ Idle \in Tasks /\ Task \subseteq Tasks
         /\ k.uxSchedulerSuspended \in {0, 1}
BY KernelTypes DEF IInv, Sound, Controlled, Tasks

(* A suspended task is resumed.                                            *)
LEMMA ResumeKeeps ==
  ASSUME IInv, NEW u \in Task, vTaskResume(u)
  PROVE  IInv'
<1> DEFINE j == prvAddTaskToReadyQueue(RemoveGeneric(k, u), u)
           r == SwitchIf(AsUrgent(u), j)
<1>1. k' = r /\ pc' = pc /\ xTaskIsTaskSuspended(u)
  BY IInvIs, Staying DEF vTaskResume, Goto
<1>2. u \in Suspended(k) /\ u \notin Pending(k) /\ u \notin Waiting(k)
  BY <1>1, IInvIs, KernelTypes, MembersOf
     DEF xTaskIsTaskSuspended, Suspended, Pending, Waiting
<1>3. u \notin Terminated(k)
  BY <1>2, IInvIs DEF Sound, Apart
<1>4. Sound(j) /\ Woken(k, j, {u}) /\ InPlace(k, j, {u})
  BY <1>2, <1>3, IInvIs, MakeReadyKeeps
<1> HIDE DEF j
<1>5. j.uxMissedTicks = k.uxMissedTicks
  BY <1>4 DEF InPlace, SameClock
<1>6. Sound(r) /\ EventsAsleep(r) /\ Controlled(r, pc)
  BY <1>2, <1>4, <1>5, WakeOneKeeps
<1> QED
  BY <1>1, <1>6 DEF IInv

(* The event of a waiting task has happened while the scheduler was        *)
(* suspended: it is put off.                                               *)
LEMMA PendKeeps ==
  ASSUME IInv, k.uxSchedulerSuspended = 1,
         NEW u \in Tasks, u \in Asleep(k) \cup Suspended(k),
         NEW i, Sound(i), SameClock(k, i), Steady(k, i), i.ready = k.ready,
         i.delayed = k.delayed, i.overflow = k.overflow, i.suspended = k.suspended,
         i.termination = k.termination,
         Waiting(i) \cup Pending(i) \subseteq Waiting(k) \cup Pending(k),
         u \notin Waiting(i) \cup Pending(i),
         NEW c \in BOOLEAN, NEW r, r = SwitchIf(c, [i EXCEPT !.pending = Append(@, u)])
  PROVE  Sound(r) /\ EventsAsleep(r) /\ Controlled(r, pc)
<1> DEFINE j == [i EXCEPT !.pending = Append(@, u)]
           v == [t \in Tasks |-> 0]
<1>1. v \in [Tasks -> Int]
  OBVIOUS
<1>2. /\ Sound(j)
      /\ j.ready = i.ready /\ j.delayed = i.delayed /\ j.overflow = i.overflow
      /\ j.suspended = i.suspended /\ j.termination = i.termination
      /\ Waiting(j) \cup Pending(j) = Waiting(i) \cup Pending(i) \cup {u}
      /\ Steady(i, j) /\ SameClock(i, j)
  <2>1. j = [i EXCEPT !.event = vListInsert(@, u, v)] \/ j = [i EXCEPT !.pending = Append(@, u)]
    OBVIOUS
  <2> HIDE DEF j, v
  <2> QED
    BY <2>1, <1>1, EventKeeps
<1>3. r = SwitchIf(c, j)
  OBVIOUS
<1> HIDE DEF j
<1>4. EventsAsleep(j)
  <2>1. Asleep(j) = Asleep(k) /\ Suspended(j) = Suspended(k)
    BY <1>2 DEF Asleep, Delayed, Overflown, Suspended
  <2>2. Waiting(j) \cup Pending(j) \subseteq Waiting(k) \cup Pending(k) \cup {u}
    BY <1>2
  <2>3. Waiting(k) \cup Pending(k) \subseteq Asleep(k) \cup Suspended(k)
    BY IInvIs DEF EventsAsleep
  <2> QED
    BY <2>1, <2>2, <2>3 DEF EventsAsleep
<1>5. /\ j.pxCurrentTCB = k.pxCurrentTCB /\ j.uxPriority = k.uxPriority
      /\ j.uxSchedulerSuspended = 1
      /\ j.xMissedYield = k.xMissedYield /\ j.ready = k.ready
      /\ Terminated(j) = Terminated(k)
  BY <1>2 DEF Steady, Terminated
<1>6. Exists(j, k.pxCurrentTCB)
  <2>1. Exists(k, k.pxCurrentTCB)
    BY IInvIs DEF Controlled
  <2> QED
    BY <2>1, <1>2, <1>5 DEF Exists
<1>7. Urgent(k, k.pxCurrentTCB) => Urgent(j, k.pxCurrentTCB)
  BY <1>5 DEF Urgent, ReadyAt
<1> QED
  BY <1>2, <1>3, <1>4, <1>5, <1>6, <1>7, SwitchIfKeeps

(* A suspended task is resumed by an interrupt.                            *)
LEMMA ResumeFromISRKeeps ==
  ASSUME IInv, NEW u \in Task, xTaskResumeFromISR(u)
  PROVE  IInv'
<1>1. u \in Suspended(k) /\ u \notin Pending(k) /\ u \notin Waiting(k) /\ u \in Tasks
  BY IInvIs, KernelTypes, MembersOf
     DEF xTaskResumeFromISR, xTaskIsTaskSuspended, Suspended, Pending, Waiting
<1>2. u \notin Terminated(k)
  BY <1>1, IInvIs DEF Sound, Apart
<1>3. CASE k.uxSchedulerSuspended = 0
  <2> DEFINE j == prvAddTaskToReadyQueue(RemoveGeneric(k, u), u)
             r == SwitchIf(AsUrgent(u), j)
  <2>1. k' = r /\ pc' = pc
    <3>1. Goto(r, pc[k.pxCurrentTCB])
      BY <1>3 DEF xTaskResumeFromISR
    <3> QED
      BY <3>1, IInvIs, Staying DEF Goto
  <2>2. Sound(j) /\ Woken(k, j, {u}) /\ InPlace(k, j, {u})
    BY <1>1, <1>2, IInvIs, MakeReadyKeeps
  <2> HIDE DEF j
  <2>3. j.uxMissedTicks = k.uxMissedTicks
    BY <2>2 DEF InPlace, SameClock
  <2>4. Sound(r) /\ EventsAsleep(r) /\ Controlled(r, pc)
    BY <1>1, <2>2, <2>3, WakeOneKeeps
  <2> QED
    BY <2>1, <2>4 DEF IInv
<1>4. CASE k.uxSchedulerSuspended = 1
  <2> DEFINE r == SwitchIf(FALSE, [k EXCEPT !.pending = Append(@, u)])
  <2>1. k' = r /\ pc' = pc
    <3>1. Goto([k EXCEPT !.pending = Append(@, u)], pc[k.pxCurrentTCB])
      BY <1>4 DEF xTaskResumeFromISR
    <3>2. r = [k EXCEPT !.pending = Append(@, u)]
      BY DEF SwitchIf
    <3> HIDE DEF r
    <3> QED
      BY <3>1, <3>2, IInvIs, Staying DEF Goto
  <2>2. SameClock(k, k) /\ Steady(k, k)
    BY DEF SameClock, Steady
  <2>3. Sound(r) /\ EventsAsleep(r) /\ Controlled(r, pc)
    BY <1>1, <1>4, <2>2, IInvIs, PendKeeps
  <2> QED
    BY <2>1, <2>3 DEF IInv
<1> QED
  BY <1>3, <1>4, IInvIs

(* The event that tasks wait for happens: the first of them is woken, or   *)
(* put off.                                                                *)
LEMMA EventKeepsIInv ==
  ASSUME IInv, xTaskRemoveFromEventList
  PROVE  IInv'
<1> DEFINE u == Head(k.event)
           i == RemoveEvent(k, u)
           a == prvAddTaskToReadyQueue(RemoveGeneric(i, u), u)
           b == [i EXCEPT !.pending = Append(@, u)]
<1>1. k.event # <<>> /\ k.event \in Seq(Tasks) /\ IsInjective(k.event)
  BY IInvIs, KernelTypes DEF xTaskRemoveFromEventList, Sound, Injective
<1>2. u \in Waiting(k)
  BY <1>1, TailIs DEF Waiting
<1>3. /\ u \in Asleep(k) \cup Suspended(k) /\ u \notin Pending(k)
      /\ u \in Task /\ u \notin Terminated(k) /\ u \in Tasks
  <2>1. u \in Asleep(k) \cup Suspended(k) /\ u \notin Pending(k)
    BY <1>2, IInvIs DEF EventsAsleep, Sound, Apart
  <2>2. u \in Task
    BY <2>1, IInvIs, SleepersAreTasks
  <2>3. u \notin Terminated(k)
    BY <2>1, IInvIs DEF Sound, Apart
  <2> QED
    BY <2>1, <2>2, <2>3, IInvIs
<1>4. /\ k' = SwitchIf(AsUrgent(u), IF k.uxSchedulerSuspended = 0 THEN a ELSE b)
      /\ pc' = pc
  BY IInvIs, Staying DEF xTaskRemoveFromEventList, Goto
<1> HIDE DEF u
<1>5. /\ Sound(i)
      /\ i.ready = k.ready /\ i.delayed = k.delayed /\ i.overflow = k.overflow
      /\ i.suspended = k.suspended /\ i.termination = k.termination
      /\ i.wake = k.wake
      /\ Waiting(i) = Waiting(k) \ {u} /\ Pending(i) = Pending(k) \ {u}
      /\ Steady(k, i) /\ SameClock(k, i)
  BY <1>3, IInvIs, RemoveEventKeeps, SMTT(30)
<1> HIDE DEF i
<1>6. CASE k.uxSchedulerSuspended = 0
  <2> DEFINE r == SwitchIf(AsUrgent(u), a)
  <2>1. u \notin Terminated(i) \cup Waiting(i) \cup Pending(i)
    BY <1>3, <1>5 DEF Terminated
  <2>2. Sound(a) /\ Woken(i, a, {u}) /\ InPlace(i, a, {u})
    BY <2>1, <1>3, <1>5, MakeReadyKeeps
  <2> HIDE DEF a
  <2>3. Woken(k, a, {u})
    <3>1. /\ \A p \in Priority : ReadyAt(i, p) = ReadyAt(k, p)
          /\ Asleep(i) = Asleep(k) /\ Suspended(i) = Suspended(k)
          /\ Terminated(i) = Terminated(k)
      BY <1>5 DEF ReadyAt, Asleep, Delayed, Overflown, Suspended, Terminated
    <3>2. Waiting(a) = Waiting(k) \ {u} /\ Pending(a) = Pending(k) \ {u}
      BY <2>2, <1>5 DEF Woken
    <3>3. Steady(k, a) /\ i.uxPriority = k.uxPriority
      BY <2>2, <1>5 DEF Woken, Steady
    <3> QED
      BY <3>1, <3>2, <3>3, <2>2, <1>5 DEF Woken
  <2>4. a.uxMissedTicks = k.uxMissedTicks
    BY <2>2, <1>5 DEF InPlace, SameClock
  <2>5. Sound(r) /\ EventsAsleep(r) /\ Controlled(r, pc)
    BY <1>3, <2>2, <2>3, <2>4, WakeOneKeeps
  <2>6. k' = r
    BY <1>4, <1>6
  <2> QED
    BY <1>4, <2>5, <2>6 DEF IInv
<1>7. CASE k.uxSchedulerSuspended = 1
  <2> DEFINE r == SwitchIf(AsUrgent(u), b)
  <2>1. AsUrgent(u) \in BOOLEAN
    BY DEF AsUrgent
  <2>2. u \notin Waiting(i) \cup Pending(i)
        /\ Waiting(i) \cup Pending(i) \subseteq Waiting(k) \cup Pending(k)
    BY <1>5
  <2>3. Sound(r) /\ EventsAsleep(r) /\ Controlled(r, pc)
    BY <2>1, <2>2, <1>3, <1>5, <1>7, PendKeeps
  <2>4. k' = r
    BY <1>4, <1>7
  <2> QED
    BY <1>4, <2>3, <2>4 DEF IInv
<1> QED
  BY <1>6, <1>7, IInvIs

(* The tick interrupt.                                                     *)
LEMMA TickKeepsIInv ==
  ASSUME IInv, vTick
  PROVE  IInv'
<1> DEFINE j == vTaskIncrementTick(k)
           r == SwitchIf(TRUE, j)
<1>1. k' = r /\ pc' = pc
  BY DEF vTick, SwitchIf
<1>2. CASE k.uxSchedulerSuspended = 0
  <2>1. /\ Sound(j) /\ j.uxMissedTicks = k.uxMissedTicks
        /\ \E W \in SUBSET Asleep(k) : Woken(k, j, W)
    BY <1>2, IInvIs, TickKeeps
  <2> HIDE DEF j
  <2>2. PICK W \in SUBSET Asleep(k) : Woken(k, j, W)
    BY <2>1
  <2>3. EventsAsleep(j)
    BY <2>2, IInvIs, WokenEvents
  <2>4. Exists(j, k.pxCurrentTCB)
    <3>1. W \in SUBSET (Asleep(k) \cup Suspended(k))
      OBVIOUS
    <3> QED
      BY <3>1, <2>1, <2>2, IInvIs, WokenExists DEF Controlled
  <2>5. /\ j.pxCurrentTCB = k.pxCurrentTCB
        /\ j.uxSchedulerSuspended = k.uxSchedulerSuspended
        /\ j.xMissedYield = k.xMissedYield
        /\ Terminated(j) = Terminated(k) /\ Pending(j) \subseteq Pending(k)
    BY <2>2 DEF Woken, Steady
  <2>6. k.uxSchedulerSuspended = 0 => Pending(j) = {} /\ j.uxMissedTicks = 0
    BY <2>1, <2>5, IInvIs DEF Controlled
  <2>7. Sound(r) /\ EventsAsleep(r) /\ Controlled(r, pc)
    BY <2>1, <2>3, <2>4, <2>5, <2>6, SwitchIfKeeps
  <2> QED
    BY <1>1, <2>7 DEF IInv
<1>3. CASE k.uxSchedulerSuspended = 1
  <2>1. k.uxMissedTicks < MaxMissed
    BY <1>3 DEF vTick
  <2>2. Sound(j) /\ SameLists(k, j) /\ Steady(k, j)
    BY <2>1, <1>3, IInvIs, MissedTickKeeps
  <2> HIDE DEF j
  <2>3. EventsAsleep(j) /\ Terminated(j) = Terminated(k)
    BY <2>2, IInvIs
       DEF SameLists, EventsAsleep, Waiting, Pending, Asleep, Delayed, Overflown,
           Suspended, Terminated
  <2>4. Exists(j, k.pxCurrentTCB)
    BY <2>2, IInvIs DEF Controlled, Exists, SameLists
  <2>5. Sound(r) /\ EventsAsleep(r) /\ Controlled(r, pc)
    <3>1. /\ j.pxCurrentTCB = k.pxCurrentTCB
          /\ j.uxSchedulerSuspended = k.uxSchedulerSuspended
          /\ j.xMissedYield = k.xMissedYield
      BY <2>2 DEF Steady
    <3>2. k.uxSchedulerSuspended = 0 => Pending(j) = {} /\ j.uxMissedTicks = 0
      BY <1>3
    <3> QED
      BY <2>2, <2>3, <2>4, <3>1, <3>2, SwitchIfKeeps
  <2> QED
    BY <1>1, <2>5 DEF IInv
<1> QED
  BY <1>2, <1>3, IInvIs

NotReady(r, t) == \A p \in Priority : t \notin ReadyAt(r, p)

WithPriority(r, u, q) == [r EXCEPT !.uxPriority[u] = q]

(* The priority of a task that is not ready is changed.                    *)
LEMMA PriorityKeeps ==
  ASSUME NEW r, Sound(r), NEW u \in Task, NEW q \in Priority, NotReady(r, u),
         NEW j, j = WithPriority(r, u, q)
  PROVE  /\ Sound(j) /\ SameMembers(r, j) /\ SameClock(r, j)
         /\ j.pxCurrentTCB = r.pxCurrentTCB /\ j.uxPriority = [r.uxPriority EXCEPT ![u] = q]
         /\ j.uxSchedulerSuspended = r.uxSchedulerSuspended
         /\ j.xMissedYield = r.xMissedYield /\ j.termination = r.termination
<1> DEFINE f == [r.uxPriority EXCEPT ![u] = q]
<1>1. r \in Kernel /\ Injective(r) /\ Apart(r) /\ Ranked(r) /\ InOrder(r)
  BY DEF Sound
<1>2. f \in [Tasks -> Priority] /\ \A t \in Tasks : t # u => f[t] = r.uxPriority[t]
  BY <1>1, KernelTypes
<1>3. j = [r EXCEPT !.uxPriority = f]
  BY DEF WithPriority
<1>4. f = [r.uxPriority EXCEPT ![u] = q]
  OBVIOUS
<1> HIDE DEF f
<1>5. /\ j \in Kernel /\ j.ready = r.ready /\ j.wake = r.wake
      /\ j.delayed = r.delayed /\ j.overflow = r.overflow
      /\ j.suspended = r.suspended /\ j.termination = r.termination
      /\ j.event = r.event /\ j.pending = r.pending
      /\ j.uxTopReadyPriority = r.uxTopReadyPriority
      /\ j.pxCurrentTCB = r.pxCurrentTCB /\ j.uxPriority = f
      /\ j.uxSchedulerSuspended = r.uxSchedulerSuspended
      /\ j.xMissedYield = r.xMissedYield
      /\ SameClock(r, j)
  BY <1>1, <1>2, <1>3 DEF Kernel, SameClock
<1>6. SameMembers(r, j)
  BY <1>5 DEF SameMembers, ReadyAt, Delayed, Overflown, Asleep, Suspended, Terminated,
              Waiting, Pending
<1>7. Injective(j)
  BY <1>1, <1>5 DEF Injective
<1>8. Apart(j)
  BY <1>1, <1>6 DEF Apart, SameMembers
<1>9. Ranked(j)
  <2>1. ASSUME NEW p \in Priority, NEW t \in ReadyAt(j, p)
        PROVE  j.uxPriority[t] = p
    <3>1. t \in ReadyAt(r, p) /\ t # u
      BY <1>6 DEF SameMembers, NotReady
    <3>2. t \in Tasks
      BY <3>1, <1>1, KernelTypes, MembersOf DEF ReadyAt
    <3> QED
      BY <3>1, <3>2, <1>1, <1>2, <1>5 DEF Ranked
  <2>2. Idle \in ReadyAt(j, 0)
    BY <1>1, <1>5 DEF Ranked, ReadyAt
  <2> QED
    BY <2>1, <2>2, <1>1, <1>5 DEF Ranked
<1>10. InOrder(j)
  BY <1>1, <1>5 DEF InOrder
<1> QED
  BY <1>4, <1>5, <1>6, <1>7, <1>8, <1>9, <1>10 DEF Sound

Shifted(r, u, q, j) ==
  /\ \A p \in Priority : ReadyAt(j, p) =
       IF u \in ReadyAt(r, r.uxPriority[u])
       THEN (ReadyAt(r, p) \ {u}) \cup (IF p = q THEN {u} ELSE {})
       ELSE ReadyAt(r, p)
  /\ Asleep(j) = Asleep(r) /\ Suspended(j) = Suspended(r)
  /\ Terminated(j) = Terminated(r)
  /\ Waiting(j) = Waiting(r) /\ Pending(j) = Pending(r)
  /\ j.pxCurrentTCB = r.pxCurrentTCB
  /\ j.uxPriority = [r.uxPriority EXCEPT ![u] = q]
  /\ j.uxSchedulerSuspended = r.uxSchedulerSuspended
  /\ j.xMissedYield = r.xMissedYield /\ j.uxMissedTicks = r.uxMissedTicks

(* A ready task is taken off its list and put on that of its new priority. *)
LEMMA ShiftKeeps ==
  ASSUME NEW r, Sound(r), NEW u \in Task, u \in ReadyAt(r, r.uxPriority[u]),
         NEW q \in Priority,
         NEW j, j = prvAddTaskToReadyQueue(WithPriority(RemoveGeneric(r, u), u, q), u)
  PROVE  Sound(j) /\ Shifted(r, u, q, j)
<1> DEFINE a == RemoveGeneric(r, u)
           b == WithPriority(a, u, q)
<1>1. r \in Kernel /\ u \in Tasks /\ r.uxPriority[u] \in Priority
  BY KernelTypes DEF Sound, Tasks
<1>2. j = prvAddTaskToReadyQueue(b, u)
  OBVIOUS
<1>3. /\ Sound(a) /\ Off(a, u)
      /\ \A p \in Priority : ReadyAt(a, p) = ReadyAt(r, p) \ {u}
      /\ Delayed(a) = Delayed(r) \ {u} /\ Overflown(a) = Overflown(r) \ {u}
      /\ Suspended(a) = Suspended(r) \ {u}
      /\ Terminated(a) = Terminated(r) \ {u}
      /\ Waiting(a) = Waiting(r) /\ Pending(a) = Pending(r)
      /\ a.event = r.event /\ a.pending = r.pending
      /\ a.wake = [r.wake EXCEPT ![u] = 0]
      /\ a.uxTopReadyPriority = r.uxTopReadyPriority
      /\ Steady(r, a) /\ SameClock(r, a)
  BY RemoveGenericKeeps
<1> HIDE DEF a
<1>4. /\ Sound(b) /\ SameMembers(a, b) /\ SameClock(a, b)
      /\ b.pxCurrentTCB = a.pxCurrentTCB /\ b.uxPriority = [a.uxPriority EXCEPT ![u] = q]
      /\ b.uxSchedulerSuspended = a.uxSchedulerSuspended
      /\ b.xMissedYield = a.xMissedYield /\ b.termination = a.termination
  <2>1. NotReady(a, u)
    BY <1>3 DEF Off, NotReady
  <2> QED
    BY <2>1, <1>3, PriorityKeeps
<1> HIDE DEF b
<1>5. b.uxPriority[u] = q
  <2>1. a.uxPriority \in [Tasks -> Priority]
    BY <1>3, KernelTypes DEF Sound
  <2> QED
    BY <2>1, <1>4, <1>1
<1>6. Off(b, u)
  BY <1>3, <1>4 DEF Off, SameMembers
<1>7. /\ Sound(j)
      /\ \A p \in Priority : ReadyAt(j, p) =
           ReadyAt(b, p) \cup (IF p = b.uxPriority[u] THEN {u} ELSE {})
      /\ j.delayed = b.delayed /\ j.overflow = b.overflow
      /\ j.suspended = b.suspended /\ j.termination = b.termination
      /\ j.event = b.event /\ j.pending = b.pending
      /\ j.wake = b.wake
      /\ Steady(b, j) /\ SameClock(b, j)
  BY <1>1, <1>2, <1>4, <1>6, AddReadyKeeps
<1>8. u \notin Asleep(r) /\ u \notin Suspended(r) /\ u \notin Terminated(r)
  BY <1>1 DEF Sound, Apart
<1>9. /\ Asleep(j) = Asleep(b) /\ Suspended(j) = Suspended(b)
      /\ Terminated(j) = Terminated(b)
      /\ Waiting(j) = Waiting(b) /\ Pending(j) = Pending(b)
  BY <1>7 DEF Asleep, Delayed, Overflown, Suspended, Terminated, Waiting, Pending
<1>10. /\ Asleep(a) = Asleep(r) /\ Suspended(a) = Suspended(r)
       /\ Terminated(a) = Terminated(r)
  BY <1>3, <1>8 DEF Asleep
<1>11. /\ Asleep(j) = Asleep(r) /\ Suspended(j) = Suspended(r)
       /\ Terminated(j) = Terminated(r)
       /\ Waiting(j) = Waiting(r) /\ Pending(j) = Pending(r)
  BY <1>3, <1>4, <1>9, <1>10 DEF SameMembers
<1>12. \A p \in Priority :
         ReadyAt(j, p) = (ReadyAt(r, p) \ {u}) \cup (IF p = q THEN {u} ELSE {})
  BY <1>3, <1>4, <1>5, <1>7 DEF SameMembers
<1>13. /\ j.pxCurrentTCB = r.pxCurrentTCB
       /\ j.uxPriority = [r.uxPriority EXCEPT ![u] = q]
       /\ j.uxSchedulerSuspended = r.uxSchedulerSuspended
       /\ j.xMissedYield = r.xMissedYield /\ j.uxMissedTicks = r.uxMissedTicks
  BY <1>3, <1>4, <1>7 DEF Steady, SameClock
<1> QED
  BY <1>7, <1>11, <1>12, <1>13 DEF Shifted

(* The order of the two assignments does not matter.                       *)
LEMMA RemovalCommutes ==
  ASSUME NEW r \in Kernel, NEW u, NEW q
  PROVE  RemoveGeneric(WithPriority(r, u, q), u) = WithPriority(RemoveGeneric(r, u), u, q)
<1> DEFINE x  == WithPriority(r, u, q)
           a  == RemoveGeneric(r, u)
           b  == WithPriority(a, u, q)
           f  == [r.uxPriority EXCEPT ![u] = q]
           rd == [p \in Priority |-> Without(r.ready[p], u)]
           dl == Without(r.delayed, u)
           ov == Without(r.overflow, u)
           su == Without(r.suspended, u)
           te == Without(r.termination, u)
           wa == [r.wake EXCEPT ![u] = 0]
<1>1. x = [r EXCEPT !.uxPriority = f]
  BY DEF WithPriority
<1>2. /\ x.ready = r.ready /\ x.delayed = r.delayed /\ x.overflow = r.overflow
      /\ x.suspended = r.suspended /\ x.termination = r.termination
      /\ x.wake = r.wake
  BY <1>1 DEF Kernel
<1>3. RemoveGeneric(x, u) =
        [x EXCEPT !.ready = rd, !.delayed = dl, !.overflow = ov,
                  !.suspended = su, !.termination = te, !.wake = wa]
  <2> HIDE DEF x
  <2> QED
    BY <1>2 DEF RemoveGeneric
<1>4. a = [r EXCEPT !.ready = rd, !.delayed = dl, !.overflow = ov,
                    !.suspended = su, !.termination = te, !.wake = wa]
  BY DEF RemoveGeneric
<1>5. a.uxPriority = r.uxPriority
  BY <1>4 DEF Kernel
<1>6. b = [a EXCEPT !.uxPriority = f]
  <2> HIDE DEF a
  <2> QED
    BY <1>5 DEF WithPriority
<1>7. RemoveGeneric(x, u) = b
  <2> HIDE DEF x, a, b, f, rd, dl, ov, su, te, wa
  <2> QED
    BY <1>1, <1>3, <1>4, <1>6 DEF Kernel
<1> QED
  BY <1>7

(* The priority of a task is changed, and its place among the ready ones.  *)
LEMMA ReprioritisedKeeps ==
  ASSUME IInv, NEW u \in Task, NEW q \in Priority
  PROVE  Sound(Reprioritised(u, q)) /\ Shifted(k, u, q, Reprioritised(u, q))
<1> DEFINE x == WithPriority(k, u, q)
           j == Reprioritised(u, q)
<1>1. k \in Kernel /\ Sound(k) /\ u \in Tasks
  BY IInvIs DEF Tasks
<1>2. k.uxPriority[u] \in Priority /\ k.ready[k.uxPriority[u]] \in Seq(Tasks)
  BY <1>1, KernelTypes
<1>3. Contains(k.ready[k.uxPriority[u]], u) <=> u \in ReadyAt(k, k.uxPriority[u])
  BY <1>2, MembersOf DEF ReadyAt
<1>4. \A p \in Priority : u \in ReadyAt(k, p) => p = k.uxPriority[u]
  BY <1>1 DEF Sound, Ranked
<1>5. CASE u \notin ReadyAt(k, k.uxPriority[u])
  <2>1. j = x
    BY <1>3, <1>5 DEF Reprioritised, WithPriority
  <2>2. NotReady(k, u)
    BY <1>4, <1>5 DEF NotReady
  <2> HIDE DEF j
  <2>3. /\ Sound(j) /\ SameMembers(k, j) /\ SameClock(k, j)
        /\ j.pxCurrentTCB = k.pxCurrentTCB /\ j.uxPriority = [k.uxPriority EXCEPT ![u] = q]
        /\ j.uxSchedulerSuspended = k.uxSchedulerSuspended
        /\ j.xMissedYield = k.xMissedYield /\ j.termination = k.termination
    BY <2>1, <2>2, <1>1, PriorityKeeps
  <2>4. Sound(j) /\ Shifted(k, u, q, j)
    BY <2>3, <1>5 DEF SameMembers, SameClock, Shifted
  <2> QED
    BY <2>4 DEF j
<1>6. CASE u \in ReadyAt(k, k.uxPriority[u])
  <2>1. j = prvAddTaskToReadyQueue(RemoveGeneric(x, u), u)
    BY <1>3, <1>6 DEF Reprioritised, WithPriority
  <2>2. RemoveGeneric(x, u) = WithPriority(RemoveGeneric(k, u), u, q)
    BY <1>1, RemovalCommutes
  <2> HIDE DEF j
  <2>3. j = prvAddTaskToReadyQueue(WithPriority(RemoveGeneric(k, u), u, q), u)
    BY <2>1, <2>2
  <2>4. Sound(j) /\ Shifted(k, u, q, j)
    BY <2>3, <1>1, <1>6, ShiftKeeps
  <2> QED
    BY <2>4 DEF j
<1> QED
  BY <1>5, <1>6

(* A priority is set, with a switch if that may make another task the most *)
(* urgent one.                                                             *)
LEMMA PrioritySetKeeps ==
  ASSUME IInv, NEW u \in Task, NEW p \in Priority, p # k.uxPriority[u],
         vTaskPrioritySet(u, p)
  PROVE  IInv'
<1> DEFINE j == Reprioritised(u, p)
           cur == k.pxCurrentTCB
           old == k.uxPriority[u]
           q == k.uxPriority[cur]
           yield == \/ p > old /\ u # cur
                    \/ p < old /\ u = cur
           r == SwitchIf(yield, j)
<1>1. k' = r /\ pc' = pc
  BY IInvIs, Staying DEF vTaskPrioritySet, Goto
<1>2. /\ Sound(j)
      /\ \A n \in Priority : ReadyAt(j, n) =
           IF u \in ReadyAt(k, old)
           THEN (ReadyAt(k, n) \ {u}) \cup (IF n = p THEN {u} ELSE {})
           ELSE ReadyAt(k, n)
      /\ Asleep(j) = Asleep(k) /\ Suspended(j) = Suspended(k)
      /\ Terminated(j) = Terminated(k)
      /\ Waiting(j) = Waiting(k) /\ Pending(j) = Pending(k)
      /\ j.pxCurrentTCB = cur
      /\ j.uxPriority = [k.uxPriority EXCEPT ![u] = p]
      /\ j.uxSchedulerSuspended = k.uxSchedulerSuspended
      /\ j.xMissedYield = k.xMissedYield /\ j.uxMissedTicks = k.uxMissedTicks
  <2> HIDE DEF j
  <2>1. Sound(j) /\ Shifted(k, u, p, j)
    BY ReprioritisedKeeps DEF j
  <2> QED
    BY <2>1 DEF Shifted
<1> HIDE DEF j
<1>3. /\ k \in Kernel /\ Sound(k) /\ u \in Tasks /\ cur \in Tasks
      /\ k.uxPriority \in [Tasks -> Priority]
      /\ old \in Priority /\ q \in Priority /\ Priority \subseteq Int
  BY IInvIs, KernelTypes, FreeRTOSAssumption DEF Priority
<1>4. EventsAsleep(j)
  BY <1>2, IInvIs DEF EventsAsleep
<1>5. Exists(j, cur)
  <2>1. \/ \E n \in Priority : cur \in ReadyAt(k, n)
        \/ cur \in Asleep(k) \cup Suspended(k) \cup Terminated(k)
    BY IInvIs, ExistsIs DEF Controlled
  <2>2. j \in Kernel
    BY <1>2 DEF Sound
  <2>3. ASSUME NEW n \in Priority, cur \in ReadyAt(k, n)
        PROVE  \E m \in Priority : cur \in ReadyAt(j, m)
    <3>1. CASE cur = u /\ u \in ReadyAt(k, old)
      BY <3>1, <1>2
    <3>2. CASE ~ (cur = u /\ u \in ReadyAt(k, old))
      BY <3>2, <2>3, <1>2
    <3> QED
      BY <3>1, <3>2
  <2> QED
    BY <2>1, <2>2, <2>3, <1>2, ExistsIs
<1>6. yield \/ (Urgent(k, cur) => Urgent(j, cur))
  <2> SUFFICES ASSUME ~ yield, Urgent(k, cur)
               PROVE  Urgent(j, cur)
    OBVIOUS
  <2>1. cur \in ReadyAt(k, q) /\ \A n \in Priority : n > q => ReadyAt(k, n) = {}
    BY DEF Urgent
  <2>2. CASE u = cur
    <3>1. p > old /\ q = old
      <4>1. q = old /\ ~ (p < old) /\ p # old
        BY <2>2
      <4> HIDE DEF old, q
      <4>2. p \in Int /\ old \in Int
        BY <1>3
      <4> QED
        BY <4>1, <4>2
    <3>2. j.uxPriority[cur] = p
      BY <2>2, <1>2, <1>3
    <3>3. u \in ReadyAt(k, old)
      BY <2>1, <2>2
    <3>4. cur \in ReadyAt(j, p)
      BY <2>2, <3>3, <1>2
    <3> HIDE DEF old, q
    <3>5. ASSUME NEW n \in Priority, n > p
          PROVE  n > q /\ n # p
      <4>1. n \in Int /\ p \in Int /\ q \in Int /\ p > q
        BY <3>1, <1>3
      <4> QED
        BY <4>1, <3>5
    <3>6. \A n \in Priority : n > p => ReadyAt(j, n) = {}
      BY <3>3, <3>5, <2>1, <1>2
    <3> QED
      BY <3>2, <3>4, <3>6 DEF Urgent
  <2>3. CASE u # cur
    <3>1. p < old
      <4>1. ~ (p > old) /\ p # old
        BY <2>3
      <4> HIDE DEF old
      <4>2. p \in Int /\ old \in Int
        BY <1>3
      <4> QED
        BY <4>1, <4>2
    <3>2. j.uxPriority[cur] = q
      BY <2>3, <1>2, <1>3
    <3>3. cur \in ReadyAt(j, q)
      BY <2>1, <2>3, <1>2, <1>3
    <3>4. ASSUME NEW n \in Priority, n > q
          PROVE  ReadyAt(j, n) = {}
      <4>1. ReadyAt(k, n) = {}
        BY <2>1, <3>4
      <4>2. CASE u \in ReadyAt(k, old)
        <5>1. ~ (old > q)
          BY <4>2, <2>1, <1>3
        <5> HIDE DEF old, q
        <5>2. n # p
          BY <5>1, <3>1, <3>4, <1>3
        <5> QED
          BY <5>2, <4>1, <4>2, <1>2
      <4>3. CASE u \notin ReadyAt(k, old)
        BY <4>1, <4>3, <1>2
      <4> QED
        BY <4>2, <4>3
    <3> QED
      BY <3>2, <3>3, <3>4 DEF Urgent
  <2> QED
    BY <2>2, <2>3
<1>7. yield \in BOOLEAN
  OBVIOUS
<1> HIDE DEF yield
<1>8. k.uxSchedulerSuspended = 0 => Pending(j) = {} /\ j.uxMissedTicks = 0
  BY <1>2, IInvIs DEF Controlled
<1>9. Sound(r) /\ EventsAsleep(r) /\ Controlled(r, pc)
  BY <1>2, <1>4, <1>5, <1>6, <1>7, <1>8, SwitchIfKeeps
<1> QED
  BY <1>1, <1>9 DEF IInv

(* To go to another place is to leave all others where they are.           *)
LEMMA Going ==
  ASSUME IInv, NEW w \in PCs, NEW f, f = [pc EXCEPT ![k.pxCurrentTCB] = w]
  PROVE  /\ f \in [Tasks -> PCs] /\ f[k.pxCurrentTCB] = w
         /\ \A t \in Tasks : t # k.pxCurrentTCB => f[t] = pc[t]
BY IInvIs

(* While the scheduler works, nobody is in a call and nothing is put off.  *)
LEMMA Working ==
  ASSUME IInv, pc[k.pxCurrentTCB] \notin InCall
  PROVE  /\ k.uxSchedulerSuspended = 0
         /\ \A t \in Tasks : pc[t] \notin InCall
         /\ Pending(k) = {} /\ ~ k.xMissedYield /\ k.uxMissedTicks = 0
         /\ pc[k.pxCurrentTCB] # "yield" => Urgent(k, k.pxCurrentTCB)
         /\ pc[Idle] # "yield" /\ \A t \in Task : pc[t] \notin {"reap", "share"}
         /\ pc[Idle] = "reap" => Terminated(k) # {}
         /\ Exists(k, k.pxCurrentTCB)
BY IInvIs DEF Controlled

(* A running task goes on, with the scheduler working.                     *)
LEMMA GoingOn ==
  ASSUME IInv, NEW w \in {"run", "yield", "share"},
         w = "yield" => k.pxCurrentTCB # Idle, w = "share" => k.pxCurrentTCB = Idle,
         NEW j, Sound(j), Pending(j) = {}, ~ j.xMissedYield,
         j.uxMissedTicks = 0, j.uxSchedulerSuspended = 0,
         \A t \in Tasks : t # k.pxCurrentTCB => pc[t] \notin InCall,
         k.pxCurrentTCB # Idle /\ Terminated(k) # {} => Terminated(j) # {},
         \/ Urgent(j, j.pxCurrentTCB)
         \/ j.pxCurrentTCB = k.pxCurrentTCB /\ w = "yield" /\ Exists(j, j.pxCurrentTCB),
         NEW f, f = [pc EXCEPT ![k.pxCurrentTCB] = w]
  PROVE  Controlled(j, f)
<1> DEFINE cur == k.pxCurrentTCB
<1>1. w \in PCs /\ w \notin InCall
  BY DEF PCs, InCall
<1>2. /\ f \in [Tasks -> PCs] /\ f[cur] = w
      /\ \A t \in Tasks : t # cur => f[t] = pc[t]
  BY <1>1, IInvIs
<1>3. /\ pc[Idle] # "yield" /\ \A t \in Task : pc[t] \notin {"reap", "share"}
      /\ pc[Idle] = "reap" => Terminated(k) # {}
      /\ Idle \in Tasks /\ cur \in Tasks /\ Task \subseteq Tasks /\ Idle \notin Task
  BY IInvIs, FreeRTOSAssumption DEF Controlled
<1>4. \A t \in Tasks : f[t] \notin InCall
  BY <1>1, <1>2
<1>5. f[Idle] # "yield"
  BY <1>2, <1>3
<1>6. \A t \in Task : f[t] \notin {"reap", "share"}
  BY <1>2, <1>3
<1>7. f[Idle] = "reap" => Terminated(j) # {}
  BY <1>2, <1>3
<1>8. \/ Urgent(j, j.pxCurrentTCB)
      \/ f[j.pxCurrentTCB] = "yield" /\ Exists(j, j.pxCurrentTCB)
  BY <1>2
<1> QED
  BY <1>2, <1>4, <1>5, <1>6, <1>7, <1>8, WorksControlled

(* The running task enters a call, and the scheduler is suspended.         *)
LEMMA Entering ==
  ASSUME IInv, k.uxSchedulerSuspended = 0, NEW w \in InCall,
         w = "locked" => k.pxCurrentTCB # Idle,
         NEW j, j.pxCurrentTCB = k.pxCurrentTCB, j.uxSchedulerSuspended = 1,
         Exists(j, k.pxCurrentTCB),
         Terminated(k) # {} => Terminated(j) # {},
         k.pxCurrentTCB = Idle => Terminated(j) # {},
         w = "locked" \/ k.pxCurrentTCB = Idle => Urgent(j, k.pxCurrentTCB),
         NEW f, f = [pc EXCEPT ![k.pxCurrentTCB] = w]
  PROVE  Controlled(j, f)
<1> DEFINE cur == k.pxCurrentTCB
<1>1. w \in PCs /\ w \in {"locked", "resume"}
  BY DEF PCs, InCall
<1>2. /\ f \in [Tasks -> PCs] /\ f[cur] = w
      /\ \A t \in Tasks : t # cur => f[t] = pc[t]
  BY <1>1, IInvIs
<1>3. /\ \A t \in Tasks : t # cur => pc[t] \notin InCall
      /\ pc[Idle] \notin {"locked", "yield"}
      /\ \A t \in Task : pc[t] \notin {"reap", "share"}
      /\ pc[Idle] \in {"resume", "reap"} => Terminated(k) # {}
      /\ Idle \in Tasks /\ cur \in Tasks /\ Task \subseteq Tasks /\ Idle \notin Task
  BY IInvIs, FreeRTOSAssumption DEF Controlled
<1>4. \A t \in Tasks : t # cur => f[t] \notin InCall
  BY <1>2, <1>3
<1>5. f[Idle] \notin {"locked", "yield"} /\ \A t \in Task : f[t] \notin {"reap", "share"}
  BY <1>1, <1>2, <1>3
<1>6. f[Idle] \in {"resume", "reap"} => Terminated(j) # {}
  BY <1>2, <1>3
<1>7. f[cur] \in InCall
  BY <1>2
<1>8. \/ f[cur] = "locked"
      \/ cur = Idle /\ f[cur] = "resume"
      => Urgent(j, cur)
  BY <1>2
<1> QED
  BY <1>2, <1>4, <1>5, <1>6, <1>7, <1>8 DEF Controlled

(* The end of a call in which the running task has put itself to sleep.    *)
LEMMA YieldKeeps ==
  ASSUME IInv, NEW t \in Task, portYIELD(t)
  PROVE  IInv'
<1> DEFINE r == vTaskSwitchContext(k)
           f == [pc EXCEPT ![k.pxCurrentTCB] = "run"]
<1>1. k' = r /\ pc' = f /\ k.pxCurrentTCB = t /\ pc[t] = "yield"
  BY DEF portYIELD, Goto
<1>2. "yield" \notin InCall
  BY DEF InCall
<1>3. /\ k.uxSchedulerSuspended = 0
      /\ \A u \in Tasks : pc[u] \notin InCall
      /\ Pending(k) = {} /\ ~ k.xMissedYield /\ k.uxMissedTicks = 0
  BY <1>1, <1>2, Working
<1>4. /\ Sound(r) /\ SameMembers(k, r) /\ Urgent(r, r.pxCurrentTCB)
      /\ r.uxSchedulerSuspended = 0 /\ r.xMissedYield = k.xMissedYield
      /\ SameClock(k, r)
  BY <1>3, IInvIs, SwitchKeeps
<1> HIDE DEF r
<1>5. EventsAsleep(r) /\ Pending(r) = {} /\ Terminated(r) = Terminated(k)
      /\ r.uxMissedTicks = 0 /\ ~ r.xMissedYield
  BY <1>3, <1>4, IInvIs DEF EventsAsleep, SameMembers, SameClock
<1>6. Controlled(r, f)
  BY <1>3, <1>4, <1>5, GoingOn
<1> QED
  BY <1>1, <1>4, <1>5, <1>6 DEF IInv

(* The end of a suspension of the scheduler.                               *)
LEMMA EndKeeps ==
  ASSUME IInv, NEW t \in Tasks, ResumeAll(t)
  PROVE  IInv'
<1> DEFINE res == xTaskResumeAll(k)
           w == CASE t = Idle -> "reap"
                  [] t # Idle /\ (pc[t] = "locked" \/ res.yielded) -> "run"
                  [] OTHER -> "yield"
           f == [pc EXCEPT ![k.pxCurrentTCB] = w]
<1>1. /\ k' = res.k /\ pc' = f
      /\ k.pxCurrentTCB = t /\ pc[t] \in InCall
  BY DEF ResumeAll, Goto, InCall
<1>2. /\ k.uxSchedulerSuspended = 1
      /\ \A u \in Tasks : u # t => pc[u] \notin InCall
      /\ pc[Idle] \notin {"locked", "yield"}
      /\ \A u \in Task : pc[u] \notin {"reap", "share"}
      /\ pc[Idle] \in {"resume", "reap"} => Terminated(k) # {}
      /\ Exists(k, t)
      /\ \/ pc[t] = "locked"
         \/ t = Idle /\ pc[t] = "resume"
         => k.xMissedYield \/ Urgent(k, t)
  BY <1>1, IInvIs DEF Controlled
<1>3. /\ res.yielded \in BOOLEAN
      /\ Sound(res.k) /\ EventsAsleep(res.k)
      /\ res.k.uxSchedulerSuspended = 0 /\ res.k.uxMissedTicks = 0
      /\ ~ res.k.xMissedYield /\ Pending(res.k) = {}
      /\ Terminated(res.k) = Terminated(k)
      /\ \A u : Exists(res.k, u) <=> Exists(k, u)
      /\ res.yielded => Urgent(res.k, res.k.pxCurrentTCB)
      /\ ~ res.yielded => /\ res.k.pxCurrentTCB = k.pxCurrentTCB
                          /\ ~ k.xMissedYield
                          /\ Urgent(k, k.pxCurrentTCB) =>
                               Urgent(res.k, k.pxCurrentTCB)
  BY <1>2, IInvIs, ResumeAllKeeps
<1> HIDE DEF res
<1>4. Idle \in Tasks /\ t \in Tasks /\ Task \subseteq Tasks /\ Idle \notin Task
  BY IInvIs, FreeRTOSAssumption
<1>5. CASE t = Idle
  <2>1. w = "reap"
    BY <1>5
  <2>2. f \in [Tasks -> PCs] /\ f[t] = "reap" /\ \A u \in Tasks : u # t => f[u] = pc[u]
    BY <2>1, <1>1, IInvIs DEF PCs
  <2>3. pc[t] = "resume"
    BY <1>1, <1>2, <1>5 DEF InCall
  <2>4. Urgent(res.k, res.k.pxCurrentTCB)
    BY <2>3, <1>1, <1>2, <1>3, <1>5
  <2>5. \A u \in Tasks : f[u] \notin InCall
    BY <2>2, <1>2 DEF InCall
  <2>6. /\ f[Idle] # "yield" /\ \A u \in Task : f[u] \notin {"reap", "share"}
        /\ Terminated(res.k) # {}
    BY <2>2, <2>3, <1>2, <1>3, <1>4, <1>5
  <2>7. Controlled(res.k, f)
    <3> HIDE DEF f
    <3> QED
      BY <2>2, <2>4, <2>5, <2>6, <1>3, WorksControlled
  <2> QED
    BY <2>7, <1>1, <1>3 DEF IInv
<1>6. CASE t # Idle
  <2>1. w \in {"run", "yield"} /\ (w = "yield" => pc[t] # "locked" /\ ~ res.yielded)
    BY <1>6
  <2>2. w = "run" => pc[t] = "locked" \/ res.yielded
    BY <1>6
  <2> HIDE DEF w
  <2>3. \/ Urgent(res.k, res.k.pxCurrentTCB)
        \/ /\ res.k.pxCurrentTCB = k.pxCurrentTCB /\ w = "yield"
           /\ Exists(res.k, res.k.pxCurrentTCB)
    BY <2>1, <2>2, <1>1, <1>2, <1>3
  <2>4. Controlled(res.k, f)
    BY <2>1, <2>3, <1>1, <1>2, <1>3, <1>6, GoingOn
  <2> QED
    BY <2>4, <1>1, <1>3 DEF IInv
<1> QED
  BY <1>5, <1>6

(* The scheduler is suspended.                                             *)
LEMMA SuspendAllKeeps ==
  ASSUME NEW r, Sound(r), r.uxSchedulerSuspended = 0, NEW j, j = vTaskSuspendAll(r)
  PROVE  /\ Sound(j) /\ SameLists(r, j) /\ SameClock(r, j)
         /\ j.pxCurrentTCB = r.pxCurrentTCB /\ j.xMissedYield = r.xMissedYield
         /\ j.uxSchedulerSuspended = 1
<1>1. j = [r EXCEPT !.uxSchedulerSuspended = r.uxSchedulerSuspended + 1]
  BY DEF vTaskSuspendAll
<1>2. /\ j \in Kernel /\ SameLists(r, j) /\ SameClock(r, j)
      /\ j.uxTopReadyPriority = r.uxTopReadyPriority
      /\ j.pxCurrentTCB = r.pxCurrentTCB /\ j.xMissedYield = r.xMissedYield
      /\ j.uxSchedulerSuspended = 1
  BY <1>1 DEF Sound, Kernel, SameLists, SameClock
<1> QED
  BY <1>2, SameListsKeep

(* The same, and what it leaves alone of the lists.                        *)
LEMMA Halted ==
  ASSUME IInv, k.uxSchedulerSuspended = 0, NEW i, i = vTaskSuspendAll(k)
  PROVE  /\ Sound(i) /\ EventsAsleep(i) /\ SameLists(k, i) /\ SameClock(k, i)
         /\ i.pxCurrentTCB = k.pxCurrentTCB /\ i.uxSchedulerSuspended = 1
         /\ \A p \in Priority : ReadyAt(i, p) = ReadyAt(k, p)
         /\ Asleep(i) = Asleep(k)
         /\ Suspended(i) = Suspended(k) /\ Terminated(i) = Terminated(k)
         /\ Waiting(i) = Waiting(k) /\ Pending(i) = Pending(k)
         /\ \A t : Exists(i, t) <=> Exists(k, t)
         /\ \A t : Urgent(k, t) => Urgent(i, t)
<1>1. /\ Sound(i) /\ SameLists(k, i) /\ SameClock(k, i)
      /\ i.pxCurrentTCB = k.pxCurrentTCB /\ i.xMissedYield = k.xMissedYield
      /\ i.uxSchedulerSuspended = 1
  BY IInvIs, SuspendAllKeeps
<1>2. /\ \A p \in Priority : ReadyAt(i, p) = ReadyAt(k, p)
      /\ Asleep(i) = Asleep(k)
      /\ Suspended(i) = Suspended(k) /\ Terminated(i) = Terminated(k)
      /\ Waiting(i) = Waiting(k) /\ Pending(i) = Pending(k)
  BY <1>1 DEF SameLists, ReadyAt, Asleep, Delayed, Overflown, Suspended, Terminated,
              Waiting, Pending
<1>3. EventsAsleep(i)
  BY <1>2, IInvIs DEF EventsAsleep
<1>4. \A t : Exists(i, t) <=> Exists(k, t)
  BY <1>1 DEF Exists, SameLists
<1>5. \A t : Urgent(k, t) => Urgent(i, t)
  BY <1>1 DEF Urgent, SameLists, ReadyAt
<1> QED
  BY <1>1, <1>2, <1>3, <1>4, <1>5

(* The running task puts itself to sleep in a call.                        *)
LEMMA SleepKeeps ==
  ASSUME IInv, k.uxSchedulerSuspended = 0, k.pxCurrentTCB \in Task,
         k.pxCurrentTCB \notin Terminated(k),
         NEW i, Sound(i), i.pxCurrentTCB = k.pxCurrentTCB, i.uxSchedulerSuspended = 1,
         Terminated(i) = Terminated(k),
         Waiting(i) \cup Pending(i) \subseteq Asleep(i) \cup Suspended(i) \cup {k.pxCurrentTCB},
         NEW time \in Ticks, NEW n, Sleep(i, time, n)
  PROVE  IInv'
<1> DEFINE t == k.pxCurrentTCB
           a == RemoveGeneric(i, t)
           j == prvAddCurrentTaskToDelayedList(a, time)
           f == [pc EXCEPT ![t] = "resume"]
<1>1. k' = j /\ pc' = f
  BY DEF Sleep
<1>2. /\ Sound(a) /\ Off(a, t)
      /\ \A p \in Priority : ReadyAt(a, p) = ReadyAt(i, p) \ {t}
      /\ Delayed(a) = Delayed(i) \ {t} /\ Overflown(a) = Overflown(i) \ {t}
      /\ Suspended(a) = Suspended(i) \ {t}
      /\ Terminated(a) = Terminated(i) \ {t}
      /\ Waiting(a) = Waiting(i) /\ Pending(a) = Pending(i)
      /\ a.event = i.event /\ a.pending = i.pending
      /\ a.wake = [i.wake EXCEPT ![t] = 0]
      /\ a.uxTopReadyPriority = i.uxTopReadyPriority
      /\ Steady(i, a) /\ SameClock(i, a)
  BY RemoveGenericKeeps
<1> HIDE DEF a
<1>3. a.pxCurrentTCB = t /\ a.uxSchedulerSuspended = 1
  BY <1>2 DEF Steady
<1>4. Off(a, a.pxCurrentTCB)
  BY <1>2, <1>3
<1>5. /\ Sound(j)
      /\ \A p \in Priority : ReadyAt(j, p) = ReadyAt(a, p)
      /\ Asleep(j) = Asleep(a) \cup {a.pxCurrentTCB}
      /\ Suspended(j) = Suspended(a) /\ Terminated(j) = Terminated(a)
      /\ Waiting(j) = Waiting(a) /\ Pending(j) = Pending(a)
      /\ j.pending = a.pending /\ j.termination = a.termination
      /\ Steady(a, j)
      /\ j.xTickCount = a.xTickCount /\ j.uxMissedTicks = a.uxMissedTicks
  BY <1>2, <1>4, DelayKeeps
<1> HIDE DEF j
<1>6. /\ Asleep(j) = (Asleep(i) \ {t}) \cup {t}
      /\ Suspended(j) = Suspended(i) \ {t} /\ Terminated(j) = Terminated(k)
      /\ j.pxCurrentTCB = t /\ j.uxSchedulerSuspended = 1
  BY <1>2, <1>3, <1>5 DEF Asleep, Steady
<1>7. EventsAsleep(j)
  BY <1>2, <1>5, <1>6 DEF EventsAsleep
<1>8. Exists(j, t)
  <2>1. j \in Kernel
    BY <1>5 DEF Sound
  <2> QED
    BY <2>1, <1>6, ExistsIs
<1>9. t # Idle
  BY FreeRTOSAssumption
<1>10. Controlled(j, f)
  <2>1. "resume" \in InCall /\ "resume" # "locked"
    BY DEF InCall
  <2> QED
    BY <2>1, <1>6, <1>8, <1>9, Entering
<1> QED
  BY <1>1, <1>5, <1>7, <1>10 DEF IInv

(* What is known of a task that makes a call.                              *)
LEMMA Running ==
  ASSUME IInv, NEW t \in Task, Runs(t)
  PROVE  /\ k.pxCurrentTCB = t /\ pc[t] = "run" /\ t # Idle /\ t \in Tasks
         /\ k.uxSchedulerSuspended = 0
         /\ \A u \in Tasks : pc[u] \notin InCall
         /\ Pending(k) = {} /\ ~ k.xMissedYield /\ k.uxMissedTicks = 0
         /\ Urgent(k, t) /\ Exists(k, t)
         /\ t \notin Asleep(k) \cup Suspended(k) \cup Terminated(k)
         /\ t \notin Waiting(k) \cup Pending(k)
<1>1. k.pxCurrentTCB = t /\ pc[t] = "run" /\ pc[t] \notin InCall /\ pc[t] # "yield"
  BY DEF Runs, InCall
<1>2. t # Idle /\ t \in Tasks
  BY FreeRTOSAssumption DEF Tasks
<1>3. /\ k.uxSchedulerSuspended = 0
      /\ \A u \in Tasks : pc[u] \notin InCall
      /\ Pending(k) = {} /\ ~ k.xMissedYield /\ k.uxMissedTicks = 0
      /\ Urgent(k, t) /\ Exists(k, t)
  BY <1>1, Working
<1>4. t \in ReadyAt(k, k.uxPriority[t]) /\ k.uxPriority[t] \in Priority
  BY <1>2, <1>3, IInvIs, KernelTypes DEF Urgent
<1>5. t \notin Asleep(k) \cup Suspended(k) \cup Terminated(k)
  BY <1>4, IInvIs DEF Sound, Apart
<1>6. t \notin Waiting(k) \cup Pending(k)
  BY <1>5, IInvIs DEF EventsAsleep
<1> QED
  BY <1>1, <1>2, <1>3, <1>5, <1>6

(* A tick n later is a tick.                                               *)
LEMMA LaterIsTick ==
  ASSUME NEW i \in Ticks, NEW n \in 0 .. MaxDelay
  PROVE  After(i, n) \in Ticks
<1>1. MaxDelay \in Nat
  BY FreeRTOSAssumption
<1> QED
  BY <1>1 DEF After, Ticks

(* The running task yields, its kernel variables being as they were.       *)
LEMMA GiveWayKeeps ==
  ASSUME IInv, NEW t \in Task, Runs(t), Goto(k, "yield")
  PROVE  IInv'
<1> DEFINE f == [pc EXCEPT ![k.pxCurrentTCB] = "yield"]
<1>1. k' = k /\ pc' = f
  BY DEF Goto
<1>2. Controlled(k, f)
  BY Running, IInvIs, GoingOn
<1> QED
  BY <1>1, <1>2, IInvIs DEF IInv

(* The running task suspends the scheduler, in a call or of its own.       *)
LEMMA LockKeeps ==
  ASSUME IInv, NEW t \in Task, Runs(t), NEW w \in InCall, Goto(vTaskSuspendAll(k), w)
  PROVE  IInv'
<1> DEFINE j == vTaskSuspendAll(k)
           f == [pc EXCEPT ![k.pxCurrentTCB] = w]
<1>1. k' = j /\ pc' = f
  BY DEF Goto
<1>2. /\ Sound(j) /\ EventsAsleep(j)
      /\ j.pxCurrentTCB = k.pxCurrentTCB /\ j.uxSchedulerSuspended = 1
      /\ Terminated(j) = Terminated(k)
      /\ \A u : Exists(j, u) <=> Exists(k, u)
      /\ \A u : Urgent(k, u) => Urgent(j, u)
  BY Running, Halted
<1> HIDE DEF j
<1>3. Controlled(j, f)
  BY <1>2, Running, Entering
<1> QED
  BY <1>1, <1>2, <1>3 DEF IInv

(* A delay from now.                                                       *)
LEMMA DelayCallKeeps ==
  ASSUME IInv, NEW t \in Task, Runs(t), NEW n \in 0 .. MaxDelay, vTaskDelay(n)
  PROVE  IInv'
<1> DEFINE i == vTaskSuspendAll(k)
           time == After(k.xTickCount, n)
<1>1. CASE n > 0 /\ Sleep(i, time, n)
  <2>1. time \in Ticks
    BY IInvIs, KernelTypes, LaterIsTick
  <2>2. /\ Sound(i) /\ EventsAsleep(i)
        /\ i.pxCurrentTCB = k.pxCurrentTCB /\ i.uxSchedulerSuspended = 1
        /\ Terminated(i) = Terminated(k)
    BY Running, Halted
  <2> HIDE DEF i, time
  <2> QED
    BY <1>1, <2>1, <2>2, Running, SleepKeeps DEF EventsAsleep
<1>2. CASE n = 0 /\ Goto(k, "yield")
  BY <1>2, GiveWayKeeps
<1> QED
  BY <1>1, <1>2 DEF vTaskDelay

(* A delay from the task's previous wake-up.                               *)
LEMMA DelayUntilCallKeeps ==
  ASSUME IInv, NEW t \in Task, Runs(t), NEW last \in Ticks, NEW inc \in 1 .. MaxDelay,
         vTaskDelayUntil(last, inc)
  PROVE  IInv'
<1> DEFINE i == vTaskSuspendAll(k)
           time == After(last, inc)
           n == inc - Since(k.xTickCount, last)
<1>1. CASE Sleep(i, time, n)
  <2>1. time \in Ticks
    BY LaterIsTick
  <2>2. /\ Sound(i) /\ EventsAsleep(i)
        /\ i.pxCurrentTCB = k.pxCurrentTCB /\ i.uxSchedulerSuspended = 1
        /\ Terminated(i) = Terminated(k)
    BY Running, Halted
  <2> HIDE DEF i, time, n
  <2> QED
    BY <1>1, <2>1, <2>2, Running, SleepKeeps DEF EventsAsleep
<1>2. CASE Goto(i, "resume")
  BY <1>2, LockKeeps DEF InCall
<1> QED
  BY <1>1, <1>2 DEF vTaskDelayUntil

(* The running task begins to wait for an event, for some ticks or for     *)
(* ever.                                                                   *)
LEMMA PlaceCallKeeps ==
  ASSUME IInv, NEW t \in Task, Runs(t), NEW n \in 1 .. MaxDelay, vTaskPlaceOnEventList(n)
  PROVE  IInv'
<1> DEFINE h == vTaskSuspendAll(k)
           v == [u \in Tasks |-> Priorities - k.uxPriority[u]]
           i == [h EXCEPT !.event = vListInsert(@, t, v)]
           a == RemoveGeneric(i, t)
           j == [a EXCEPT !.suspended = Append(@, t)]
           f == [pc EXCEPT ![k.pxCurrentTCB] = "resume"]
           time == After(k.xTickCount, n)
<1>1. /\ k.pxCurrentTCB = t /\ t # Idle /\ t \in Tasks /\ k.uxSchedulerSuspended = 0
      /\ t \notin Waiting(k) \cup Pending(k) /\ t \notin Terminated(k)
  BY Running
<1>2. /\ Sound(h) /\ EventsAsleep(h)
      /\ h.pxCurrentTCB = t /\ h.uxSchedulerSuspended = 1
      /\ Asleep(h) = Asleep(k)
      /\ Suspended(h) = Suspended(k) /\ Terminated(h) = Terminated(k)
      /\ Waiting(h) = Waiting(k) /\ Pending(h) = Pending(k)
  BY <1>1, Halted
<1>3. v \in [Tasks -> Int]
  <2>1. \A u \in Tasks : k.uxPriority[u] \in Int
    BY IInvIs, KernelTypes, FreeRTOSAssumption DEF Priority
  <2> QED
    BY <2>1, FreeRTOSAssumption
<1>4. vTaskPlaceOnEventList(n) <=>
        \/ n = MaxDelay /\ Goto(j, "resume")
        \/ n < MaxDelay /\ Sleep(i, time, n)
  BY <1>1 DEF vTaskPlaceOnEventList
<1> HIDE DEF h, v
<1>5. /\ Sound(i)
      /\ i.ready = h.ready /\ i.delayed = h.delayed /\ i.overflow = h.overflow
      /\ i.suspended = h.suspended /\ i.termination = h.termination
      /\ i.wake = h.wake
      /\ Waiting(i) \cup Pending(i) = Waiting(h) \cup Pending(h) \cup {t}
      /\ Steady(h, i) /\ SameClock(h, i)
  <2> DEFINE x == [h EXCEPT !.event = vListInsert(@, t, v)]
  <2>1. \/ x = [h EXCEPT !.event = vListInsert(@, t, v)]
        \/ x = [h EXCEPT !.pending = Append(@, t)]
    OBVIOUS
  <2> HIDE DEF x
  <2>2. /\ Sound(x)
        /\ x.ready = h.ready /\ x.delayed = h.delayed /\ x.overflow = h.overflow
        /\ x.suspended = h.suspended /\ x.termination = h.termination
        /\ x.wake = h.wake
        /\ Waiting(x) \cup Pending(x) = Waiting(h) \cup Pending(h) \cup {t}
        /\ Steady(h, x) /\ SameClock(h, x)
    BY <2>1, <1>1, <1>2, <1>3, EventKeeps
  <2> QED
    BY <2>2 DEF x
<1> HIDE DEF i
<1>6. /\ i.pxCurrentTCB = t /\ i.uxSchedulerSuspended = 1
      /\ Asleep(i) = Asleep(k) /\ Suspended(i) = Suspended(k)
      /\ Terminated(i) = Terminated(k)
  BY <1>2, <1>5 DEF Steady, Asleep, Delayed, Overflown, Suspended, Terminated
<1>7. Waiting(i) \cup Pending(i) \subseteq Asleep(i) \cup Suspended(i) \cup {t}
  BY <1>2, <1>5, <1>6 DEF EventsAsleep
<1>8. CASE n < MaxDelay /\ Sleep(i, time, n)
  <2>1. time \in Ticks
    BY IInvIs, KernelTypes, LaterIsTick
  <2> HIDE DEF time
  <2> QED
    BY <1>8, <2>1, <1>1, <1>5, <1>6, <1>7, SleepKeeps
<1>9. CASE n = MaxDelay /\ Goto(j, "resume")
  <2>1. k' = j /\ pc' = f
    BY <1>9 DEF Goto
  <2>2. /\ Sound(a) /\ Off(a, t)
        /\ \A p \in Priority : ReadyAt(a, p) = ReadyAt(i, p) \ {t}
        /\ Delayed(a) = Delayed(i) \ {t} /\ Overflown(a) = Overflown(i) \ {t}
        /\ Suspended(a) = Suspended(i) \ {t}
        /\ Terminated(a) = Terminated(i) \ {t}
        /\ Waiting(a) = Waiting(i) /\ Pending(a) = Pending(i)
        /\ a.event = i.event /\ a.pending = i.pending
        /\ a.wake = [i.wake EXCEPT ![t] = 0]
        /\ a.uxTopReadyPriority = i.uxTopReadyPriority
        /\ Steady(i, a) /\ SameClock(i, a)
    BY <1>5, RemoveGenericKeeps
  <2> HIDE DEF a
  <2>3. j = [a EXCEPT !.suspended = Append(@, t)]
    OBVIOUS
  <2> HIDE DEF j
  <2>4. /\ Sound(j)
        /\ \A p \in Priority : ReadyAt(j, p) = ReadyAt(a, p)
        /\ Asleep(j) = Asleep(a)
        /\ Suspended(j) \cup Terminated(j) = Suspended(a) \cup Terminated(a) \cup {t}
        /\ Suspended(a) \subseteq Suspended(j)
        /\ j = [a EXCEPT !.suspended = Append(@, t)] => t \in Suspended(j)
        /\ Waiting(j) = Waiting(a) /\ Pending(j) = Pending(a)
        /\ j.pending = a.pending
        /\ a.termination # <<>> => j.termination # <<>>
        /\ Steady(a, j) /\ SameClock(a, j)
    BY <2>2, <2>3, <1>1, LayAsideKeeps
  <2>5. t \in Suspended(j) /\ Suspended(a) \subseteq Suspended(j)
    BY <2>3, <2>4
  <2>6. EventsAsleep(j)
    BY <2>2, <2>4, <2>5, <1>6, <1>7 DEF EventsAsleep, Asleep
  <2>7. j.pxCurrentTCB = t /\ j.uxSchedulerSuspended = 1
    BY <2>2, <2>4, <1>6 DEF Steady
  <2>8. Exists(j, t)
    <3>1. j \in Kernel
      BY <2>4 DEF Sound
    <3> QED
      BY <3>1, <2>5, ExistsIs
  <2>9. Terminated(k) # {} => Terminated(j) # {}
    <3>1. Terminated(a) = Terminated(k)
      BY <2>2, <1>1, <1>6
    <3>2. a.termination \in Seq(Tasks) /\ j.termination \in Seq(Tasks)
      BY <2>2, <2>4, KernelTypes DEF Sound
    <3> QED
      BY <3>1, <3>2, <2>4, MembersOf, EmptySeq DEF Terminated
  <2>10. Controlled(j, f)
    <3>1. "resume" \in InCall /\ "resume" # "locked"
      BY DEF InCall
    <3> QED
      BY <3>1, <2>7, <2>8, <2>9, <1>1, Entering
  <2> QED
    BY <2>1, <2>4, <2>6, <2>10 DEF IInv
<1> QED
  BY <1>4, <1>8, <1>9

(* A task is laid aside, suspended or deleted: if it is the running one,   *)
(* that one yields.                                                        *)
LEMMA AsideKeeps ==
  ASSUME IInv, NEW t \in Task, Runs(t), NEW u \in Task, Valid(u),
         vTaskSuspend(u) \/ vTaskDelete(u)
  PROVE  IInv'
<1> DEFINE a == RemoveGeneric(k, u)
           b == RemoveEvent(a, u)
           j == k'
           w == IF u = k.pxCurrentTCB THEN "yield" ELSE "run"
           f == [pc EXCEPT ![k.pxCurrentTCB] = w]
<1>1. /\ pc' = f
      /\ \/ j = [b EXCEPT !.suspended = Append(@, u)]
         \/ j = [b EXCEPT !.termination = Append(@, u)]
  BY DEF vTaskSuspend, vTaskDelete, Goto
<1>2. /\ k.pxCurrentTCB = t /\ t # Idle /\ k.uxSchedulerSuspended = 0 /\ u \in Tasks
      /\ \A x \in Tasks : pc[x] \notin InCall
      /\ Pending(k) = {} /\ ~ k.xMissedYield /\ k.uxMissedTicks = 0
      /\ Urgent(k, t)
  BY Running DEF Tasks
<1>3. /\ Sound(a) /\ Off(a, u)
      /\ \A p \in Priority : ReadyAt(a, p) = ReadyAt(k, p) \ {u}
      /\ Delayed(a) = Delayed(k) \ {u} /\ Overflown(a) = Overflown(k) \ {u}
      /\ Suspended(a) = Suspended(k) \ {u}
      /\ Terminated(a) = Terminated(k) \ {u}
      /\ Waiting(a) = Waiting(k) /\ Pending(a) = Pending(k)
      /\ a.event = k.event /\ a.pending = k.pending
      /\ a.wake = [k.wake EXCEPT ![u] = 0]
      /\ a.uxTopReadyPriority = k.uxTopReadyPriority
      /\ Steady(k, a) /\ SameClock(k, a)
  BY IInvIs, RemoveGenericKeeps
<1> HIDE DEF a
<1>4. /\ Sound(b)
      /\ b.ready = a.ready /\ b.delayed = a.delayed /\ b.overflow = a.overflow
      /\ b.suspended = a.suspended /\ b.termination = a.termination
      /\ b.wake = a.wake /\ b.uxTopReadyPriority = a.uxTopReadyPriority
      /\ Waiting(b) = Waiting(a) \ {u} /\ Pending(b) = Pending(a) \ {u}
      /\ b.event = Without(a.event, u) /\ b.pending = Without(a.pending, u)
      /\ Steady(a, b) /\ SameClock(a, b)
  BY <1>2, <1>3, RemoveEventKeeps
<1> HIDE DEF b
<1>5. Off(b, u)
  BY <1>3, <1>4 DEF Off, ReadyAt, Asleep, Delayed, Overflown, Suspended, Terminated
<1> HIDE DEF j
<1>6. /\ Sound(j)
      /\ \A p \in Priority : ReadyAt(j, p) = ReadyAt(b, p)
      /\ Asleep(j) = Asleep(b)
      /\ Suspended(j) \cup Terminated(j) = Suspended(b) \cup Terminated(b) \cup {u}
      /\ Suspended(b) \subseteq Suspended(j)
      /\ j = [b EXCEPT !.suspended = Append(@, u)] => u \in Suspended(j)
      /\ Waiting(j) = Waiting(b) /\ Pending(j) = Pending(b)
      /\ j.pending = b.pending
      /\ b.termination # <<>> => j.termination # <<>>
      /\ Steady(b, j) /\ SameClock(b, j)
  BY <1>1, <1>2, <1>4, <1>5, LayAsideKeeps
<1>7. /\ \A p \in Priority : ReadyAt(j, p) = ReadyAt(k, p) \ {u}
      /\ Asleep(j) = Asleep(k) \ {u}
      /\ Suspended(k) \ {u} \subseteq Suspended(j)
      /\ Waiting(j) = Waiting(k) \ {u} /\ Pending(j) = {}
  BY <1>2, <1>3, <1>4, <1>6, ZenonT(60) DEF ReadyAt, Asleep, Delayed, Overflown, Suspended
<1>8. EventsAsleep(j)
  BY <1>7, IInvIs DEF EventsAsleep
<1>9. /\ j.pxCurrentTCB = t /\ j.uxPriority = k.uxPriority
      /\ j.uxSchedulerSuspended = 0 /\ ~ j.xMissedYield /\ j.uxMissedTicks = 0
  BY <1>2, <1>3, <1>4, <1>6 DEF Steady, SameClock
<1>10. Terminated(k) # {} => Terminated(j) # {}
  <2>1. u \notin Terminated(k)
    BY IInvIs, KernelTypes, MembersOf DEF Valid, Terminated
  <2>2. Terminated(b) = Terminated(k)
    BY <2>1, <1>3, <1>4 DEF Terminated
  <2>3. b.termination \in Seq(Tasks) /\ j.termination \in Seq(Tasks)
    BY <1>4, <1>6, KernelTypes DEF Sound
  <2> QED
    BY <2>2, <2>3, <1>6, MembersOf, EmptySeq DEF Terminated
<1>11. CASE u = t
  <2>1. Exists(j, t)
    <3>1. j \in Kernel
      BY <1>6 DEF Sound
    <3> QED
      BY <3>1, <1>6, <1>11, ExistsIs
  <2>2. w = "yield"
    BY <1>2, <1>11
  <2> HIDE DEF w
  <2>3. Controlled(j, f)
    BY <2>1, <2>2, <1>2, <1>6, <1>7, <1>9, <1>10, GoingOn
  <2> QED
    BY <2>3, <1>1, <1>6, <1>8 DEF IInv, j
<1>12. CASE u # t
  <2>1. Urgent(j, t)
    <3>1. k.uxPriority[t] \in Priority
      BY IInvIs, KernelTypes
    <3> QED
      BY <3>1, <1>2, <1>7, <1>9, <1>12 DEF Urgent
  <2>2. w = "run"
    BY <1>2, <1>12
  <2> HIDE DEF w
  <2>3. Controlled(j, f)
    BY <2>1, <2>2, <1>2, <1>6, <1>7, <1>9, <1>10, GoingOn
  <2> QED
    BY <2>3, <1>1, <1>6, <1>8 DEF IInv, j
<1> QED
  BY <1>11, <1>12

(* A task that does not exist is created, ready.                           *)
LEMMA CreateKeeps ==
  ASSUME IInv, NEW t \in Task, Runs(t), NEW u \in Task, NEW p \in Priority,
         ~ Exists(k, u), xTaskGenericCreate(u, p)
  PROVE  IInv'
<1> DEFINE a == WithPriority(k, u, p)
           j == prvAddTaskToReadyQueue(a, u)
           w == IF k.uxPriority[k.pxCurrentTCB] < p THEN "yield" ELSE "run"
           g == [pc EXCEPT ![u] = "run"]
           f == [g EXCEPT ![k.pxCurrentTCB] = w]
<1>1. k' = j /\ pc' = f
  BY DEF xTaskGenericCreate, WithPriority
<1>2. /\ k.pxCurrentTCB = t /\ t # Idle /\ k.uxSchedulerSuspended = 0
      /\ u \in Tasks /\ t \in Tasks
      /\ \A x \in Tasks : pc[x] \notin InCall
      /\ Pending(k) = {} /\ ~ k.xMissedYield /\ k.uxMissedTicks = 0
      /\ Urgent(k, t) /\ Exists(k, t)
  BY Running DEF Tasks
<1>3. u # t
  BY <1>2
<1>4. Off(k, u)
  BY IInvIs, ExistsIs DEF Off
<1>5. NotReady(k, u)
  BY <1>4 DEF Off, NotReady
<1>6. /\ Sound(a) /\ SameMembers(k, a) /\ SameClock(k, a)
      /\ a.pxCurrentTCB = k.pxCurrentTCB /\ a.uxPriority = [k.uxPriority EXCEPT ![u] = p]
      /\ a.uxSchedulerSuspended = k.uxSchedulerSuspended
      /\ a.xMissedYield = k.xMissedYield /\ a.termination = k.termination
  BY <1>5, IInvIs, PriorityKeeps
<1> HIDE DEF a
<1>7. Off(a, u)
  BY <1>4, <1>6 DEF Off, SameMembers
<1>8. /\ Sound(j)
      /\ \A q \in Priority : ReadyAt(j, q) =
           ReadyAt(a, q) \cup (IF q = a.uxPriority[u] THEN {u} ELSE {})
      /\ j.delayed = a.delayed /\ j.overflow = a.overflow
      /\ j.suspended = a.suspended /\ j.termination = a.termination
      /\ j.event = a.event /\ j.pending = a.pending
      /\ j.wake = a.wake
      /\ Steady(a, j) /\ SameClock(a, j)
  BY <1>2, <1>6, <1>7, AddReadyKeeps
<1> HIDE DEF j
<1>9. /\ j.pxCurrentTCB = t /\ j.uxPriority = [k.uxPriority EXCEPT ![u] = p]
      /\ j.uxSchedulerSuspended = 0 /\ ~ j.xMissedYield /\ j.uxMissedTicks = 0
  BY <1>2, <1>6, <1>8 DEF Steady, SameClock
<1>10. /\ Asleep(j) = Asleep(k) /\ Suspended(j) = Suspended(k)
       /\ Terminated(j) = Terminated(k)
       /\ Waiting(j) = Waiting(k) /\ Pending(j) = Pending(k)
  <2>1. /\ Asleep(j) = Asleep(a) /\ Suspended(j) = Suspended(a)
        /\ Terminated(j) = Terminated(a)
        /\ Waiting(j) = Waiting(a) /\ Pending(j) = Pending(a)
    BY <1>8 DEF Asleep, Delayed, Overflown, Suspended, Terminated, Waiting, Pending
  <2> QED
    BY <2>1, <1>6 DEF SameMembers
<1>11. EventsAsleep(j)
  BY <1>10, IInvIs DEF EventsAsleep
<1>12. /\ k.uxPriority \in [Tasks -> Priority] /\ k.uxPriority[t] \in Priority
       /\ Priority \subseteq Int
  BY <1>2, IInvIs, KernelTypes, FreeRTOSAssumption DEF Priority
<1>13. j.uxPriority[t] = k.uxPriority[t] /\ a.uxPriority[u] = p
  BY <1>2, <1>3, <1>6, <1>9, <1>12
<1>14. \A q \in Priority : ReadyAt(j, q) = ReadyAt(k, q) \cup (IF q = p THEN {u} ELSE {})
  BY <1>6, <1>8, <1>13 DEF SameMembers
<1>15. \/ w = "yield" /\ Exists(j, t)
       \/ w = "run" /\ Urgent(j, t)
  <2>1. CASE k.uxPriority[t] < p
    <3>1. t \in ReadyAt(j, k.uxPriority[t])
      BY <1>2, <1>12, <1>14 DEF Urgent
    <3>2. Exists(j, t)
      <4>1. j \in Kernel
        BY <1>8 DEF Sound
      <4> QED
        BY <4>1, <3>1, <1>12, ExistsIs
    <3> QED
      BY <3>2, <2>1, <1>2
  <2>2. CASE ~ (k.uxPriority[t] < p)
    <3> DEFINE q == k.uxPriority[t]
    <3>1. /\ q \in Int /\ p \in Int /\ ~ (q < p) /\ q \in Priority
          /\ t \in ReadyAt(k, q) /\ \A n \in Priority : n > q => ReadyAt(k, n) = {}
      BY <2>2, <1>2, <1>12 DEF Urgent
    <3> HIDE DEF q
    <3>2. ASSUME NEW n \in Priority, n > q
          PROVE  ReadyAt(j, n) = {}
      <4>1. n # p
        BY <3>1, <3>2, <1>12
      <4> QED
        BY <4>1, <3>1, <3>2, <1>14
    <3>3. Urgent(j, t)
      BY <3>1, <3>2, <1>13, <1>14 DEF Urgent, q
    <3> QED
      BY <3>3, <2>2, <1>2
  <2> QED
    BY <2>1, <2>2
<1> HIDE DEF w
<1>16. /\ f \in [Tasks -> PCs] /\ f[t] = w
       /\ \A x \in Tasks : x # t => f[x] = pc[x] \/ f[x] = "run"
  <2>1. w \in PCs /\ "run" \in PCs
    BY <1>15 DEF PCs
  <2> QED
    BY <2>1, <1>2, IInvIs
<1> HIDE DEF f
<1>17. Controlled(j, f)
  <2>1. /\ pc[Idle] # "yield" /\ \A x \in Task : pc[x] \notin {"reap", "share"}
        /\ pc[Idle] = "reap" => Terminated(k) # {}
        /\ Idle \in Tasks /\ Task \subseteq Tasks
    BY IInvIs DEF Controlled
  <2>2. \A x \in Tasks : f[x] \notin InCall
    BY <1>2, <1>15, <1>16 DEF InCall
  <2>3. f[Idle] # "yield"
    BY <2>1, <1>2, <1>16
  <2>4. \A x \in Task : f[x] \notin {"reap", "share"}
    BY <2>1, <1>15, <1>16
  <2>5. f[Idle] = "reap" => Terminated(j) # {}
    BY <2>1, <1>2, <1>10, <1>16
  <2>6. Urgent(j, j.pxCurrentTCB) \/ (f[j.pxCurrentTCB] = "yield" /\ Exists(j, j.pxCurrentTCB))
    BY <1>9, <1>15, <1>16
  <2>7. Pending(j) = {}
    BY <1>2, <1>10
  <2> QED
    BY <2>2, <2>3, <2>4, <2>5, <2>6, <2>7, <1>8, <1>9, <1>16, WorksControlled
<1> QED
  BY <1>1, <1>8, <1>11, <1>17 DEF IInv, f

(* The idle task looks for deleted tasks and for others of its priority.   *)
LEMMA IdleKeeps ==
  ASSUME IInv, prvIdleTask
  PROVE  IInv'
<1>1. k.pxCurrentTCB = Idle /\ Idle \in Tasks /\ Idle \notin Task
  BY IInvIs, FreeRTOSAssumption DEF prvIdleTask
<1>2. k.termination \in Seq(Tasks) /\ IsInjective(k.termination)
  BY IInvIs, KernelTypes DEF Sound, Injective
<1>3. k.termination # <<>> <=> Terminated(k) # {}
  BY <1>2, MembersOf, EmptySeq DEF Terminated
<1>4. ASSUME pc[Idle] \notin InCall
      PROVE  /\ k.uxSchedulerSuspended = 0
             /\ \A t \in Tasks : pc[t] \notin InCall
             /\ Pending(k) = {} /\ ~ k.xMissedYield /\ k.uxMissedTicks = 0
             /\ Urgent(k, Idle) /\ Exists(k, Idle)
             /\ pc[Idle] = "reap" => Terminated(k) # {}
  BY <1>1, <1>4, Working, IInvIs DEF Controlled
<1>5. CASE pc[Idle] = "run" /\ k.termination # <<>> /\ Goto(vTaskSuspendAll(k), "resume")
  <2> DEFINE j == vTaskSuspendAll(k)
             f == [pc EXCEPT ![k.pxCurrentTCB] = "resume"]
  <2>1. k' = j /\ pc' = f /\ "resume" \in InCall /\ "resume" # "locked"
        /\ pc[Idle] \notin InCall
    BY <1>5 DEF Goto, InCall
  <2>2. /\ Sound(j) /\ EventsAsleep(j)
        /\ j.pxCurrentTCB = k.pxCurrentTCB /\ j.uxSchedulerSuspended = 1
        /\ Terminated(j) = Terminated(k)
        /\ \A u : Exists(j, u) <=> Exists(k, u)
        /\ \A u : Urgent(k, u) => Urgent(j, u)
    BY <2>1, <1>4, Halted
  <2> HIDE DEF j
  <2>3. Exists(j, Idle) /\ Urgent(j, Idle) /\ Terminated(j) # {}
    BY <2>1, <2>2, <1>3, <1>4, <1>5
  <2>4. Controlled(j, f)
    BY <2>1, <2>2, <2>3, <1>1, <1>4, Entering
  <2> QED
    BY <2>1, <2>2, <2>4 DEF IInv
<1>6. CASE pc[Idle] = "run" /\ k.termination = <<>> /\ Goto(k, "share")
  <2> DEFINE f == [pc EXCEPT ![k.pxCurrentTCB] = "share"]
  <2>1. k' = k /\ pc' = f /\ pc[Idle] \notin InCall
    BY <1>6 DEF Goto, InCall
  <2>2. Controlled(k, f)
    BY <2>1, <1>1, <1>4, IInvIs, GoingOn
  <2> QED
    BY <2>1, <2>2, IInvIs DEF IInv
<1>7. CASE pc[Idle] = "reap" /\ Goto([k EXCEPT !.termination = Tail(@)], "share")
  <2> DEFINE s == Tail(k.termination)
             j == [k EXCEPT !.termination = s]
             f == [pc EXCEPT ![k.pxCurrentTCB] = "share"]
  <2>1. k' = j /\ pc' = f /\ pc[Idle] \notin InCall
    BY <1>7 DEF Goto, InCall
  <2>2. s \in Seq(Tasks) /\ IsInjective(s) /\ ToSet(s) \subseteq Terminated(k)
    BY <2>1, <1>2, <1>3, <1>4, <1>7, TailIs DEF Terminated
  <2> HIDE DEF s
  <2>3. k \in Kernel /\ Injective(k) /\ Apart(k) /\ Ranked(k) /\ InOrder(k)
    BY IInvIs DEF Sound
  <2>4. /\ j \in Kernel /\ j.ready = k.ready /\ j.wake = k.wake
        /\ j.delayed = k.delayed /\ j.overflow = k.overflow
        /\ j.suspended = k.suspended /\ j.termination = s
        /\ j.event = k.event /\ j.pending = k.pending
        /\ j.uxTopReadyPriority = k.uxTopReadyPriority
        /\ Steady(k, j) /\ SameClock(k, j)
    BY <2>2, <2>3 DEF Kernel, Lists, Steady, SameClock
  <2> HIDE DEF j
  <2>5. /\ \A p \in Priority : ReadyAt(j, p) = ReadyAt(k, p)
        /\ Delayed(j) = Delayed(k) /\ Overflown(j) = Overflown(k)
        /\ Asleep(j) = Asleep(k) /\ Suspended(j) = Suspended(k)
        /\ Terminated(j) \subseteq Terminated(k)
        /\ Waiting(j) = Waiting(k) /\ Pending(j) = Pending(k)
    BY <2>2, <2>4 DEF ReadyAt, Asleep, Delayed, Overflown, Suspended, Terminated, Waiting,
                      Pending
  <2>6. Injective(j)
    BY <2>2, <2>3, <2>4 DEF Injective
  <2>7. Apart(j)
    BY <2>3, <2>5 DEF Apart
  <2>8. Ranked(j)
    BY <2>3, <2>4 DEF Ranked, ReadyAt, Steady
  <2>9. InOrder(j)
    BY <2>3, <2>4 DEF InOrder
  <2>10. Sound(j)
    BY <2>4, <2>6, <2>7, <2>8, <2>9 DEF Sound
  <2>11. EventsAsleep(j)
    BY <2>5, IInvIs DEF EventsAsleep
  <2>12. /\ j.pxCurrentTCB = Idle /\ j.uxPriority = k.uxPriority
         /\ j.uxSchedulerSuspended = 0 /\ ~ j.xMissedYield /\ j.uxMissedTicks = 0
         /\ Pending(j) = {}
    BY <2>1, <2>4, <2>5, <1>1, <1>4 DEF Steady, SameClock
  <2>13. Urgent(j, Idle)
    BY <2>1, <2>4, <2>12, <1>4 DEF Urgent, ReadyAt
  <2>14. Controlled(j, f)
    BY <2>1, <2>10, <2>12, <2>13, <1>1, <1>4, GoingOn
  <2> QED
    BY <2>1, <2>10, <2>11, <2>14 DEF IInv
<1>8. CASE pc[Idle] = "share" /\ Goto(SwitchIf(Len(k.ready[0]) > 1, k), "run")
  <2> DEFINE j == SwitchIf(Len(k.ready[0]) > 1, k)
             f == [pc EXCEPT ![k.pxCurrentTCB] = "run"]
  <2>1. k' = j /\ pc' = f /\ pc[Idle] \notin InCall
    BY <1>8 DEF Goto, InCall
  <2>2. /\ Sound(j) /\ EventsAsleep(j) /\ Urgent(j, j.pxCurrentTCB)
        /\ Pending(j) = {} /\ j.uxSchedulerSuspended = 0
        /\ ~ j.xMissedYield /\ j.uxMissedTicks = 0
    <3>1. CASE j = k
      BY <3>1, <2>1, <1>1, <1>4, IInvIs
    <3>2. CASE j = vTaskSwitchContext(k)
      <4> HIDE DEF j
      <4>1. /\ Sound(j) /\ SameMembers(k, j) /\ Urgent(j, j.pxCurrentTCB)
            /\ j.uxSchedulerSuspended = 0 /\ j.xMissedYield = k.xMissedYield
            /\ SameClock(k, j)
        BY <3>2, <2>1, <1>4, IInvIs, SwitchKeeps
      <4> QED
        BY <4>1, <2>1, <1>4, IInvIs DEF EventsAsleep, SameMembers, SameClock
    <3>3. j = k \/ j = vTaskSwitchContext(k)
      BY DEF SwitchIf
    <3> QED
      BY <3>1, <3>2, <3>3
  <2> HIDE DEF j
  <2>3. Controlled(j, f)
    BY <2>1, <2>2, <1>1, <1>4, GoingOn
  <2> QED
    BY <2>1, <2>2, <2>3 DEF IInv
<1> QED
  BY <1>5, <1>6, <1>7, <1>8 DEF prvIdleTask

-----------------------------------------------------------------------------
(* The start of the scheduler.                                             *)

(* A task is created before the scheduler starts.                          *)
Enlisted(r, t) ==
  [prvAddTaskToReadyQueue(r, t) EXCEPT
     !.pxCurrentTCB = IF r.uxPriority[t] >= r.uxPriority[@] THEN t ELSE @]

(* The tasks of C are there, ready, the last of the most urgent ones first *)
(* to run.                                                                 *)
Begun(r, C) ==
  /\ r \in Kernel
  /\ \A p \in Priority : /\ IsInjective(r.ready[p])
                         /\ ReadyAt(r, p) = {t \in C : r.uxPriority[t] = p}
                         /\ r.ready[p] # <<>> => p <= r.uxTopReadyPriority
  /\ r.delayed = <<>> /\ r.overflow = <<>> /\ r.suspended = <<>>
  /\ r.termination = <<>> /\ r.event = <<>> /\ r.pending = <<>>
  /\ r.uxSchedulerSuspended = 0 /\ r.uxMissedTicks = 0 /\ ~ r.xMissedYield
  /\ r.uxPriority[Idle] = 0 /\ \A t \in Task : r.uxPriority[t] = InitPriority[t]
  /\ r.wake = [t \in Tasks |-> 0]
  /\ r.xTickCount = 0 /\ r.xNextTaskUnblockTime = MaxDelay
  /\ C # {} => r.pxCurrentTCB \in C
  /\ \A t \in C : r.uxPriority[t] <= r.uxPriority[r.pxCurrentTCB]

(* What a creation does to the variables of the kernel.                    *)
LEMMA EnlistedIs ==
  ASSUME NEW r \in Kernel, NEW t \in Tasks, NEW j, j = Enlisted(r, t)
  PROVE  /\ j \in Kernel
         /\ j.ready = [r.ready EXCEPT ![r.uxPriority[t]] =
                         Append(r.ready[r.uxPriority[t]], t)]
         /\ j.uxTopReadyPriority = IF r.uxPriority[t] > r.uxTopReadyPriority
                                   THEN r.uxPriority[t] ELSE r.uxTopReadyPriority
         /\ j.pxCurrentTCB = IF r.uxPriority[t] >= r.uxPriority[r.pxCurrentTCB]
                             THEN t ELSE r.pxCurrentTCB
         /\ j.uxPriority = r.uxPriority
         /\ j.delayed = r.delayed /\ j.overflow = r.overflow
         /\ j.suspended = r.suspended /\ j.termination = r.termination
         /\ j.event = r.event /\ j.pending = r.pending
         /\ j.uxSchedulerSuspended = r.uxSchedulerSuspended
         /\ j.uxMissedTicks = r.uxMissedTicks /\ j.xMissedYield = r.xMissedYield
         /\ j.wake = r.wake /\ j.xTickCount = r.xTickCount
         /\ j.xNextTaskUnblockTime = r.xNextTaskUnblockTime
<1> DEFINE p == r.uxPriority[t]
           s == Append(r.ready[p], t)
           ready == [r.ready EXCEPT ![p] = s]
           top == IF p > r.uxTopReadyPriority THEN p ELSE r.uxTopReadyPriority
           cur == IF r.uxPriority[t] >= r.uxPriority[r.pxCurrentTCB] THEN t
                  ELSE r.pxCurrentTCB
           a == [r EXCEPT !.ready = ready, !.uxTopReadyPriority = top]
<1>1. /\ p \in Priority /\ r.ready \in [Priority -> Seq(Tasks)]
      /\ r.uxTopReadyPriority \in Priority /\ r.pxCurrentTCB \in Tasks
  BY KernelTypes
<1>2. s \in Seq(Tasks)
  BY <1>1, AppendProperties
<1>3. ready \in [Priority -> Seq(Tasks)] /\ top \in Priority /\ cur \in Tasks
  BY <1>1, <1>2
<1>4. prvAddTaskToReadyQueue(r, t) = a
  BY DEF prvAddTaskToReadyQueue
<1>5. a.pxCurrentTCB = r.pxCurrentTCB
  BY DEF Kernel
<1>6. j = [a EXCEPT !.pxCurrentTCB = cur]
  <2> HIDE DEF a
  <2> QED
    BY <1>4, <1>5 DEF Enlisted
<1>7. /\ j \in Kernel /\ j.ready = ready /\ j.uxTopReadyPriority = top
      /\ j.pxCurrentTCB = cur /\ j.uxPriority = r.uxPriority
      /\ j.delayed = r.delayed /\ j.overflow = r.overflow
      /\ j.suspended = r.suspended /\ j.termination = r.termination
      /\ j.event = r.event /\ j.pending = r.pending
      /\ j.uxSchedulerSuspended = r.uxSchedulerSuspended
      /\ j.uxMissedTicks = r.uxMissedTicks /\ j.xMissedYield = r.xMissedYield
      /\ j.wake = r.wake /\ j.xTickCount = r.xTickCount
      /\ j.xNextTaskUnblockTime = r.xNextTaskUnblockTime
  <2> HIDE DEF ready, top, cur
  <2> QED
    BY <1>3, <1>6 DEF Kernel, Lists
<1> QED
  BY <1>7

(* One more task is created.                                               *)
LEMMA EnlistedKeeps ==
  ASSUME NEW r, NEW C \in SUBSET Tasks, Begun(r, C),
         NEW t \in Tasks, t \notin C, C = {} => r.pxCurrentTCB = t,
         NEW j, j = Enlisted(r, t)
  PROVE  Begun(j, C \cup {t})
<1> DEFINE q == r.uxPriority[t]
           s == r.ready[q]
           cur == r.pxCurrentTCB
           top == r.uxTopReadyPriority
<1>1. /\ r \in Kernel /\ q \in Priority /\ r.ready \in [Priority -> Seq(Tasks)]
      /\ s \in Seq(Tasks) /\ top \in Priority /\ cur \in Tasks
      /\ r.uxPriority \in [Tasks -> Priority] /\ Priority \subseteq Int
  BY KernelTypes, FreeRTOSAssumption, SMTT(30) DEF Begun, Priority
<1>2. IsInjective(s) /\ t \notin ToSet(s)
  BY <1>1 DEF Begun, ReadyAt
<1>3. /\ Append(s, t) \in Seq(Tasks) /\ IsInjective(Append(s, t))
      /\ ToSet(Append(s, t)) = ToSet(s) \cup {t}
  BY <1>1, <1>2, AppendIs
<1>4. /\ j \in Kernel
      /\ j.ready = [r.ready EXCEPT ![q] = Append(s, t)]
      /\ j.uxTopReadyPriority = IF q > top THEN q ELSE top
      /\ j.pxCurrentTCB = IF q >= r.uxPriority[cur] THEN t ELSE cur
      /\ j.uxPriority = r.uxPriority
      /\ j.delayed = r.delayed /\ j.overflow = r.overflow
      /\ j.suspended = r.suspended /\ j.termination = r.termination
      /\ j.event = r.event /\ j.pending = r.pending
      /\ j.uxSchedulerSuspended = r.uxSchedulerSuspended
      /\ j.uxMissedTicks = r.uxMissedTicks /\ j.xMissedYield = r.xMissedYield
      /\ j.wake = r.wake /\ j.xTickCount = r.xTickCount
      /\ j.xNextTaskUnblockTime = r.xNextTaskUnblockTime
  BY <1>1, EnlistedIs
<1>5. ASSUME NEW p \in Priority
      PROVE  /\ IsInjective(j.ready[p])
             /\ ReadyAt(j, p) = {u \in C \cup {t} : j.uxPriority[u] = p}
             /\ j.ready[p] # <<>> => p <= j.uxTopReadyPriority
  <2>1. /\ IsInjective(r.ready[p])
        /\ ReadyAt(r, p) = {u \in C : r.uxPriority[u] = p}
        /\ r.ready[p] # <<>> => p <= top
    BY DEF Begun
  <2>2. p \in Int /\ q \in Int /\ top \in Int
    BY <1>1
  <2>3. CASE p = q
    <3>1. j.ready[p] = Append(s, t)
      BY <2>3, <1>1, <1>4
    <3>2. ReadyAt(j, p) = ReadyAt(r, p) \cup {t}
      BY <2>3, <3>1, <1>3 DEF ReadyAt
    <3>3. p <= j.uxTopReadyPriority
      <4> HIDE DEF q, top
      <4> QED
        BY <2>2, <2>3, <1>4
    <3> QED
      BY <2>1, <2>3, <3>1, <3>2, <3>3, <1>3, <1>4
  <2>4. CASE p # q
    <3>1. j.ready[p] = r.ready[p]
      BY <2>4, <1>1, <1>4
    <3>2. p <= top => p <= j.uxTopReadyPriority
      <4> HIDE DEF q, top
      <4> QED
        BY <2>2, <1>4
    <3>3. ReadyAt(j, p) = ReadyAt(r, p)
      BY <3>1 DEF ReadyAt
    <3> QED
      BY <2>1, <2>4, <3>1, <3>2, <3>3, <1>4
  <2> QED
    BY <2>3, <2>4
<1>6. /\ j.pxCurrentTCB \in C \cup {t}
      /\ \A u \in C \cup {t} : j.uxPriority[u] <= j.uxPriority[j.pxCurrentTCB]
  <2> DEFINE c == r.uxPriority[cur]
  <2>1. /\ C # {} => cur \in C
        /\ \A u \in C : r.uxPriority[u] <= c
    BY DEF Begun
  <2>2. q \in Int /\ c \in Int /\ \A u \in C : r.uxPriority[u] \in Int
    BY <1>1
  <2>3. CASE q >= c
    <3>1. j.pxCurrentTCB = t /\ j.uxPriority[t] = q
      BY <2>3, <1>4
    <3> HIDE DEF q, c
    <3>2. \A u \in C : r.uxPriority[u] <= q
      BY <2>1, <2>2, <2>3
    <3>3. j.uxPriority = r.uxPriority
      BY <1>4
    <3>4. \A u \in C \cup {t} : j.uxPriority[u] <= q
      <4>1. j.uxPriority[t] <= q
        BY <3>1, <2>2
      <4>2. \A u \in C : j.uxPriority[u] <= q
        BY <3>2, <3>3
      <4> QED
        BY <4>1, <4>2
    <3> QED
      BY <3>1, <3>4
  <2>4. CASE ~ (q >= c)
    <3>1. C # {}
      BY <2>2, <2>4
    <3>2. j.pxCurrentTCB = cur /\ cur \in C /\ j.uxPriority[cur] = c /\ r.uxPriority[t] = q
      BY <2>1, <2>4, <3>1, <1>4
    <3> HIDE DEF q, c
    <3>3. q <= c
      BY <2>2, <2>4
    <3> QED
      BY <3>2, <3>3, <2>1, <1>4
  <2> QED
    BY <2>3, <2>4
<1> QED
  BY <1>4, <1>5, <1>6, SMTT(30) DEF Begun

(* The tasks that exist when the scheduler starts.                         *)
LEMMA AllAre ==
  LET all == Append(Created, Idle)
  IN /\ all \in Seq(Tasks) /\ IsInjective(all) /\ Idle \in ToSet(all)
     /\ ToSet(all) = ToSet(Created) \cup {Idle} /\ Len(all) \in Nat \ {0}
<1> DEFINE all == Append(Created, Idle)
<1>1. Created \in Seq(Task) /\ IsInjective(Created) /\ Idle \notin Task
  BY FreeRTOSAssumption
<1>2. Created \in Seq(Tasks) /\ ToSet(Created) \subseteq Task /\ Idle \in Tasks
  <2>1. Len(Created) \in Nat /\ \A i \in 1 .. Len(Created) : Created[i] \in Tasks
    BY <1>1, LenProperties DEF Tasks
  <2>2. Created = [i \in 1 .. Len(Created) |-> Created[i]]
    BY <1>1, SeqDef
  <2>3. Created \in Seq(Tasks)
    BY <2>1, <2>2, SeqDef
  <2>4. ToSet(Created) \subseteq Task
    BY <1>1, MembersOf
  <2> QED
    BY <2>3, <2>4 DEF Tasks
<1>3. all \in Seq(Tasks) /\ IsInjective(all) /\ ToSet(all) = ToSet(Created) \cup {Idle}
  BY <1>1, <1>2, AppendIs
<1>4. Len(all) = Len(Created) + 1 /\ Len(Created) \in Nat
  BY <1>2, AppendProperties, LenProperties
<1> QED
  BY <1>3, <1>4

(* The state after vTaskStartScheduler.                                    *)
LEMMA StartedIs ==
  Begun(Started, ToSet(Append(Created, Idle)))
<1> DEFINE all == Append(Created, Idle)
           N == Len(all)
           priority == [t \in Tasks |-> IF t = Idle THEN 0 ELSE InitPriority[t]]
           none == [
             pxCurrentTCB |-> Head(all),
             uxPriority |-> [t \in Tasks |-> IF t = Idle THEN 0 ELSE InitPriority[t]],
             uxTopReadyPriority |-> 0,
             ready |-> [p \in Priority |-> <<>>], delayed |-> <<>>, overflow |-> <<>>,
             wake |-> [t \in Tasks |-> 0], suspended |-> <<>>, termination |-> <<>>,
             event |-> <<>>, pending |-> <<>>, xTickCount |-> 0,
             xNextTaskUnblockTime |-> MaxDelay, uxSchedulerSuspended |-> 0,
             uxMissedTicks |-> 0, xMissedYield |-> FALSE]
           Op == [y \in Kernel \X (1 .. N) |-> Enlisted(y[1], all[y[2]])]
           F == CHOOSE f : f = [n \in 0 .. N |->
                                  IF n = 0 THEN none ELSE Enlisted(f[n - 1], all[n])]
<1>1. Started = F[N]
  BY DEF Started, Enlisted
<1>2. all \in Seq(Tasks) /\ IsInjective(all) /\ Idle \in ToSet(all) /\ N \in Nat \ {0}
  BY AllAre
<1>3. /\ \A n \in 1 .. N : all[n] \in Tasks
      /\ \A m, n \in 1 .. N : all[m] = all[n] => m = n
      /\ Head(all) = all[1]
  <2> HIDE DEF all
  <2> QED
    BY <1>2, LenProperties, MembersOf, HeadTailProperties, EmptySeq
<1>4. /\ none \in Kernel
      /\ none.pxCurrentTCB = all[1] /\ none.ready = [p \in Priority |-> <<>>]
      /\ none.delayed = <<>> /\ none.overflow = <<>> /\ none.suspended = <<>>
      /\ none.termination = <<>> /\ none.event = <<>> /\ none.pending = <<>>
      /\ none.uxSchedulerSuspended = 0 /\ none.uxMissedTicks = 0 /\ ~ none.xMissedYield
      /\ none.uxPriority[Idle] = 0
      /\ \A t \in Task : none.uxPriority[t] = InitPriority[t]
      /\ none.wake = [t \in Tasks |-> 0]
      /\ none.xTickCount = 0 /\ none.xNextTaskUnblockTime = MaxDelay
  <2> HIDE DEF all
  <2>1. Head(all) \in Tasks
    BY <1>2, <1>3
  <2>2. /\ priority \in [Tasks -> Priority] /\ priority[Idle] = 0
        /\ \A t \in Task : priority[t] = InitPriority[t]
    BY FreeRTOSAssumption DEF Tasks, Priority
  <2>3. [p \in Priority |-> <<>>] \in [Priority -> Lists] /\ <<>> \in Lists
    BY DEF Lists
  <2>4. /\ 0 \in Priority /\ [t \in Tasks |-> 0] \in [Tasks -> Ticks]
        /\ 0 \in Ticks /\ MaxDelay \in Ticks /\ 0 \in 0 .. 1 /\ 0 \in 0 .. MaxMissed
    BY FreeRTOSAssumption DEF Priority, Ticks
  <2> QED
    BY <2>1, <2>2, <2>3, <2>4, <1>3 DEF Kernel
<1> HIDE DEF none
<1>5. Begun(none, {})
  <2>1. <<>> \in Seq(Tasks) /\ ToSet(<<>>) = {} /\ IsInjective(<<>>)
    BY DEF ToSet, IsInjective
  <2>2. \A p \in Priority : /\ IsInjective(none.ready[p])
                            /\ ReadyAt(none, p) = {}
                            /\ none.ready[p] = <<>>
    BY <2>1, <1>4 DEF ReadyAt
  <2> QED
    BY <2>2, <1>4 DEF Begun
<1>6. \A x \in Kernel, t \in Tasks : Enlisted(x, t) \in Kernel
  BY EnlistedIs
<1>7. Op \in [Kernel \X (1 .. N) -> Kernel]
  BY <1>3, <1>6
<1>8. \A x \in Kernel, n \in 1 .. N : Op[<<x, n>>] = Enlisted(x, all[n])
  OBVIOUS
<1> HIDE DEF Op, N
<1>9. PICK f : IsHistory(f, Kernel, N, none, Op)
  BY <1>2, <1>4, <1>7, HistoryExists
<1>10. f = [n \in 0 .. N |-> IF n = 0 THEN none ELSE Enlisted(f[n - 1], all[n])]
  <2>1. ASSUME NEW n \in 0 .. N
        PROVE  f[n] = IF n = 0 THEN none ELSE Enlisted(f[n - 1], all[n])
    <3>1. CASE n = 0
      BY <3>1, <1>9 DEF IsHistory
    <3>2. CASE n # 0
      <4>1. n \in 1 .. N /\ n - 1 \in 0 .. N
        BY <3>2, <1>2
      <4> QED
        BY <4>1, <3>2, <1>8, <1>9 DEF IsHistory
    <3> QED
      BY <3>1, <3>2
  <2> QED
    BY <2>1, <1>9 DEF IsHistory
<1>11. F = [n \in 0 .. N |-> IF n = 0 THEN none ELSE Enlisted(F[n - 1], all[n])]
  BY <1>10
<1> HIDE DEF F, all
<1>12. F[0] = none /\ \A n \in 1 .. N : F[n] = Enlisted(F[n - 1], all[n])
  <2>1. 0 \in 0 .. N /\ \A n \in 1 .. N : n \in 0 .. N /\ n # 0
    BY <1>2
  <2> QED
    BY <2>1, <1>11
<1> DEFINE First(n) == {all[i] : i \in 1 .. n}
           Good(n) == Begun(F[n], First(n)) /\ (n = 0 => F[n].pxCurrentTCB = all[1])
           G == {n \in 0 .. N : Good(n)}
<1>13. 0 \in G
  <2>1. First(0) = {} /\ 0 \in 0 .. N
    BY <1>2
  <2> HIDE DEF First
  <2> QED
    BY <2>1, <1>4, <1>5, <1>12
<1>14. ASSUME NEW m \in 1 .. N, m - 1 \in G
       PROVE  m \in G
  <2>1. m \in 0 .. N /\ m # 0 /\ Good(m - 1)
    BY <1>2, <1>14
  <2>2. First(m - 1) \in SUBSET Tasks /\ all[m] \in Tasks
    BY <1>2, <1>3
  <2>3. all[m] \notin First(m - 1)
    <3>1. \A i \in 1 .. m - 1 : i \in 1 .. N /\ i # m
      BY <1>2
    <3> QED
      BY <3>1, <1>3
  <2>4. First(m - 1) = {} => F[m - 1].pxCurrentTCB = all[m]
    <3>1. CASE m = 1
      BY <3>1, <2>1
    <3>2. CASE m # 1
      <4>1. 1 \in 1 .. m - 1
        BY <3>2
      <4> QED
        BY <4>1
    <3> QED
      BY <3>1, <3>2
  <2>5. First(m) = First(m - 1) \cup {all[m]}
    <3>1. \A i : i \in 1 .. m <=> i \in 1 .. m - 1 \/ i = m
      OBVIOUS
    <3> QED
      BY <3>1
  <2> HIDE DEF First
  <2>6. Begun(F[m], First(m - 1) \cup {all[m]})
    BY <2>1, <2>2, <2>3, <2>4, <1>12, EnlistedKeeps
  <2> QED
    BY <2>1, <2>5, <2>6
<1>15. Good(N)
  <2> HIDE DEF G
  <2>1. N \in Nat /\ N \in 0 .. N /\ \A m \in 1 .. N : m - 1 \in G => m \in G
    BY <1>2, <1>14
  <2>2. N \in G
    BY <2>1, <1>13, InductionUpTo
  <2> QED
    BY <2>2 DEF G
<1>16. First(N) = ToSet(all)
  BY <1>2, MembersOf DEF N
<1> QED
  BY <1>1, <1>15, <1>16 DEF all

(* The first state satisfies the invariant.                                *)
LEMMA InitKeeps ==
  ASSUME Init
  PROVE  IInv
<1> DEFINE C == ToSet(Append(Created, Idle))
<1>1. k = Started /\ pc = [t \in Tasks |-> "run"] /\ Begun(Started, C)
  BY StartedIs DEF Init
<1>2. Idle \in C /\ C \subseteq Tasks
  BY AllAre, MembersOf
<1> HIDE DEF C
<1>3. /\ k \in Kernel
      /\ \A p \in Priority : /\ IsInjective(k.ready[p])
                             /\ ReadyAt(k, p) = {t \in C : k.uxPriority[t] = p}
                             /\ k.ready[p] # <<>> => p <= k.uxTopReadyPriority
      /\ k.delayed = <<>> /\ k.overflow = <<>> /\ k.suspended = <<>>
      /\ k.termination = <<>> /\ k.event = <<>> /\ k.pending = <<>>
      /\ k.uxSchedulerSuspended = 0 /\ k.uxMissedTicks = 0 /\ ~ k.xMissedYield
      /\ k.uxPriority[Idle] = 0
      /\ k.pxCurrentTCB \in C
      /\ \A t \in C : k.uxPriority[t] <= k.uxPriority[k.pxCurrentTCB]
  BY <1>1, <1>2 DEF Begun
<1>4. ToSet(<<>>) = {} /\ IsInjective(<<>>)
  BY DEF ToSet, IsInjective
<1>5. /\ Delayed(k) = {} /\ Overflown(k) = {} /\ Asleep(k) = {}
      /\ Suspended(k) = {} /\ Terminated(k) = {} /\ Waiting(k) = {} /\ Pending(k) = {}
  BY <1>3, <1>4 DEF Delayed, Overflown, Asleep, Suspended, Terminated, Waiting, Pending
<1>6. 0 \in Priority /\ Priority \subseteq Int
  BY FreeRTOSAssumption DEF Priority
<1>7. Sound(k)
  <2>1. Injective(k)
    BY <1>3, <1>4 DEF Injective
  <2>2. Apart(k)
    BY <1>5 DEF Apart
  <2>3. Ranked(k)
    BY <1>2, <1>3, <1>6 DEF Ranked
  <2>4. InOrder(k)
    <3>1. Len(<<>>) = 0
      OBVIOUS
    <3> QED
      BY <3>1, <1>3 DEF InOrder, Sorted
  <2> QED
    BY <2>1, <2>2, <2>3, <2>4, <1>3 DEF Sound
<1>8. EventsAsleep(k)
  BY <1>5 DEF EventsAsleep
<1>9. Urgent(k, k.pxCurrentTCB)
  <2> DEFINE q == k.uxPriority[k.pxCurrentTCB]
  <2>1. /\ k.uxPriority \in [Tasks -> Priority]
        /\ q \in Priority /\ k.pxCurrentTCB \in ReadyAt(k, q)
    BY <1>2, <1>3, KernelTypes
  <2>2. ASSUME NEW p \in Priority, p > q
        PROVE  ReadyAt(k, p) = {}
    <3>1. \A t \in C : k.uxPriority[t] <= q /\ k.uxPriority[t] \in Int
      BY <2>1, <1>2, <1>3, <1>6
    <3>2. \A t \in C : k.uxPriority[t] # p
      <4>1. p \in Int /\ q \in Int
        BY <2>1, <1>6
      <4> HIDE DEF q
      <4> QED
        BY <4>1, <3>1, <2>2
    <3> QED
      BY <3>2, <1>3
  <2> QED
    BY <2>1, <2>2 DEF Urgent
<1>10. Controlled(k, pc)
  <2>1. pc \in [Tasks -> PCs] /\ \A t \in Tasks : pc[t] = "run"
    BY <1>1 DEF PCs
  <2>2. /\ \A t \in Tasks : pc[t] \notin InCall
        /\ pc[Idle] # "yield" /\ \A t \in Task : pc[t] \notin {"reap", "share"}
        /\ pc[Idle] # "reap"
    BY <2>1 DEF InCall, Tasks
  <2> QED
    BY <2>1, <2>2, <1>3, <1>5, <1>7, <1>9, WorksControlled
<1> QED
  BY <1>7, <1>8, <1>10 DEF IInv

-----------------------------------------------------------------------------
(* The theorems about the scheduler.                                       *)

(* Every step keeps the invariant.                                         *)
LEMMA NextKeeps ==
  ASSUME IInv, [Next]_vars
  PROVE  IInv'
<1>1. ASSUME NEW t \in Task, Call(t)
      PROVE  IInv'
  <2>1. Runs(t)
    BY <1>1 DEF Call
  <2>2. ASSUME NEW n \in 0 .. MaxDelay, vTaskDelay(n)
        PROVE  IInv'
    BY <2>1, <2>2, DelayCallKeeps
  <2>3. ASSUME NEW last \in Ticks, NEW inc \in 1 .. MaxDelay, vTaskDelayUntil(last, inc)
        PROVE  IInv'
    BY <2>1, <2>3, DelayUntilCallKeeps
  <2>4. ASSUME NEW n \in 1 .. MaxDelay, vTaskPlaceOnEventList(n)
        PROVE  IInv'
    BY <2>1, <2>4, PlaceCallKeeps
  <2>5. CASE Goto(vTaskSuspendAll(k), "locked")
    BY <2>1, <2>5, LockKeeps DEF InCall
  <2>6. ASSUME NEW u \in Task, Valid(u), vTaskSuspend(u) \/ vTaskDelete(u)
        PROVE  IInv'
    BY <2>1, <2>6, AsideKeeps
  <2>7. ASSUME NEW u \in Task, NEW p \in Priority, ~ Exists(k, u), xTaskGenericCreate(u, p)
        PROVE  IInv'
    BY <2>1, <2>7, CreateKeeps
  <2> QED
    BY <1>1, <2>2, <2>3, <2>4, <2>5, <2>6, <2>7 DEF Call
<1>2. ASSUME NEW t \in Task, CallLocked(t)
      PROVE  IInv'
  <2>1. PICK u \in Task : vTaskResume(u) \/ \E p \in Priority \ {k.uxPriority[u]} :
                                              vTaskPrioritySet(u, p)
    BY <1>2 DEF CallLocked
  <2>2. CASE vTaskResume(u)
    BY <2>2, ResumeKeeps
  <2>3. ASSUME NEW p \in Priority \ {k.uxPriority[u]}, vTaskPrioritySet(u, p)
        PROVE  IInv'
    BY <2>3, PrioritySetKeeps
  <2> QED
    BY <2>1, <2>2, <2>3
<1>3. ASSUME NEW t \in Task, portYIELD(t)
      PROVE  IInv'
  BY <1>3, YieldKeeps
<1>4. ASSUME NEW t \in Tasks, ResumeAll(t)
      PROVE  IInv'
  BY <1>4, EndKeeps
<1>5. CASE prvIdleTask
  BY <1>5, IdleKeeps
<1>6. CASE vTick
  BY <1>6, TickKeepsIInv
<1>7. CASE xTaskRemoveFromEventList
  BY <1>7, EventKeepsIInv
<1>8. ASSUME NEW u \in Task, xTaskResumeFromISR(u)
      PROVE  IInv'
  BY <1>8, ResumeFromISRKeeps
<1>9. CASE UNCHANGED vars
  <2>1. k' = k /\ pc' = pc
    BY <1>9 DEF vars
  <2> QED
    BY <2>1, IInvIs DEF IInv
<1> QED
  BY <1>1, <1>2, <1>3, <1>4, <1>5, <1>6, <1>7, <1>8, <1>9 DEF Next, Interrupt

(* The lists of the kernel, each task in one of them, its priorities and   *)
(* wake times in order, whatever is called and whenever interrupts come;   *)
(* who is in a call, and what is put off until its end.                    *)
THEOREM KernelInvariance == Spec => []IInv
<1>1. Init => IInv
  BY InitKeeps
<1>2. IInv /\ [Next]_vars => IInv'
  BY NextKeeps
<1> QED
  BY <1>1, <1>2, PTL DEF Spec

(* Who runs, by the invariant.                                             *)
LEMMA UrgentByInv ==
  ASSUME IInv
  PROVE  MostUrgentRuns
<1> SUFFICES ASSUME k.uxSchedulerSuspended = 0, pc[k.pxCurrentTCB] # "yield"
             PROVE  MostUrgent(k.pxCurrentTCB)
  BY DEF MostUrgentRuns
<1> DEFINE t == k.pxCurrentTCB
           q == k.uxPriority[t]
<1>1. Urgent(k, t)
  BY IInvIs DEF Controlled
<1>2. q \in Priority /\ k.ready \in [Priority -> Seq(Tasks)]
  BY IInvIs, KernelTypes
<1>3. t \in ReadyAt(k, q) /\ \A p \in Priority : p > q => ReadyAt(k, p) = {}
  BY <1>1 DEF Urgent
<1>4. Contains(k.ready[q], t)
  BY <1>2, <1>3, MembersOf DEF ReadyAt
<1>5. ASSUME NEW p \in q + 1 .. Priorities - 1
      PROVE  k.ready[p] = <<>>
  <2>1. p \in Priority /\ p > q
    BY <1>2, FreeRTOSAssumption DEF Priority
  <2>2. k.ready[p] \in Seq(Tasks) /\ ToSet(k.ready[p]) = {}
    BY <2>1, <1>2, <1>3 DEF ReadyAt
  <2> QED
    BY <2>2, MembersOf
<1> QED
  BY <1>4, <1>5 DEF MostUrgent, Ready

(* The lists, by the invariant.                                            *)
LEMMA ConsistentByInv ==
  ASSUME IInv
  PROVE  ListsConsistent
<1> DEFINE four == <<k.delayed, k.overflow, k.suspended, k.termination>>
           rest == [p \in 1 .. Priorities |-> k.ready[p - 1]]
           generic == four \o rest
           Once(lists) ==
             \A i, j \in DOMAIN lists :
               \A m \in DOMAIN lists[i], n \in DOMAIN lists[j] :
                 lists[i][m] = lists[j][n] => i = j /\ m = n
<1>1. k \in Kernel /\ Injective(k) /\ Apart(k) /\ Ranked(k) /\ InOrder(k)
  BY IInvIs DEF Sound
<1>2. /\ k.delayed \in Seq(Tasks) /\ k.overflow \in Seq(Tasks)
      /\ k.suspended \in Seq(Tasks) /\ k.termination \in Seq(Tasks)
      /\ k.event \in Seq(Tasks) /\ k.pending \in Seq(Tasks)
      /\ k.ready \in [Priority -> Seq(Tasks)]
  BY <1>1, KernelTypes
<1>3. Priorities \in Nat /\ \A i \in 1 .. Priorities : i - 1 \in Priority
  BY FreeRTOSAssumption DEF Priority
<1>4. /\ generic \in Seq(Seq(Tasks)) /\ Len(generic) = 4 + Priorities
      /\ generic[1] = k.delayed /\ generic[2] = k.overflow
      /\ generic[3] = k.suspended /\ generic[4] = k.termination
      /\ \A i \in 5 .. 4 + Priorities : generic[i] = k.ready[i - 5]
  <2>1. /\ four \in Seq(Seq(Tasks)) /\ Len(four) = 4
        /\ four[1] = k.delayed /\ four[2] = k.overflow
        /\ four[3] = k.suspended /\ four[4] = k.termination
    BY <1>2
  <2>2. rest \in [1 .. Priorities -> Seq(Tasks)]
    BY <1>2, <1>3
  <2>3. rest \in Seq(Seq(Tasks)) /\ Len(rest) = Priorities
    BY <1>3, <2>2, SeqDef, LenProperties
  <2>4. \A i \in 1 .. Priorities : rest[i] = k.ready[i - 1]
    OBVIOUS
  <2> HIDE DEF four, rest
  <2>5. /\ generic \in Seq(Seq(Tasks)) /\ Len(generic) = Len(four) + Len(rest)
        /\ \A i \in 1 .. Len(four) + Len(rest) :
             generic[i] = IF i <= Len(four) THEN four[i] ELSE rest[i - Len(four)]
    BY <2>1, <2>3, ConcatProperties
  <2> HIDE DEF generic
  <2>6. ASSUME NEW i \in 5 .. 4 + Priorities
        PROVE  generic[i] = k.ready[i - 5]
    <3>1. /\ i \in 1 .. 4 + Priorities /\ ~ (i <= 4) /\ i - 4 \in 1 .. Priorities
          /\ (i - 4) - 1 = i - 5
      BY <1>3
    <3> QED
      BY <3>1, <2>1, <2>3, <2>4, <2>5
  <2>7. 1 \in 1 .. 4 + Priorities /\ 2 \in 1 .. 4 + Priorities
        /\ 3 \in 1 .. 4 + Priorities /\ 4 \in 1 .. 4 + Priorities
    BY <1>3
  <2> QED
    BY <2>1, <2>3, <2>5, <2>6, <2>7
<1> HIDE DEF generic
<1>5. \A i \in 1 .. 4 + Priorities : i \in 1 .. 4 \/ i \in 5 .. 4 + Priorities
  BY <1>3
<1>6. \A i \in 5 .. 4 + Priorities : i - 5 \in Priority
  BY <1>3 DEF Priority
<1>7. ASSUME NEW i \in 1 .. 4 + Priorities
      PROVE  generic[i] \in Seq(Tasks) /\ IsInjective(generic[i])
  <2>1. CASE i \in 1 .. 4
    BY <2>1, <1>1, <1>2, <1>4 DEF Injective
  <2>2. CASE i \in 5 .. 4 + Priorities
    BY <2>2, <1>1, <1>2, <1>4, <1>6 DEF Injective
  <2> QED
    BY <2>1, <2>2, <1>5
<1>8. ASSUME NEW i \in 1 .. 4 + Priorities, NEW j \in 1 .. 4 + Priorities, i # j
      PROVE  ToSet(generic[i]) \cap ToSet(generic[j]) = {}
  <2>1. /\ \A p \in Priority :
             ReadyAt(k, p) \cap (Asleep(k) \cup Suspended(k) \cup Terminated(k)) = {}
        /\ \A p, q \in Priority : p # q => ReadyAt(k, p) \cap ReadyAt(k, q) = {}
        /\ Delayed(k) \cap Overflown(k) = {}
        /\ Asleep(k) \cap Suspended(k) = {}
        /\ Asleep(k) \cap Terminated(k) = {}
        /\ Suspended(k) \cap Terminated(k) = {}
    BY <1>1 DEF Apart, Ranked
  <2>2. CASE i \in 1 .. 4 /\ j \in 1 .. 4
    BY <2>1, <2>2, <1>4, <1>8 DEF Asleep, Delayed, Overflown, Suspended, Terminated
  <2>3. CASE i \in 5 .. 4 + Priorities /\ j \in 1 .. 4
    BY <2>1, <2>3, <1>4, <1>6
       DEF ReadyAt, Asleep, Delayed, Overflown, Suspended, Terminated
  <2>4. CASE i \in 1 .. 4 /\ j \in 5 .. 4 + Priorities
    BY <2>1, <2>4, <1>4, <1>6
       DEF ReadyAt, Asleep, Delayed, Overflown, Suspended, Terminated
  <2>5. CASE i \in 5 .. 4 + Priorities /\ j \in 5 .. 4 + Priorities
    <3>1. i - 5 # j - 5
      BY <2>5, <1>8, <1>3
    <3> QED
      BY <3>1, <2>1, <2>5, <1>4, <1>6 DEF ReadyAt
  <2> QED
    BY <2>2, <2>3, <2>4, <2>5, <1>5
<1>9. Once(generic)
  <2>1. DOMAIN generic = 1 .. 4 + Priorities
    BY <1>4, LenProperties
  <2> SUFFICES ASSUME NEW i \in 1 .. 4 + Priorities, NEW j \in 1 .. 4 + Priorities,
                      NEW m \in DOMAIN generic[i], NEW n \in DOMAIN generic[j],
                      generic[i][m] = generic[j][n]
               PROVE  i = j /\ m = n
    BY <2>1
  <2>2. m \in 1 .. Len(generic[i]) /\ n \in 1 .. Len(generic[j])
    BY <1>7, LenProperties
  <2>3. generic[i][m] \in ToSet(generic[i]) \cap ToSet(generic[j])
    BY <2>2, <1>7, MembersOf
  <2>4. i = j
    BY <2>3, <1>8
  <2> QED
    BY <2>2, <2>4, <1>7, MembersOf
<1>10. Once(<<k.event, k.pending>>)
  <2>1. /\ IsInjective(k.event) /\ IsInjective(k.pending)
        /\ ToSet(k.event) \cap ToSet(k.pending) = {}
    BY <1>1 DEF Injective, Apart, Waiting, Pending
  <2>2. /\ DOMAIN k.event = 1 .. Len(k.event) /\ DOMAIN k.pending = 1 .. Len(k.pending)
    BY <1>2, LenProperties
  <2>3. /\ \A m, n \in 1 .. Len(k.event) : k.event[m] = k.event[n] => m = n
        /\ \A m, n \in 1 .. Len(k.pending) : k.pending[m] = k.pending[n] => m = n
    BY <2>1, <1>2, MembersOf
  <2>4. \A m \in 1 .. Len(k.event), n \in 1 .. Len(k.pending) : k.event[m] # k.pending[n]
    <3>1. \A m \in 1 .. Len(k.event) : k.event[m] \in ToSet(k.event)
      BY <1>2, MembersOf
    <3>2. \A n \in 1 .. Len(k.pending) : k.pending[n] \in ToSet(k.pending)
      BY <1>2, MembersOf
    <3> QED
      BY <3>1, <3>2, <2>1
  <2> DEFINE two == <<k.event, k.pending>>
  <2>5. DOMAIN two = {1, 2} /\ two[1] = k.event /\ two[2] = k.pending
    OBVIOUS
  <2> HIDE DEF two
  <2>6. ASSUME NEW i \in {1, 2}, NEW j \in {1, 2},
               NEW m \in DOMAIN two[i], NEW n \in DOMAIN two[j], two[i][m] = two[j][n]
        PROVE  i = j /\ m = n
    BY <2>2, <2>3, <2>4, <2>5, <2>6
  <2>7. Once(two)
    BY <2>5, <2>6
  <2> QED
    BY <2>7 DEF two
<1>11. \A p \in Priority : \A t \in ToSet(k.ready[p]) : k.uxPriority[t] = p
  BY <1>1 DEF Ranked, ReadyAt
<1>12. ToSet(k.event) \cup ToSet(k.pending)
         \subseteq ToSet(k.delayed) \cup ToSet(k.overflow) \cup ToSet(k.suspended)
  BY IInvIs DEF EventsAsleep, Waiting, Pending, Asleep, Delayed, Overflown, Suspended
<1>13. /\ \A i, j \in 1 .. Len(k.delayed) :
            i < j => k.wake[k.delayed[i]] <= k.wake[k.delayed[j]]
       /\ \A i, j \in 1 .. Len(k.overflow) :
            i < j => k.wake[k.overflow[i]] <= k.wake[k.overflow[j]]
  BY <1>1 DEF InOrder, Sorted
<1>14. Exists(k, k.pxCurrentTCB)
  BY IInvIs DEF Controlled
<1>15. k.pending # <<>> => k.uxSchedulerSuspended > 0
  <2>1. k.uxSchedulerSuspended = 0 => Pending(k) = {}
    BY IInvIs DEF Controlled
  <2>2. k.pending = <<>> <=> Pending(k) = {}
    BY <1>2, MembersOf DEF Pending
  <2> QED
    BY <2>1, <2>2, IInvIs
<1> HIDE DEF Once
<1>16. Once(four \o rest) /\ Once(<<k.event, k.pending>>)
  BY <1>9, <1>10 DEF generic
<1> QED
  BY <1>11, <1>12, <1>13, <1>14, <1>15, <1>16 DEF ListsConsistent, Once

(* Whenever the scheduler is not suspended, the task that runs, unless it  *)
(* is on the point of yielding, is ready and none more urgent is           *)
(* (vTaskSwitchContext and the yields of tasks.c).                         *)
THEOREM UrgentRuns == Spec => []MostUrgentRuns
BY UrgentByInv, KernelInvariance, PTL

(* Every task that exists is in one list, once, the one that agrees with   *)
(* what it waits for, and lists are in their order, between any two of the *)
(* calls and interrupts of tasks.c.                                        *)
THEOREM ListsStayConsistent == Spec => []ListsConsistent
BY ConsistentByInv, KernelInvariance, PTL

-----------------------------------------------------------------------------
(* Delays.                                                                 *)

(* The tasks of W are off the delayed lists, and nothing else of these or  *)
(* of the clock has changed.                                               *)
Taken(r, j, W) ==
  /\ Delayed(j) = Delayed(r) \ W /\ Overflown(j) = Overflown(r) \ W
  /\ j.xTickCount = r.xTickCount
  /\ j.xNextTaskUnblockTime = r.xNextTaskUnblockTime
  /\ \A t \in Tasks : j.wake[t] = IF t \in W THEN 0 ELSE r.wake[t]

(* Wake times are still to come, or have overflowed; nobody is looked for  *)
(* too late; and who does not sleep has none.                              *)
OnTime(r) ==
  /\ \A t \in Delayed(r) : r.xTickCount < r.wake[t] /\ r.xNextTaskUnblockTime <= r.wake[t]
  /\ \A t \in Overflown(r) : r.wake[t] < r.xTickCount
  /\ \A t \in Tasks : t \notin Asleep(r) => r.wake[t] = 0

(* x is the earliest wake time of S.                                       *)
Soonest(x, wake, S) ==
  \/ S = {} /\ x = MaxDelay
  \/ \E t \in S : x = wake[t] /\ \A u \in S : wake[t] <= wake[u]

(* The tasks of gone have been taken off the lists of r, then n ticks have *)
(* passed: Advance of DelayLists, said of two kernels.                     *)
Advanced(r, j, n, gone) ==
  LET now == After(r.xTickCount, n) IN
  /\ j.xTickCount = now
  /\ \/ /\ now < r.xTickCount
        /\ Delayed(j) = {t \in Overflown(r) \ gone : r.wake[t] > now}
        /\ Overflown(j) = {}
        /\ Soonest(j.xNextTaskUnblockTime, r.wake, Delayed(j))
     \/ /\ now >= r.xTickCount
        /\ Delayed(j) = {t \in Delayed(r) \ gone : r.wake[t] > now}
        /\ Overflown(j) = Overflown(r) \ gone
        /\ \/ now < r.xNextTaskUnblockTime /\ j.xNextTaskUnblockTime = r.xNextTaskUnblockTime
           \/ now >= r.xNextTaskUnblockTime /\ n > 0
              /\ Soonest(j.xNextTaskUnblockTime, r.wake, Delayed(j))
           \/ n = 0 /\ j.xNextTaskUnblockTime = r.xNextTaskUnblockTime
  /\ \A t \in Tasks : j.wake[t] = IF t \in Asleep(j) THEN r.wake[t] ELSE 0

(* What is taken off in two steps.                                         *)
LEMMA TakenTwice ==
  ASSUME NEW r, NEW i, NEW j, NEW V, NEW W, Taken(r, i, V), Taken(i, j, W)
  PROVE  Taken(r, j, V \cup W)
BY DEF Taken

(* Where the lists are the same nobody is taken off them.                  *)
LEMMA TakenNone ==
  ASSUME NEW r, NEW j, j.delayed = r.delayed, j.overflow = r.overflow, j.wake = r.wake,
         SameClock(r, j)
  PROVE  Taken(r, j, {})
BY DEF Taken, SameClock, Delayed, Overflown

(* Who is woken is taken off.                                              *)
LEMMA WokenTaken ==
  ASSUME NEW r, NEW j, NEW W, Woken(r, j, W), InPlace(r, j, W)
  PROVE  Taken(r, j, W)
BY DEF Taken, Woken, InPlace, SameClock

(* The same in no time at all.                                             *)
LEMMA TakenAdvances ==
  ASSUME NEW r, Sound(r), OnTime(r), NEW j, NEW W, Taken(r, j, W)
  PROVE  Advanced(r, j, 0, W \cap Asleep(r))
<1>1. /\ r.xTickCount \in Int /\ After(r.xTickCount, 0) = r.xTickCount
      /\ r.wake \in [Tasks -> Int] /\ Asleep(r) \subseteq Tasks
  <2>1. r.xTickCount \in Ticks /\ r.wake \in [Tasks -> Ticks]
    BY KernelTypes DEF Sound
  <2>2. Asleep(r) \subseteq Tasks
    BY SleepersAreTasks DEF Tasks
  <2> QED
    BY <2>1, <2>2, FreeRTOSAssumption DEF Ticks, After
<1>2. Delayed(j) = {t \in Delayed(r) \ (W \cap Asleep(r)) : r.wake[t] > r.xTickCount}
  <2>1. \A t \in Delayed(r) : t \in Tasks /\ t \in Asleep(r) /\ r.wake[t] > r.xTickCount
    BY <1>1 DEF OnTime, Asleep
  <2> QED
    BY <2>1 DEF Taken
<1>3. Overflown(j) = Overflown(r) \ (W \cap Asleep(r))
  BY DEF Taken, Asleep
<1>4. \A t \in Tasks : j.wake[t] = IF t \in Asleep(j) THEN r.wake[t] ELSE 0
  <2>1. Asleep(j) = Asleep(r) \ W
    BY DEF Taken, Asleep
  <2>2. \A t \in Tasks : t \notin Asleep(r) => r.wake[t] = 0
    BY DEF OnTime
  <2> QED
    BY <2>1, <2>2 DEF Taken
<1>5. j.xTickCount = r.xTickCount /\ j.xNextTaskUnblockTime = r.xNextTaskUnblockTime
  BY DEF Taken
<1> QED
  BY <1>1, <1>2, <1>3, <1>4, <1>5 DEF Advanced

(* The head of the sorted list has the earliest wake time.                 *)
LEMMA HeadIsSoonest ==
  ASSUME NEW r, Sound(r)
  PROVE  Soonest(HeadWake(r), r.wake, Delayed(r))
<1>1. /\ \A t \in Delayed(r) : HeadWake(r) <= r.wake[t]
      /\ HeadWake(r) = MaxDelay \/ \E t \in Delayed(r) : HeadWake(r) = r.wake[t]
  BY HeadWakeIs
<1>2. \A t \in Delayed(r) : r.wake[t] \in 0 .. MaxDelay
  <2>1. r.wake \in [Tasks -> Ticks] /\ Delayed(r) \subseteq Tasks
    BY KernelTypes, SleepersAreTasks DEF Sound, Asleep, Tasks
  <2> QED
    BY <2>1 DEF Ticks
<1>3. MaxDelay \in Int
  BY FreeRTOSAssumption
<1>4. CASE Delayed(r) = {}
  BY <1>1, <1>4 DEF Soonest
<1>5. ASSUME NEW t \in Delayed(r)
      PROVE  Soonest(HeadWake(r), r.wake, Delayed(r))
  <2>1. CASE HeadWake(r) = MaxDelay
    <3>1. \A u \in Delayed(r) : r.wake[u] = MaxDelay
      BY <2>1, <1>1, <1>2, <1>3
    <3>2. HeadWake(r) = r.wake[t] /\ \A u \in Delayed(r) : r.wake[t] <= r.wake[u]
      BY <3>1, <2>1, <1>3
    <3> QED
      BY <3>2 DEF Soonest
  <2>2. CASE \E u \in Delayed(r) : HeadWake(r) = r.wake[u]
    BY <2>2, <1>1 DEF Soonest
  <2> QED
    BY <2>1, <2>2, <1>1
<1> QED
  BY <1>4, <1>5

(* What is later than now is not looked for before its time.               *)
LEMMA CheckWakesDue ==
  ASSUME NEW r, Sound(r), NEW j, j = prvCheckDelayedTasks(r),
         \A t \in Delayed(r) : r.xNextTaskUnblockTime <= r.wake[t]
  PROVE  /\ Sound(j)
         /\ Delayed(j) = {t \in Delayed(r) : r.wake[t] > r.xTickCount}
         /\ Overflown(j) = Overflown(r)
         /\ j.xTickCount = r.xTickCount
         /\ \/ /\ r.xTickCount < r.xNextTaskUnblockTime
               /\ Delayed(j) = Delayed(r)
               /\ j.xNextTaskUnblockTime = r.xNextTaskUnblockTime
            \/ /\ r.xTickCount >= r.xNextTaskUnblockTime
               /\ Soonest(j.xNextTaskUnblockTime, r.wake, Delayed(j))
         /\ Asleep(j) \subseteq Asleep(r)
         /\ \A t \in Tasks :
              j.wake[t] = IF t \in Asleep(r) \ Asleep(j) THEN 0 ELSE r.wake[t]
<1>1. /\ Sound(j)
      /\ Woken(r, j, DueNow(r))
      /\ Delayed(j) = Delayed(r) \ DueNow(r) /\ Overflown(j) = Overflown(r)
      /\ j.xTickCount = r.xTickCount /\ j.uxMissedTicks = r.uxMissedTicks
      /\ j.xNextTaskUnblockTime =
           IF r.xTickCount < r.xNextTaskUnblockTime THEN r.xNextTaskUnblockTime
           ELSE HeadWake(j)
  BY CheckKeeps
<1>2. /\ r.xTickCount \in Int /\ r.xNextTaskUnblockTime \in Int
      /\ \A t \in Delayed(r) : t \in Tasks /\ r.wake[t] \in Int
  <2>1. /\ r.wake \in [Tasks -> Ticks] /\ Delayed(r) \subseteq Tasks
        /\ r.xTickCount \in Ticks /\ r.xNextTaskUnblockTime \in Ticks
    BY KernelTypes, SleepersAreTasks DEF Sound, Asleep, Tasks
  <2> QED
    BY <2>1, FreeRTOSAssumption DEF Ticks
<1>3. DueNow(r) \subseteq Delayed(r)
  BY DEF DueNow
<1>4. /\ Asleep(j) \subseteq Asleep(r) /\ DueNow(r) = Asleep(r) \ Asleep(j)
      /\ \A t \in Tasks : j.wake[t] = IF t \in DueNow(r) THEN 0 ELSE r.wake[t]
  BY <1>1, <1>3 DEF Woken, Asleep
<1>5. Soonest(HeadWake(j), r.wake, Delayed(j))
  <2>1. \A t \in Delayed(j) : t \in Tasks /\ t \notin DueNow(r)
    BY <1>1, <1>2
  <2>2. \A t \in Delayed(j) : j.wake[t] = r.wake[t]
    BY <2>1, <1>4
  <2>3. Soonest(HeadWake(j), j.wake, Delayed(j))
    BY <1>1, HeadIsSoonest
  <2> QED
    BY <2>2, <2>3 DEF Soonest
<1>6. CASE r.xTickCount < r.xNextTaskUnblockTime
  <2>1. DueNow(r) = {}
    BY <1>6 DEF DueNow
  <2>2. \A t \in Delayed(r) : r.wake[t] > r.xTickCount
    BY <1>2, <1>6
  <2> QED
    BY <2>1, <2>2, <1>1, <1>4, <1>6
<1>7. CASE r.xTickCount >= r.xNextTaskUnblockTime
  <2>1. DueNow(r) = {t \in Delayed(r) : r.wake[t] <= r.xTickCount}
        /\ ~ (r.xTickCount < r.xNextTaskUnblockTime)
    BY <1>2, <1>7 DEF DueNow
  <2>2. Delayed(j) = {t \in Delayed(r) : r.wake[t] > r.xTickCount}
    BY <2>1, <1>1, <1>2
  <2> QED
    BY <2>1, <2>2, <1>1, <1>4, <1>5, <1>7
<1> QED
  BY <1>2, <1>6, <1>7

(* The tick after that.                                                    *)
LEMMA TickAfter ==
  ASSUME NEW x \in Ticks, NEW m \in 0 .. MaxDelay - 1,
         NEW now, now = After(x, m), NEW then, then = After(x, m + 1)
  PROVE  /\ now \in Ticks /\ then \in Ticks /\ After(now, 1) = then
         /\ \/ now >= x /\ now < MaxDelay /\ then = now + 1 /\ then >= x
            \/ now >= x /\ now = MaxDelay /\ then = 0 /\ then < x
            \/ now < x /\ then = now + 1 /\ then < x
BY FreeRTOSAssumption, SMT DEF Ticks, After

(* One tick more, over an overflow of the tick count or not.               *)
LEMMA TickAdvances ==
  ASSUME NEW r, Sound(r), OnTime(r), NEW gone,
         NEW m \in 0 .. MaxDelay - 1, NEW i, Sound(i), i.uxSchedulerSuspended = 0,
         Advanced(r, i, m, gone),
         NEW j, j = vTaskIncrementTick(i)
  PROVE  Advanced(r, j, m + 1, gone)
<1> DEFINE x == r.xTickCount
           now == After(x, m)
           then == After(x, m + 1)
           a == [i EXCEPT !.xTickCount = After(i.xTickCount, 1)]
           b == SwapDelayedLists(a)
           late == r.xNextTaskUnblockTime
           w == r.wake
           D == Delayed(r) \ gone
           O == Overflown(r) \ gone
<1>1. /\ now \in Ticks /\ then \in Ticks /\ After(now, 1) = then
      /\ \/ now >= x /\ now < MaxDelay /\ then = now + 1 /\ then >= x
         \/ now >= x /\ now = MaxDelay /\ then = 0 /\ then < x
         \/ now < x /\ then = now + 1 /\ then < x
  <2>1. x \in Ticks
    BY KernelTypes DEF Sound
  <2> QED
    BY <2>1, TickAfter
<1>2. /\ x \in Int /\ now \in Int /\ then \in Int /\ late \in Int /\ MaxDelay \in Int
      /\ m \in Nat /\ m + 1 > 0 /\ m + 1 # 0
      /\ w \in [Tasks -> Int] /\ \A t \in Tasks : w[t] \in 0 .. MaxDelay
      /\ D \subseteq Tasks /\ O \subseteq Tasks
  <2>1. /\ w \in [Tasks -> Ticks] /\ x \in Ticks /\ late \in Ticks
        /\ Delayed(r) \subseteq Tasks /\ Overflown(r) \subseteq Tasks
    BY KernelTypes, SleepersAreTasks DEF Sound, Asleep, Tasks
  <2> QED
    BY <2>1, <1>1, FreeRTOSAssumption DEF Ticks
<1>3. /\ i.xTickCount = now
      /\ \/ /\ now < x
            /\ Delayed(i) = {t \in O : w[t] > now}
            /\ Overflown(i) = {}
            /\ Soonest(i.xNextTaskUnblockTime, w, Delayed(i))
         \/ /\ now >= x
            /\ Delayed(i) = {t \in D : w[t] > now}
            /\ Overflown(i) = O
            /\ \/ now < late /\ i.xNextTaskUnblockTime = late
               \/ now >= late /\ Soonest(i.xNextTaskUnblockTime, w, Delayed(i))
               \/ m = 0 /\ i.xNextTaskUnblockTime = late
      /\ \A t \in Tasks : i.wake[t] = IF t \in Asleep(i) THEN w[t] ELSE 0
  BY DEF Advanced
<1>4. /\ Sound(a) /\ Delayed(a) = Delayed(i) /\ Overflown(a) = Overflown(i)
      /\ Asleep(a) = Asleep(i) /\ a.wake = i.wake /\ a.delayed = i.delayed
      /\ a.xTickCount = then /\ a.xNextTaskUnblockTime = i.xNextTaskUnblockTime
  <2>1. /\ a \in Kernel /\ SameLists(i, a) /\ a.uxTopReadyPriority = i.uxTopReadyPriority
        /\ a.xTickCount = then /\ a.xNextTaskUnblockTime = i.xNextTaskUnblockTime
    BY <1>1, <1>3 DEF Sound, Kernel, SameLists
  <2> HIDE DEF a
  <2> QED
    BY <2>1, SameListsKeep DEF SameLists
<1>5. j = prvCheckDelayedTasks(IF a.xTickCount = 0 THEN b ELSE a)
  BY DEF vTaskIncrementTick
<1>6. \A t \in D : late <= w[t]
  BY DEF OnTime
<1> HIDE DEF a, b, x, now, then, late, w, D, O
<1>7. SUFFICES
        /\ j.xTickCount = then
        /\ \/ /\ then < x
              /\ Delayed(j) = {t \in O : w[t] > then}
              /\ Overflown(j) = {}
              /\ Soonest(j.xNextTaskUnblockTime, w, Delayed(j))
           \/ /\ then >= x
              /\ Delayed(j) = {t \in D : w[t] > then}
              /\ Overflown(j) = O
              /\ \/ then < late /\ j.xNextTaskUnblockTime = late
                 \/ then >= late /\ Soonest(j.xNextTaskUnblockTime, w, Delayed(j))
        /\ \A t \in Tasks : j.wake[t] = IF t \in Asleep(j) THEN w[t] ELSE 0
  BY <1>2 DEF Advanced, x, then, late, w, D, O
<1>8. \A t \in Asleep(a) : a.wake[t] = w[t] /\ t \in Tasks
  <2>1. Asleep(a) \subseteq Tasks
    BY <1>4, SleepersAreTasks DEF Tasks
  <2> QED
    BY <2>1, <1>3, <1>4
<1>9. ASSUME NEW t \in Delayed(a), Soonest(a.xNextTaskUnblockTime, w, Delayed(a))
      PROVE  a.xNextTaskUnblockTime <= w[t]
  BY <1>9 DEF Soonest
<1>10. ASSUME NEW c, Sound(c), j = prvCheckDelayedTasks(c), Asleep(c) = Asleep(a),
              c.wake = a.wake, c.xTickCount = then,
              \A t \in Delayed(c) : c.xNextTaskUnblockTime <= w[t]
       PROVE  /\ Delayed(j) = {t \in Delayed(c) : w[t] > then}
              /\ Overflown(j) = Overflown(c)
              /\ j.xTickCount = then
              /\ \/ /\ then < c.xNextTaskUnblockTime
                    /\ Delayed(j) = Delayed(c)
                    /\ j.xNextTaskUnblockTime = c.xNextTaskUnblockTime
                 \/ /\ then >= c.xNextTaskUnblockTime
                    /\ Soonest(j.xNextTaskUnblockTime, w, Delayed(j))
              /\ \A t \in Tasks : j.wake[t] = IF t \in Asleep(j) THEN w[t] ELSE 0
  <2>1. \A t \in Delayed(c) : t \in Asleep(a) /\ c.wake[t] = w[t]
    BY <1>8, <1>10 DEF Asleep
  <2>2. \A t \in Delayed(c) : c.xNextTaskUnblockTime <= c.wake[t]
    BY <2>1, <1>10
  <2>3. /\ Sound(j)
        /\ Delayed(j) = {t \in Delayed(c) : c.wake[t] > c.xTickCount}
        /\ Overflown(j) = Overflown(c)
        /\ j.xTickCount = c.xTickCount
        /\ \/ /\ c.xTickCount < c.xNextTaskUnblockTime
              /\ Delayed(j) = Delayed(c)
              /\ j.xNextTaskUnblockTime = c.xNextTaskUnblockTime
           \/ /\ c.xTickCount >= c.xNextTaskUnblockTime
              /\ Soonest(j.xNextTaskUnblockTime, c.wake, Delayed(j))
        /\ Asleep(j) \subseteq Asleep(c)
        /\ \A t \in Tasks :
             j.wake[t] = IF t \in Asleep(c) \ Asleep(j) THEN 0 ELSE c.wake[t]
    BY <2>2, <1>10, CheckWakesDue
  <2>4. Delayed(j) = {t \in Delayed(c) : w[t] > then}
    BY <2>1, <2>3, <1>10
  <2>5. Soonest(j.xNextTaskUnblockTime, c.wake, Delayed(j))
          => Soonest(j.xNextTaskUnblockTime, w, Delayed(j))
    <3>1. \A t \in Delayed(j) : c.wake[t] = w[t]
      BY <2>1, <2>4
    <3> QED
      BY <3>1 DEF Soonest
  <2>6. \A t \in Tasks : j.wake[t] = IF t \in Asleep(j) THEN w[t] ELSE 0
    BY <2>3, <1>3, <1>4, <1>10
  <2> QED
    BY <2>3, <2>4, <2>5, <2>6, <1>10
<1>11. CASE now < x /\ then = now + 1 /\ then < x
  <2>1. then # 0
    BY <1>1, <1>11 DEF Ticks
  <2>2. j = prvCheckDelayedTasks(a)
    BY <2>1, <1>4, <1>5
  <2>3. Delayed(a) = {t \in O : w[t] > now} /\ Overflown(a) = {}
        /\ Soonest(a.xNextTaskUnblockTime, w, Delayed(a))
    BY <1>2, <1>3, <1>4, <1>11
  <2>4. /\ Delayed(j) = {t \in Delayed(a) : w[t] > then}
        /\ Overflown(j) = Overflown(a)
        /\ j.xTickCount = then
        /\ \/ /\ then < a.xNextTaskUnblockTime
              /\ Delayed(j) = Delayed(a)
              /\ j.xNextTaskUnblockTime = a.xNextTaskUnblockTime
           \/ /\ then >= a.xNextTaskUnblockTime
              /\ Soonest(j.xNextTaskUnblockTime, w, Delayed(j))
        /\ \A t \in Tasks : j.wake[t] = IF t \in Asleep(j) THEN w[t] ELSE 0
    BY <2>2, <2>3, <1>4, <1>9, <1>10
  <2>5. Delayed(j) = {t \in O : w[t] > then}
    <3>1. \A t \in O : w[t] > then => w[t] > now
      BY <1>2, <1>11
    <3> QED
      BY <3>1, <2>3, <2>4
  <2> QED
    BY <2>3, <2>4, <2>5, <1>11
<1>12. CASE now >= x /\ now = MaxDelay /\ then = 0 /\ then < x
  <2>1. j = prvCheckDelayedTasks(b)
    BY <1>4, <1>5, <1>12
  <2>2. Delayed(a) = {} /\ Overflown(a) = O
    <3>1. Delayed(a) = {t \in D : w[t] > now} /\ Overflown(a) = O
      BY <1>2, <1>3, <1>4, <1>12
    <3>2. \A t \in D : ~ (w[t] > now)
      BY <1>2, <1>12
    <3> QED
      BY <3>1, <3>2
  <2>3. /\ Sound(b) /\ Woken(a, b, {})
        /\ Delayed(b) = Overflown(a) /\ Overflown(b) = Delayed(a)
        /\ b.xTickCount = a.xTickCount /\ b.uxMissedTicks = a.uxMissedTicks
        /\ b.xNextTaskUnblockTime = HeadWake(b)
    BY <1>4, SwapKeeps DEF b
  <2>4. Asleep(b) = Asleep(a) /\ b.wake = a.wake
    <3>1. Asleep(b) = Asleep(a)
      BY <2>3 DEF Asleep
    <3>2. b.wake = a.wake
      BY DEF b, SwapDelayedLists
    <3> QED
      BY <3>1, <3>2
  <2>5. Soonest(b.xNextTaskUnblockTime, w, Delayed(b))
    <3>1. Soonest(b.xNextTaskUnblockTime, b.wake, Delayed(b))
      BY <2>3, HeadIsSoonest
    <3>2. \A t \in Delayed(b) : b.wake[t] = w[t]
      BY <2>4, <1>8 DEF Asleep
    <3> QED
      BY <3>1, <3>2 DEF Soonest
  <2>6. \A t \in Delayed(b) : b.xNextTaskUnblockTime <= w[t]
    BY <2>5 DEF Soonest
  <2>7. /\ Delayed(j) = {t \in Delayed(b) : w[t] > then}
        /\ Overflown(j) = Overflown(b)
        /\ j.xTickCount = then
        /\ \/ /\ then < b.xNextTaskUnblockTime
              /\ Delayed(j) = Delayed(b)
              /\ j.xNextTaskUnblockTime = b.xNextTaskUnblockTime
           \/ /\ then >= b.xNextTaskUnblockTime
              /\ Soonest(j.xNextTaskUnblockTime, w, Delayed(j))
        /\ \A t \in Tasks : j.wake[t] = IF t \in Asleep(j) THEN w[t] ELSE 0
    BY <2>1, <2>3, <2>4, <2>6, <1>4, <1>10
  <2> QED
    BY <2>2, <2>3, <2>5, <2>7, <1>12
<1>13. CASE now >= x /\ now < MaxDelay /\ then = now + 1 /\ then >= x
  <2>1. then # 0
    <3>1. now \in Nat
      BY <1>1, FreeRTOSAssumption DEF Ticks
    <3> QED
      BY <3>1, <1>13
  <2>2. j = prvCheckDelayedTasks(a)
    BY <2>1, <1>4, <1>5
  <2>3. /\ Delayed(a) = {t \in D : w[t] > now} /\ Overflown(a) = O
        /\ \/ a.xNextTaskUnblockTime = late
           \/ now >= late /\ Soonest(a.xNextTaskUnblockTime, w, Delayed(a))
    BY <1>2, <1>3, <1>4, <1>13
  <2>4. \A t \in Delayed(a) : a.xNextTaskUnblockTime <= w[t]
    BY <2>3, <1>6, <1>9
  <2>5. /\ Delayed(j) = {t \in Delayed(a) : w[t] > then}
        /\ Overflown(j) = Overflown(a)
        /\ j.xTickCount = then
        /\ \/ /\ then < a.xNextTaskUnblockTime
              /\ Delayed(j) = Delayed(a)
              /\ j.xNextTaskUnblockTime = a.xNextTaskUnblockTime
           \/ /\ then >= a.xNextTaskUnblockTime
              /\ Soonest(j.xNextTaskUnblockTime, w, Delayed(j))
        /\ \A t \in Tasks : j.wake[t] = IF t \in Asleep(j) THEN w[t] ELSE 0
    BY <2>2, <2>4, <1>4, <1>10
  <2>6. Delayed(j) = {t \in D : w[t] > then}
    <3>1. \A t \in D : w[t] > then => w[t] > now
      BY <1>2, <1>13
    <3> QED
      BY <3>1, <2>3, <2>5
  <2>7. \/ then < late /\ j.xNextTaskUnblockTime = late
        \/ then >= late /\ Soonest(j.xNextTaskUnblockTime, w, Delayed(j))
    <3>1. CASE a.xNextTaskUnblockTime = late
      BY <3>1, <2>5
    <3>2. CASE now >= late /\ Soonest(a.xNextTaskUnblockTime, w, Delayed(a))
      <4>1. then >= late
        BY <3>2, <1>2, <1>13
      <4> QED
        BY <4>1, <3>2, <2>5
    <3> QED
      BY <3>1, <3>2, <2>3
  <2> QED
    BY <2>3, <2>5, <2>6, <2>7, <1>13
<1> QED
  BY <1>1, <1>11, <1>12, <1>13

(* The ticks missed are made up for as if they came now.                   *)
LEMMA UnwindAdvances ==
  ASSUME NEW q, Sound(q), OnTime(q), NEW gone,
         NEW r, Sound(r), r.uxSchedulerSuspended = 0, Advanced(q, r, 0, gone),
         NEW j, j = UnwindTicks(r)
  PROVE  Advanced(q, j, r.uxMissedTicks, gone)
<1> DEFINE N == r.uxMissedTicks
<1>1. PICK F : /\ F[0] = r
               /\ \A n \in 1 .. N : F[n] = vTaskIncrementTick(F[n - 1])
               /\ UnwindTicks(r) = [F[N] EXCEPT !.uxMissedTicks = 0]
  BY UnwindSteps
<1>2. N \in 0 .. MaxMissed /\ N \in Nat /\ N <= MaxDelay /\ MaxDelay \in Nat
  BY KernelTypes, FreeRTOSAssumption DEF Sound
<1> HIDE DEF N
<1> DEFINE Good(n) == /\ Sound(F[n]) /\ F[n].uxSchedulerSuspended = 0
                      /\ Advanced(q, F[n], n, gone)
           G == {n \in 0 .. N : Good(n)}
<1>3. 0 \in G
  BY <1>1, <1>2
<1>4. ASSUME NEW m \in 1 .. N, m - 1 \in G
      PROVE  m \in G
  <2> DEFINE n == m - 1
             i == F[n]
  <2>1. /\ m \in 0 .. N /\ n \in 0 .. MaxDelay - 1 /\ m = n + 1
    BY <1>2
  <2>2. Sound(i) /\ i.uxSchedulerSuspended = 0 /\ Advanced(q, i, n, gone)
        /\ F[m] = vTaskIncrementTick(i)
    BY <1>1, <1>4
  <2> HIDE DEF n, i
  <2>3. Advanced(q, F[m], n + 1, gone)
    BY <2>1, <2>2, TickAdvances
  <2>4. Sound(F[m]) /\ \E W \in SUBSET Asleep(i) : Woken(i, F[m], W)
    BY <2>2, TickKeeps
  <2>5. F[m].uxSchedulerSuspended = 0
    BY <2>2, <2>4 DEF Woken, Steady
  <2> QED
    BY <2>1, <2>3, <2>4, <2>5
<1>5. Good(N)
  <2>1. N \in 0 .. N
    BY <1>2
  <2> HIDE DEF G
  <2>2. \A m \in 1 .. N : m - 1 \in G => m \in G
    BY <1>4
  <2>3. N \in G
    BY <2>1, <2>2, <1>2, <1>3, InductionUpTo
  <2> QED
    BY <2>3 DEF G
<1> DEFINE i == F[N]
<1>6. Sound(i) /\ Advanced(q, i, N, gone) /\ j = [i EXCEPT !.uxMissedTicks = 0]
  BY <1>1, <1>5
<1> HIDE DEF i
<1>7. /\ j.delayed = i.delayed /\ j.overflow = i.overflow /\ j.wake = i.wake
      /\ j.xTickCount = i.xTickCount /\ j.xNextTaskUnblockTime = i.xNextTaskUnblockTime
  BY <1>6 DEF Sound, Kernel
<1>8. Advanced(q, j, N, gone)
  BY <1>6, <1>7 DEF Advanced, Asleep, Delayed, Overflown
<1> QED
  BY <1>8 DEF N

(* Nothing of the delays changes in a switch.                              *)
LEMMA SwitchTakesNone ==
  ASSUME NEW r, Sound(r), NEW j, j = vTaskSwitchContext(r)
  PROVE  /\ Taken(r, j, {}) /\ j.uxMissedTicks = r.uxMissedTicks
         /\ Pending(j) = Pending(r)
<1>1. r \in Kernel
  BY DEF Sound
<1>2. CASE r.uxSchedulerSuspended = 0
  <2>1. /\ j.delayed = r.delayed /\ j.overflow = r.overflow /\ j.wake = r.wake
        /\ j.pending = r.pending /\ SameClock(r, j)
    BY <1>2, SwitchKeeps
  <2> QED
    BY <2>1, TakenNone DEF SameClock, Pending
<1>3. CASE r.uxSchedulerSuspended = 1
  <2>1. SameLists(r, j) /\ SameClock(r, j)
    BY <1>3, PutOffKeeps
  <2> QED
    BY <2>1, TakenNone DEF SameClock, SameLists, Pending
<1> QED
  BY <1>1, <1>2, <1>3, KernelTypes

(* What comes after an advance and takes nobody belongs to it.             *)
LEMMA AdvancedTaken ==
  ASSUME NEW r, NEW i, NEW j, NEW n, NEW gone, Advanced(r, i, n, gone), Taken(i, j, {})
  PROVE  Advanced(r, j, n, gone)
<1>1. /\ Delayed(j) = Delayed(i) /\ Overflown(j) = Overflown(i) /\ Asleep(j) = Asleep(i)
      /\ j.xTickCount = i.xTickCount
      /\ j.xNextTaskUnblockTime = i.xNextTaskUnblockTime
      /\ \A t \in Tasks : j.wake[t] = i.wake[t]
  BY DEF Taken, Asleep
<1> QED
  BY <1>1 DEF Advanced

(* At the end of a suspension of the scheduler the tasks put off are taken *)
(* off the lists and the ticks missed go by.                               *)
LEMMA ResumeAllAdvances ==
  ASSUME NEW r, Sound(r), EventsAsleep(r), OnTime(r), r.uxSchedulerSuspended = 1,
         NEW j, j = xTaskResumeAll(r).k
  PROVE  Advanced(r, j, r.uxMissedTicks, Pending(r) \cap Asleep(r))
<1> DEFINE a == [r EXCEPT !.uxSchedulerSuspended = r.uxSchedulerSuspended - 1]
           b == UnblockAll(a, a.pending)
           c == UnwindTicks(b)
           d == [c EXCEPT !.xMissedYield = FALSE]
           e == vTaskSwitchContext(d)
           N == r.uxMissedTicks
           gone == Pending(r) \cap Asleep(r)
<1>1. j = c \/ j = e
  BY DEF xTaskResumeAll
<1>2. r \in Kernel
  BY DEF Sound
<1>3. /\ a \in Kernel /\ SameLists(r, a) /\ SameClock(r, a)
      /\ a.uxTopReadyPriority = r.uxTopReadyPriority
      /\ a.uxSchedulerSuspended = 0
  BY <1>2 DEF Kernel, SameLists, SameClock
<1> HIDE DEF a
<1>4. /\ Sound(a) /\ EventsAsleep(a) /\ Pending(a) = Pending(r)
      /\ Asleep(a) = Asleep(r) /\ Suspended(a) = Suspended(r)
  BY <1>3, SameListsKeep
<1>5. Sound(b) /\ Woken(a, b, Pending(r)) /\ InPlace(a, b, Pending(r))
  <2>1. a.pending \in Seq(Tasks) /\ ToSet(a.pending) = Pending(r)
    BY <1>3, <1>4, KernelTypes DEF Pending, SameLists
  <2>2. ToSet(a.pending) \subseteq Asleep(a) \cup Suspended(a)
    BY <2>1, <1>4 DEF EventsAsleep
  <2>3. Sound(b) /\ Woken(a, b, ToSet(a.pending)) /\ InPlace(a, b, ToSet(a.pending))
    BY <2>1, <2>2, <1>4, UnblockAllKeeps
  <2> QED
    BY <2>1, <2>3
<1> HIDE DEF b
<1>6. Taken(r, b, Pending(r))
  <2>1. Taken(r, a, {})
    BY <1>3, TakenNone DEF SameLists
  <2>2. Taken(a, b, Pending(r))
    BY <1>5, WokenTaken
  <2>3. Taken(r, b, {} \cup Pending(r))
    BY <2>1, <2>2, TakenTwice
  <2>4. {} \cup Pending(r) = Pending(r)
    OBVIOUS
  <2> QED
    BY <2>3, <2>4
<1>7. Advanced(r, b, 0, gone)
  BY <1>6, TakenAdvances
<1>8. b.uxSchedulerSuspended = 0 /\ b.uxMissedTicks = N
  BY <1>3, <1>5 DEF Woken, Steady, InPlace, SameClock
<1> HIDE DEF N, gone
<1>9. Advanced(r, c, b.uxMissedTicks, gone)
  BY <1>5, <1>7, <1>8, UnwindAdvances
<1>10. Sound(c)
  BY <1>5, <1>8, UnwindKeeps
<1> HIDE DEF c
<1>11. Sound(d) /\ Taken(c, d, {})
  <2>1. /\ d \in Kernel /\ SameLists(c, d) /\ SameClock(c, d)
        /\ d.uxTopReadyPriority = c.uxTopReadyPriority
    BY <1>10 DEF Sound, Kernel, SameLists, SameClock
  <2> HIDE DEF d
  <2> QED
    BY <2>1, <1>10, SameListsKeep, TakenNone DEF SameLists
<1> HIDE DEF d
<1>12. Taken(d, e, {})
  BY <1>11, SwitchTakesNone
<1> HIDE DEF e
<1>13. Advanced(r, d, N, gone) /\ Advanced(r, e, N, gone)
  BY <1>8, <1>9, <1>11, <1>12, AdvancedTaken
<1> QED
  BY <1>1, <1>8, <1>9, <1>13 DEF N, gone

(* The list the running task goes to when it goes to sleep.                *)
LEMMA SleepPlaces ==
  ASSUME NEW r, Sound(r), Off(r, r.pxCurrentTCB), NEW time \in Ticks,
         NEW j, j = prvAddCurrentTaskToDelayedList(r, time)
  PROVE  /\ j.wake = [r.wake EXCEPT ![r.pxCurrentTCB] = time]
         /\ j.xTickCount = r.xTickCount /\ j.uxMissedTicks = r.uxMissedTicks
         /\ \/ /\ time < r.xTickCount
               /\ Overflown(j) = Overflown(r) \cup {r.pxCurrentTCB}
               /\ Delayed(j) = Delayed(r)
               /\ j.xNextTaskUnblockTime = r.xNextTaskUnblockTime
            \/ /\ time >= r.xTickCount
               /\ Delayed(j) = Delayed(r) \cup {r.pxCurrentTCB}
               /\ Overflown(j) = Overflown(r)
               /\ j.xNextTaskUnblockTime =
                    IF time < r.xNextTaskUnblockTime THEN time ELSE r.xNextTaskUnblockTime
<1> DEFINE t == r.pxCurrentTCB
           v == [r.wake EXCEPT ![t] = time]
           over == vListInsert(r.overflow, t, v)
           soon == vListInsert(r.delayed, t, v)
           next == IF time < r.xNextTaskUnblockTime THEN time ELSE r.xNextTaskUnblockTime
<1>1. r \in Kernel /\ Injective(r) /\ t \in Tasks
  BY KernelTypes DEF Sound
<1>2. v \in [Tasks -> Int] /\ time \in Int /\ r.xTickCount \in Int
  BY <1>1, KernelTypes, FreeRTOSAssumption DEF Ticks
<1>3. /\ r.delayed \in Seq(Tasks) /\ r.overflow \in Seq(Tasks)
      /\ IsInjective(r.delayed) /\ IsInjective(r.overflow)
      /\ t \notin ToSet(r.delayed) /\ t \notin ToSet(r.overflow)
  BY <1>1, KernelTypes DEF Injective, Off, Asleep, Delayed, Overflown
<1> HIDE DEF v
<1>4. ToSet(over) = ToSet(r.overflow) \cup {t}
  BY <1>1, <1>2, <1>3, InsertIs
<1>5. ToSet(soon) = ToSet(r.delayed) \cup {t}
  BY <1>1, <1>2, <1>3, InsertIs
<1>6. j = IF time < r.xTickCount
          THEN [r EXCEPT !.wake = v, !.overflow = over]
          ELSE [r EXCEPT !.wake = v, !.delayed = soon, !.xNextTaskUnblockTime = next]
  BY DEF prvAddCurrentTaskToDelayedList, v
<1> HIDE DEF over, soon, next
<1>7. CASE time < r.xTickCount
  <2>1. /\ j.wake = v /\ j.overflow = over /\ j.delayed = r.delayed
        /\ j.xTickCount = r.xTickCount /\ j.uxMissedTicks = r.uxMissedTicks
        /\ j.xNextTaskUnblockTime = r.xNextTaskUnblockTime
    BY <1>1, <1>6, <1>7, ZenonT(30) DEF Kernel
  <2> QED
    BY <2>1, <1>4, <1>7 DEF v, Overflown, Delayed
<1>8. CASE time >= r.xTickCount
  <2>1. ~ (time < r.xTickCount)
    BY <1>2, <1>8
  <2>2. /\ j.wake = v /\ j.delayed = soon /\ j.overflow = r.overflow
        /\ j.xTickCount = r.xTickCount /\ j.uxMissedTicks = r.uxMissedTicks
        /\ j.xNextTaskUnblockTime = next
    BY <2>1, <1>1, <1>6, ZenonT(30) DEF Kernel
  <2> QED
    BY <2>2, <1>5, <1>8 DEF v, next, Overflown, Delayed
<1> QED
  BY <1>2, <1>7, <1>8

-----------------------------------------------------------------------------
(* FreeRTOSTasks implements DelayLists.                                    *)

(* What is proved of DelayLists, of the scheduler's lists.                 *)
Proved == INSTANCE DelayListsProofs WITH
  tick     <- k.xTickCount,
  next     <- k.xNextTaskUnblockTime,
  delayed  <- ToSet(k.delayed),
  overflow <- ToSet(k.overflow),
  wake     <- [t \in Task |-> k.wake[t]],
  released <- ToSet(k.pending) \cap (ToSet(k.delayed) \cup ToSet(k.overflow)),
  left     <- [t \in Task |-> IF Blocked(k, t) THEN due[t] + k.uxMissedTicks ELSE 0]

(* The lists mean what DelayLists says, and who does not sleep has no wake *)
(* time.                                                                   *)
Timed ==
  /\ due \in [Tasks -> Int]
  /\ \A t \in Tasks : t \notin Asleep(k) => k.wake[t] = 0
  /\ Proved!IInv

(* The sleeping tasks whose wait is over while the scheduler is suspended. *)
Released(r) == Pending(r) \cap Asleep(r)

(* Who is blocked, by the members of the lists.                            *)
LEMMA BlockedIs ==
  ASSUME NEW r \in Kernel, NEW t
  PROVE  Blocked(r, t) <=> t \in Asleep(r)
BY KernelTypes, MembersOf DEF Blocked, Asleep, Delayed, Overflown

(* Wake times and what is left of the delays.                              *)
LEMMA TimedIs ==
  ASSUME IInv, Timed
  PROVE  /\ OnTime(k) /\ due \in [Tasks -> Int] /\ k.uxMissedTicks \in Nat
         /\ \A t \in Delayed(k) :
              due[t] + k.uxMissedTicks = k.wake[t] - k.xTickCount
         /\ \A t \in Overflown(k) :
              due[t] + k.uxMissedTicks = k.wake[t] + MaxDelay + 1 - k.xTickCount
         /\ \A t \in Asleep(k) : due[t] + k.uxMissedTicks > 0
<1>1. \A t \in Asleep(k) : t \in Task
  BY IInvIs, SleepersAreTasks
<1>2. \A t \in Task : Blocked(k, t) <=> t \in Asleep(k)
  BY IInvIs, BlockedIs
<1>3. \A t \in Delayed(k) :
        /\ k.xTickCount < k.wake[t] /\ k.xNextTaskUnblockTime <= k.wake[t]
        /\ due[t] + k.uxMissedTicks = k.wake[t] - k.xTickCount
  BY <1>1, <1>2 DEF Timed, Proved!IInv, Proved!ListsMeanWhatTheySay, Delayed, Asleep
<1>4. \A t \in Overflown(k) :
        /\ k.wake[t] < k.xTickCount
        /\ due[t] + k.uxMissedTicks = k.wake[t] + MaxDelay + 1 - k.xTickCount
  BY <1>1, <1>2 DEF Timed, Proved!IInv, Proved!ListsMeanWhatTheySay, Overflown, Asleep
<1>5. \A t \in Asleep(k) : due[t] + k.uxMissedTicks > 0
  BY <1>1, <1>2
     DEF Timed, Proved!IInv, Proved!WakesOnTime, Proved!Blocked, Delayed, Overflown, Asleep
<1>6. k.uxMissedTicks \in Nat
  BY IInvIs, KernelTypes, FreeRTOSAssumption
<1> QED
  BY <1>3, <1>4, <1>5, <1>6 DEF Timed, OnTime

(* The promise in the two modules that make it is the same.                *)
LEMMA AdvanceIsProved ==
  ASSUME NEW n, NEW gone, Delays!Advance(n, gone)
  PROVE  Proved!Advance(n, gone)
BY DEF Delays!Advance, Proved!Advance, Delays!Earliest, Proved!Earliest,
       Delays!After, Proved!After

(* So are its steps.                                                       *)
LEMMA NextIsProved ==
  ASSUME [Delays!Next]_Delays!vars
  PROVE  [Proved!Next]_Proved!vars
<1>1. CASE UNCHANGED Delays!vars
  BY <1>1 DEF Delays!vars, Proved!vars
<1>2. ASSUME NEW t \in Task, NEW n \in 1 .. MaxDelay, Delays!DelayFor(t, n)
      PROVE  Proved!Next
  <2>1. Proved!DelayFor(t, n)
    BY <1>2 DEF Delays!DelayFor, Proved!DelayFor, Delays!Blocked, Proved!Blocked,
                Delays!After, Proved!After
  <2> QED
    BY <2>1 DEF Proved!Next
<1>3. ASSUME NEW t \in Task, Delays!Leave(t)
      PROVE  Proved!Next
  <2>1. Proved!Advance(0, {t})
    BY <1>3, AdvanceIsProved DEF Delays!Leave
  <2>2. Proved!Leave(t)
    BY <2>1, <1>3 DEF Delays!Leave, Proved!Leave, Delays!Blocked, Proved!Blocked
  <2> QED
    BY <2>2 DEF Proved!Next
<1>4. ASSUME NEW t \in Task, Delays!Release(t)
      PROVE  Proved!Next
  <2>1. Proved!Release(t)
    BY <1>4 DEF Delays!Release, Proved!Release, Delays!Blocked, Proved!Blocked
  <2> QED
    BY <2>1 DEF Proved!Next
<1>5. ASSUME NEW n \in 0 .. MaxDelay, Delays!Elapse(n)
      PROVE  Proved!Next
  <2>1. Proved!Elapse(n)
    BY <1>5 DEF Delays!Elapse, Proved!Elapse, Delays!Advance, Proved!Advance,
                Delays!Earliest, Proved!Earliest, Delays!After, Proved!After
  <2> QED
    BY <2>1 DEF Proved!Next
<1> QED
  BY <1>1, <1>2, <1>3, <1>4, <1>5 DEF Delays!Next

(* A step by which tasks are taken off the lists and time passes advances  *)
(* DelayLists: nobody leaves and no tick passes, or one task leaves, or is *)
(* released to leave later, or ticks pass after the released have left.    *)
LEMMA StepAdvances ==
  ASSUME IInv, Timed, IInv', due' \in [Tasks -> Int],
         NEW n \in 0 .. MaxDelay, NEW gone \in SUBSET Asleep(k),
         Advanced(k, k', n, gone),
         \A t \in Asleep(k') :
           due'[t] + k'.uxMissedTicks = (due[t] + k.uxMissedTicks) - n,
         \/ n = 0 /\ gone = {} /\ Released(k') = Released(k)
         \/ /\ n = 0
            /\ \E u \in Task : gone = {u} /\ Released(k') = Released(k) \ {u}
         \/ /\ n = 0 /\ gone = {}
            /\ \E u \in Asleep(k) \ Pending(k) : Released(k') = Released(k) \cup {u}
         \/ gone = Released(k) /\ Released(k') = {}
  PROVE  [Delays!Next]_Delays!vars /\ Timed'
<1> DEFINE x == k.xTickCount
           now == After(x, n)
           late == k.xNextTaskUnblockTime
           w == k.wake
           L == [t \in Tasks |-> IF t \in Asleep(k) THEN due[t] + k.uxMissedTicks ELSE 0]
           M == [t \in Tasks |-> IF t \in Asleep(k') THEN due'[t] + k'.uxMissedTicks ELSE 0]
<1>1. /\ Sound(k) /\ k \in Kernel /\ k' \in Kernel /\ Sound(k')
      /\ Task \subseteq Tasks /\ Asleep(k) \subseteq Task /\ Asleep(k') \subseteq Task
  <2>1. Sound(k) /\ Sound(k') /\ Task \subseteq Tasks
    BY IInvIs DEF IInv
  <2> QED
    BY <2>1, SleepersAreTasks DEF Sound
<1>2. /\ x \in 0 .. MaxDelay /\ now \in 0 .. MaxDelay /\ late \in Int /\ MaxDelay \in Nat
      /\ w \in [Tasks -> Int] /\ \A t \in Tasks : w[t] \in 0 .. MaxDelay
      /\ now < x => x + n > MaxDelay /\ now = x + n - MaxDelay - 1
      /\ now >= x => now = x + n
  <2>1. x \in Ticks /\ late \in Ticks /\ w \in [Tasks -> Ticks]
    BY <1>1, KernelTypes
  <2>2. MaxDelay \in Nat \ {0}
    BY FreeRTOSAssumption
  <2> HIDE DEF x, late, w
  <2> QED
    BY <2>1, <2>2, SMT DEF Ticks, After
<1>3. /\ L \in [Tasks -> Int] /\ M \in [Tasks -> Int]
      /\ \A t \in Tasks : t \notin Asleep(k) => L[t] = 0
      /\ \A t \in Tasks : t \notin Asleep(k') => M[t] = 0
      /\ \A t \in Asleep(k') : M[t] = (due[t] + k.uxMissedTicks) - n
  <2>1. k.uxMissedTicks \in Int /\ k'.uxMissedTicks \in Int /\ due \in [Tasks -> Int]
    BY <1>1, KernelTypes, FreeRTOSAssumption DEF Timed
  <2> QED
    BY <2>1, <1>1
<1>4. /\ \A t \in Delayed(k) : L[t] = w[t] - x
      /\ \A t \in Overflown(k) : L[t] = w[t] + MaxDelay + 1 - x
      /\ \A t \in Overflown(k) : w[t] < x
  <2>1. /\ \A t \in Delayed(k) : due[t] + k.uxMissedTicks = w[t] - x
        /\ \A t \in Overflown(k) : due[t] + k.uxMissedTicks = w[t] + MaxDelay + 1 - x
        /\ OnTime(k)
    BY TimedIs
  <2> QED
    BY <2>1, <1>1 DEF Asleep, OnTime
<1>5. /\ k'.xTickCount = now
      /\ \/ /\ now < x
            /\ Delayed(k') = {t \in Overflown(k) \ gone : w[t] > now}
            /\ Overflown(k') = {}
            /\ Soonest(k'.xNextTaskUnblockTime, w, Delayed(k'))
         \/ /\ now >= x
            /\ Delayed(k') = {t \in Delayed(k) \ gone : w[t] > now}
            /\ Overflown(k') = Overflown(k) \ gone
            /\ \/ now < late /\ k'.xNextTaskUnblockTime = late
               \/ /\ now >= late /\ n > 0
                  /\ Soonest(k'.xNextTaskUnblockTime, w, Delayed(k'))
               \/ n = 0 /\ k'.xNextTaskUnblockTime = late
      /\ \A t \in Tasks : k'.wake[t] = IF t \in Asleep(k') THEN w[t] ELSE 0
  BY DEF Advanced
<1>6. /\ Asleep(k') \subseteq Asleep(k) \ gone
      /\ \A t \in Asleep(k') : M[t] = L[t] - n
  <2>1. Asleep(k') \subseteq Asleep(k) \ gone
    BY <1>5 DEF Asleep
  <2>2. \A t \in Asleep(k') : t \in Asleep(k) /\ t \in Tasks
    BY <2>1, <1>1
  <2>3. \A t \in Asleep(k') : L[t] = due[t] + k.uxMissedTicks
    BY <2>2
  <2> HIDE DEF L, M
  <2> QED
    BY <2>1, <2>3, <1>3
<1> HIDE DEF x, now, late, w, L, M
<1>7. ASSUME NEW t \in Task
      PROVE  M[t] = IF t \in gone \/ L[t] <= n THEN 0 ELSE L[t] - n
  <2>1. t \in Tasks /\ L[t] \in Int /\ n \in Int /\ w[t] \in 0 .. MaxDelay
    BY <1>1, <1>2, <1>3
  <2>2. CASE t \notin Asleep(k)
    <3>1. L[t] = 0 /\ M[t] = 0
      BY <2>1, <2>2, <1>3, <1>6
    <3> QED
      BY <3>1
  <2>3. CASE t \in gone
    BY <2>1, <2>3, <1>3, <1>6
  <2>4. CASE t \in Delayed(k) \ gone
    <3>1. L[t] = w[t] - x
      BY <2>4, <1>4
    <3>2. CASE now < x
      <4>1. t \notin Overflown(k)
        BY <2>4, <1>1 DEF Sound, Apart
      <4>2. t \notin Asleep(k')
        BY <4>1, <3>2, <1>2, <1>5 DEF Asleep
      <4>3. L[t] <= n
        BY <3>1, <3>2, <2>1, <1>2
      <4> QED
        BY <4>2, <4>3, <2>1, <1>3
    <3>3. CASE now >= x
      <4>1. t \notin Overflown(k)
        BY <2>4, <1>1 DEF Sound, Apart
      <4>2. t \in Asleep(k') <=> w[t] > now
        BY <4>1, <3>3, <2>4, <1>2, <1>5 DEF Asleep
      <4>3. L[t] <= n <=> ~ (w[t] > now)
        BY <3>1, <3>3, <2>1, <1>2
      <4> QED
        BY <4>2, <4>3, <2>1, <2>4, <1>3, <1>6
    <3> QED
      BY <3>2, <3>3, <1>2
  <2>5. CASE t \in Overflown(k) \ gone
    <3>1. L[t] = w[t] + MaxDelay + 1 - x /\ w[t] < x
      BY <2>5, <1>4
    <3>2. CASE now < x
      <4>1. t \in Asleep(k') <=> w[t] > now
        BY <3>2, <2>5, <1>2, <1>5 DEF Asleep
      <4>2. L[t] <= n <=> ~ (w[t] > now)
        BY <3>1, <3>2, <2>1, <1>2
      <4> QED
        BY <4>1, <4>2, <2>1, <2>5, <1>3, <1>6
    <3>3. CASE now >= x
      <4>1. t \in Asleep(k')
        BY <3>3, <2>5, <1>2, <1>5 DEF Asleep
      <4>2. ~ (L[t] <= n)
        BY <3>1, <3>3, <2>1, <1>2
      <4> QED
        BY <4>1, <4>2, <2>5, <1>6
    <3> QED
      BY <3>2, <3>3, <1>2
  <2> QED
    BY <2>2, <2>3, <2>4, <2>5 DEF Asleep
<1>8. /\ [t \in Task |-> IF Blocked(k, t) THEN due[t] + k.uxMissedTicks ELSE 0]
           = [t \in Task |-> L[t]]
      /\ [t \in Task |-> IF Blocked(k', t) THEN due'[t] + k'.uxMissedTicks ELSE 0]
           = [t \in Task |-> M[t]]
  <2>1. \A t \in Task : /\ Blocked(k, t) <=> t \in Asleep(k)
                        /\ Blocked(k', t) <=> t \in Asleep(k')
    BY <1>1, BlockedIs
  <2> QED
    BY <2>1, <1>1 DEF L, M
<1>9. Delays!Advance(n, gone)
  <2> DEFINE left == [t \in Task |-> L[t]]
             wake == [t \in Task |-> w[t]]
             still == Delayed(k) \ gone
             over == Overflown(k) \ gone
  <2>1. /\ k'.xTickCount = now
        /\ \/ /\ now < x
              /\ Delayed(k') = {t \in over : wake[t] > now}
              /\ Overflown(k') = {}
              /\ Delays!Earliest(k'.xNextTaskUnblockTime, Delayed(k'))
           \/ /\ now >= x
              /\ Delayed(k') = {t \in still : wake[t] > now}
              /\ Overflown(k') = over
              /\ \/ now < late /\ k'.xNextTaskUnblockTime = late
                 \/ /\ now >= late /\ n > 0
                    /\ Delays!Earliest(k'.xNextTaskUnblockTime, Delayed(k'))
                 \/ n = 0 /\ k'.xNextTaskUnblockTime = late
    <3>1. \A t \in Asleep(k) : wake[t] = w[t]
      BY <1>1
    <3>2. Soonest(k'.xNextTaskUnblockTime, w, Delayed(k'))
            => Delays!Earliest(k'.xNextTaskUnblockTime, Delayed(k'))
      <4>1. Delayed(k') \subseteq Asleep(k)
        BY <1>6 DEF Asleep
      <4> QED
        BY <4>1, <3>1 DEF Soonest, Delays!Earliest, w
    <3>3. {t \in over : wake[t] > now} = {t \in over : w[t] > now}
          /\ {t \in still : wake[t] > now} = {t \in still : w[t] > now}
      BY <3>1 DEF Asleep
    <3> QED
      BY <3>2, <3>3, <1>5
  <2>2. [t \in Task |-> M[t]] =
          [t \in Task |-> IF t \in gone \/ left[t] <= n THEN 0 ELSE left[t] - n]
    BY <1>7
  <2>3. [t \in Task |-> k'.wake[t]] =
          [t \in Task |-> IF t \in Delayed(k') \cup Overflown(k') THEN wake[t] ELSE 0]
    BY <1>1, <1>5 DEF Asleep
  <2>4. now = Delays!After(k.xTickCount, n)
    BY DEF now, x, After, Delays!After
  <2> HIDE DEF wake, left
  <2>5. /\ [t \in Task |-> IF Blocked(k, t) THEN due[t] + k.uxMissedTicks ELSE 0] = left
        /\ [t \in Task |-> k.wake[t]] = wake
    BY <1>8 DEF left, wake, w
  <2> QED
    BY <2>1, <2>2, <2>3, <2>4, <2>5, <1>8
       DEF Delays!Advance, x, late, Delayed, Overflown
<1>10. [Delays!Next]_Delays!vars
  <2> DEFINE rel == ToSet(k.pending) \cap (ToSet(k.delayed) \cup ToSet(k.overflow))
             relAfter == ToSet(k'.pending) \cap (ToSet(k'.delayed) \cup ToSet(k'.overflow))
  <2>1. rel = Released(k) /\ relAfter = Released(k')
    BY DEF Released, Pending, Asleep, Delayed, Overflown
  <2>2. \A u : Delays!Blocked(u) <=> u \in Asleep(k)
    BY DEF Delays!Blocked, Asleep, Delayed, Overflown
  <2>3. n = 0 /\ gone = {} =>
          UNCHANGED <<k.xTickCount, k.xNextTaskUnblockTime, ToSet(k.delayed),
                      ToSet(k.overflow), [t \in Task |-> k.wake[t]],
                      [t \in Task |-> IF Blocked(k, t) THEN due[t] + k.uxMissedTicks ELSE 0]>>
    <3>1. Proved!IInv /\ MaxDelay \in Nat \ {0}
      BY FreeRTOSAssumption DEF Timed
    <3>2. Proved!Advance(n, gone)
      BY <1>9, AdvanceIsProved
    <3> QED
      BY <3>1, <3>2, Proved!NothingAdvances
  <2>4. CASE n = 0 /\ gone = {} /\ Released(k') = Released(k)
    BY <2>1, <2>3, <2>4 DEF Delays!vars
  <2>5. ASSUME n = 0, NEW u \in Task, gone = {u}, Released(k') = Released(k) \ {u}
        PROVE  Delays!Next
    <3>1. Delays!Leave(u)
      BY <1>9, <2>1, <2>2, <2>5 DEF Delays!Leave
    <3> QED
      BY <3>1 DEF Delays!Next
  <2>6. ASSUME n = 0, gone = {}, NEW u \in Asleep(k) \ Pending(k),
               Released(k') = Released(k) \cup {u}
        PROVE  Delays!Next
    <3>1. u \notin Released(k) /\ u \in Task
      BY <1>1 DEF Released
    <3>2. Delays!Release(u)
      BY <2>1, <2>2, <2>3, <2>6, <3>1 DEF Delays!Release
    <3> QED
      BY <3>1, <3>2 DEF Delays!Next
  <2>7. ASSUME gone = Released(k), Released(k') = {}
        PROVE  Delays!Next
    <3>1. gone = rel /\ relAfter = {}
      BY <2>1, <2>7
    <3>2. Delays!Elapse(n)
      BY <1>9, <3>1 DEF Delays!Elapse, Delays!Advance
    <3> QED
      BY <3>2 DEF Delays!Next
  <2> QED
    BY <2>4, <2>5, <2>6, <2>7
<1>11. Proved!IInv'
  BY <1>10, NextIsProved, FreeRTOSAssumption, Proved!StepKeepsIt DEF Timed
<1> QED
  BY <1>5, <1>10, <1>11 DEF Timed

(* The running task goes to sleep: DelayLists delays it.                   *)
LEMMA SleepDelays ==
  ASSUME IInv, Timed, IInv', k.uxMissedTicks = 0,
         NEW t \in Task, k.pxCurrentTCB = t, t \notin Asleep(k),
         NEW i, Sound(i), i.pxCurrentTCB = t, i.wake = k.wake, SameClock(k, i),
         Delayed(i) = Delayed(k), Overflown(i) = Overflown(k),
         Pending(k) = {}, Pending(i) = {},
         NEW n \in 1 .. MaxDelay, NEW time, time = After(k.xTickCount, n),
         Sleep(i, time, n)
  PROVE  [Delays!Next]_Delays!vars /\ Timed'
<1> DEFINE a == RemoveGeneric(i, t)
           j == prvAddCurrentTaskToDelayedList(a, time)
           left == [u \in Task |-> IF Blocked(k, u) THEN due[u] + k.uxMissedTicks ELSE 0]
           wake == [u \in Task |-> k.wake[u]]
<1>1. k' = j /\ due' = [due EXCEPT ![t] = n]
  BY DEF Sleep
<1>2. /\ Sound(k) /\ k \in Kernel /\ k' \in Kernel /\ t \in Tasks
      /\ Task \subseteq Tasks /\ Asleep(k) \subseteq Task /\ Asleep(k') \subseteq Task
      /\ k.wake \in [Tasks -> Ticks] /\ k.xTickCount \in Ticks /\ time \in Ticks
      /\ due \in [Tasks -> Int] /\ n \in Int /\ n \in 0 .. MaxDelay
  <2>1. Sound(k) /\ Sound(k') /\ Task \subseteq Tasks
    BY IInvIs DEF IInv
  <2>2. k.wake \in [Tasks -> Ticks] /\ k.xTickCount \in Ticks
    BY <2>1, KernelTypes DEF Sound
  <2>3. n \in 0 .. MaxDelay
    BY FreeRTOSAssumption
  <2> QED
    BY <2>1, <2>2, <2>3, SleepersAreTasks, LaterIsTick DEF Sound, Timed
<1>3. /\ Sound(a) /\ Off(a, t)
      /\ Delayed(a) = Delayed(k) /\ Overflown(a) = Overflown(k)
      /\ a.wake = [k.wake EXCEPT ![t] = 0]
      /\ a.pxCurrentTCB = t /\ SameClock(k, a) /\ Pending(a) = {}
  <2>1. /\ Sound(a) /\ Off(a, t)
        /\ \A p \in Priority : ReadyAt(a, p) = ReadyAt(i, p) \ {t}
        /\ Delayed(a) = Delayed(i) \ {t} /\ Overflown(a) = Overflown(i) \ {t}
        /\ Suspended(a) = Suspended(i) \ {t}
        /\ Terminated(a) = Terminated(i) \ {t}
        /\ Waiting(a) = Waiting(i) /\ Pending(a) = Pending(i)
        /\ a.event = i.event /\ a.pending = i.pending
        /\ a.wake = [i.wake EXCEPT ![t] = 0]
        /\ a.uxTopReadyPriority = i.uxTopReadyPriority
        /\ Steady(i, a) /\ SameClock(i, a)
    BY RemoveGenericKeeps
  <2> HIDE DEF a
  <2> QED
    BY <2>1 DEF Steady, SameClock, Asleep
<1> HIDE DEF a
<1>12. Pending(j) = {}
  <2>1. a \in Kernel
    BY <1>3 DEF Sound
  <2> QED
    BY <2>1, <1>3 DEF prvAddCurrentTaskToDelayedList, Pending, Kernel
<1>4. /\ j.wake = [k.wake EXCEPT ![t] = time]
      /\ j.xTickCount = k.xTickCount /\ j.uxMissedTicks = 0
      /\ \/ /\ time < k.xTickCount
            /\ Overflown(j) = Overflown(k) \cup {t}
            /\ Delayed(j) = Delayed(k)
            /\ j.xNextTaskUnblockTime = k.xNextTaskUnblockTime
         \/ /\ time >= k.xTickCount
            /\ Delayed(j) = Delayed(k) \cup {t}
            /\ Overflown(j) = Overflown(k)
            /\ j.xNextTaskUnblockTime =
                 IF time < k.xNextTaskUnblockTime THEN time ELSE k.xNextTaskUnblockTime
  <2>1. Off(a, a.pxCurrentTCB)
    BY <1>3
  <2>2. /\ j.wake = [a.wake EXCEPT ![a.pxCurrentTCB] = time]
        /\ j.xTickCount = a.xTickCount /\ j.uxMissedTicks = a.uxMissedTicks
        /\ \/ /\ time < a.xTickCount
              /\ Overflown(j) = Overflown(a) \cup {a.pxCurrentTCB}
              /\ Delayed(j) = Delayed(a)
              /\ j.xNextTaskUnblockTime = a.xNextTaskUnblockTime
           \/ /\ time >= a.xTickCount
              /\ Delayed(j) = Delayed(a) \cup {a.pxCurrentTCB}
              /\ Overflown(j) = Overflown(a)
              /\ j.xNextTaskUnblockTime =
                   IF time < a.xNextTaskUnblockTime THEN time ELSE a.xNextTaskUnblockTime
    BY <2>1, <1>2, <1>3, SleepPlaces
  <2>3. [a.wake EXCEPT ![t] = time] = [k.wake EXCEPT ![t] = time]
    BY <1>2, <1>3
  <2> HIDE DEF j
  <2> QED
    BY <2>2, <2>3, <1>3 DEF SameClock
<1> HIDE DEF j
<1>5. Asleep(k') = Asleep(k) \cup {t}
  BY <1>1, <1>4 DEF Asleep
<1>6. [u \in Task |-> k'.wake[u]] = [wake EXCEPT ![t] = time]
  BY <1>1, <1>2, <1>4
<1>7. [u \in Task |-> IF Blocked(k', u) THEN due'[u] + k'.uxMissedTicks ELSE 0]
        = [left EXCEPT ![t] = n]
  <2>1. \A u \in Task : /\ Blocked(k, u) <=> u \in Asleep(k)
                        /\ Blocked(k', u) <=> u \in Asleep(k')
    BY <1>2, BlockedIs
  <2>2. k'.uxMissedTicks = 0 /\ due'[t] = n /\ \A u \in Task : u # t => due'[u] = due[u]
    BY <1>1, <1>2, <1>4
  <2>3. ASSUME NEW u \in Task
        PROVE  (IF Blocked(k', u) THEN due'[u] + k'.uxMissedTicks ELSE 0)
                 = IF u = t THEN n ELSE left[u]
    <3>1. CASE u = t
      BY <3>1, <2>1, <2>2, <1>2, <1>5
    <3>2. CASE u # t
      <4>1. Blocked(k', u) <=> Blocked(k, u)
        BY <3>2, <2>1, <1>5
      <4> QED
        BY <4>1, <3>2, <2>2
    <3> QED
      BY <3>1, <3>2
  <2> HIDE DEF left
  <2>4. left \in [Task -> {left[u] : u \in Task}]
    BY DEF left
  <2> QED
    BY <2>3, <2>4
<1>8. Delays!DelayFor(t, n)
  <2>1. time = Delays!After(k.xTickCount, n)
    BY DEF After, Delays!After
  <2>2. k'.xTickCount = k.xTickCount
    BY <1>1, <1>4
  <2>3. \/ /\ time < k.xTickCount
           /\ ToSet(k'.overflow) = ToSet(k.overflow) \cup {t}
           /\ ToSet(k'.delayed) = ToSet(k.delayed)
           /\ k'.xNextTaskUnblockTime = k.xNextTaskUnblockTime
        \/ /\ time >= k.xTickCount
           /\ ToSet(k'.delayed) = ToSet(k.delayed) \cup {t}
           /\ ToSet(k'.overflow) = ToSet(k.overflow)
           /\ k'.xNextTaskUnblockTime =
                IF time < k.xNextTaskUnblockTime THEN time ELSE k.xNextTaskUnblockTime
    BY <1>1, <1>4 DEF Delayed, Overflown
  <2>4. t \notin ToSet(k.delayed) \cup ToSet(k.overflow)
    BY DEF Asleep, Delayed, Overflown
  <2>5. /\ ToSet(k.pending) \cap (ToSet(k.delayed) \cup ToSet(k.overflow)) = {}
        /\ ToSet(k'.pending) \cap (ToSet(k'.delayed) \cup ToSet(k'.overflow)) = {}
    BY <1>1, <1>12 DEF Pending
  <2> HIDE DEF left, wake
  <2> QED
    BY <2>1, <2>2, <2>3, <2>4, <2>5, <1>6, <1>7
       DEF Delays!DelayFor, Delays!Blocked, left, wake
<1>9. [Delays!Next]_Delays!vars
  BY <1>8 DEF Delays!Next
<1>10. Proved!IInv'
  BY <1>9, NextIsProved, FreeRTOSAssumption, Proved!StepKeepsIt DEF Timed
<1>11. due' \in [Tasks -> Int] /\ \A u \in Tasks : u \notin Asleep(k') => k'.wake[u] = 0
  BY <1>1, <1>2, <1>4, <1>5 DEF Timed
<1> QED
  BY <1>9, <1>10, <1>11 DEF Timed

(* What takes a task at most off the lists and takes no time: it leaves    *)
(* DelayLists, if it was asleep.                                           *)
LEMMA TakingAdvances ==
  ASSUME IInv, Timed, IInv', NEW r, NEW w, Goto(r, w),
         NEW u, NEW W \in SUBSET {u}, Taken(k, r, W),
         r.uxMissedTicks = k.uxMissedTicks,
         \/ Pending(r) = Pending(k)
         \/ W = {u} /\ Pending(r) = Pending(k) \ {u}
         \/ /\ W = {} /\ Pending(r) = Pending(k) \cup {u}
            /\ u \notin Pending(k)
  PROVE  [Delays!Next]_Delays!vars /\ Timed'
<1> DEFINE gone == W \cap Asleep(k)
<1>1. k' = r /\ due' = [t \in Tasks |-> IF Blocked(r, t) THEN due[t] ELSE 0]
  BY DEF Goto
<1>2. /\ Sound(k) /\ k' \in Kernel /\ Asleep(k') \subseteq Tasks /\ OnTime(k)
      /\ due \in [Tasks -> Int] /\ k.uxMissedTicks \in Nat /\ Asleep(k) \subseteq Task
  <2>1. Sound(k) /\ Sound(k') /\ Task \subseteq Tasks
    BY IInvIs DEF IInv
  <2> QED
    BY <2>1, SleepersAreTasks, TimedIs DEF Sound
<1>3. \A t \in Asleep(k') : due'[t] = due[t]
  BY <1>1, <1>2, BlockedIs
<1>4. \A t \in Asleep(k') : due'[t] + k'.uxMissedTicks = (due[t] + k.uxMissedTicks) - 0
  <2>1. \A t \in Asleep(k') : due[t] + k.uxMissedTicks \in Int
    BY <1>2
  <2> QED
    BY <2>1, <1>1, <1>3
<1>5. due' \in [Tasks -> Int]
  BY <1>1, <1>2
<1>6. Advanced(k, k', 0, gone)
  BY <1>1, <1>2, TakenAdvances
<1>7. 0 \in 0 .. MaxDelay /\ gone \in SUBSET Asleep(k)
  BY FreeRTOSAssumption
<1>8. \/ gone = {} /\ Released(k') = Released(k)
      \/ gone = {u} /\ u \in Task /\ Released(k') = Released(k) \ {u}
      \/ /\ gone = {}
         /\ u \in Asleep(k) \ Pending(k) /\ Released(k') = Released(k) \cup {u}
  <2>1. Asleep(k') = Asleep(k) \ W /\ Pending(k') = Pending(r)
    BY <1>1 DEF Taken, Asleep
  <2>2. CASE W = {}
    BY <2>1, <2>2 DEF Released
  <2>3. CASE W = {u}
    <3>1. Asleep(k') = Asleep(k) \ {u}
      BY <2>1, <2>3
    <3>2. Released(k') = Released(k) \ {u}
      BY <2>1, <2>3, <3>1 DEF Released
    <3>3. CASE u \in Asleep(k)
      BY <3>2, <3>3, <2>3, <1>2
    <3>4. CASE u \notin Asleep(k)
      BY <3>2, <3>4, <2>3 DEF Released
    <3> QED
      BY <3>3, <3>4
  <2> QED
    BY <2>2, <2>3
<1> HIDE DEF gone
<1> QED
  BY <1>4, <1>5, <1>6, <1>7, <1>8, StepAdvances

(* The same when nobody is taken off.                                      *)
LEMMA KeepingAdvances ==
  ASSUME IInv, Timed, IInv', NEW r, NEW w, Goto(r, w), Taken(k, r, {}),
         r.uxMissedTicks = k.uxMissedTicks, Pending(r) = Pending(k)
  PROVE  [Delays!Next]_Delays!vars /\ Timed'
<1>1. {} \in SUBSET {Idle}
  OBVIOUS
<1> QED
  BY <1>1, TakingAdvances

(* A switch at the end takes nobody off.                                   *)
LEMMA SwitchIfTakes ==
  ASSUME IInv, NEW j, Sound(j), NEW W, Taken(k, j, W), j.uxMissedTicks = k.uxMissedTicks,
         NEW c \in BOOLEAN, NEW r, r = SwitchIf(c, j)
  PROVE  /\ Taken(k, r, W) /\ r.uxMissedTicks = k.uxMissedTicks
         /\ Pending(r) = Pending(j)
<1>1. CASE c
  <2>1. /\ Taken(j, r, {}) /\ r.uxMissedTicks = j.uxMissedTicks
        /\ Pending(r) = Pending(j)
    BY <1>1, SwitchTakesNone DEF SwitchIf
  <2>2. Taken(k, r, W \cup {})
    BY <2>1, TakenTwice
  <2>3. W \cup {} = W
    OBVIOUS
  <2> QED
    BY <2>1, <2>2, <2>3
<1>2. CASE ~ c
  BY <1>2 DEF SwitchIf
<1> QED
  BY <1>1, <1>2

(* A delay from now.                                                       *)
LEMMA DelayCallDelays ==
  ASSUME IInv, Timed, IInv', NEW t \in Task, Runs(t), NEW n \in 0 .. MaxDelay,
         vTaskDelay(n)
  PROVE  [Delays!Next]_Delays!vars /\ Timed'
<1> DEFINE i == vTaskSuspendAll(k)
           time == After(k.xTickCount, n)
<1>1. /\ k.pxCurrentTCB = t /\ t \in Tasks /\ t \notin Asleep(k)
      /\ k.uxSchedulerSuspended = 0 /\ k.uxMissedTicks = 0
  BY Running
<1>2. CASE n > 0 /\ Sleep(i, time, n)
  <2>1. n \in 1 .. MaxDelay
    BY <1>2
  <2>2. /\ Sound(i) /\ SameLists(k, i) /\ SameClock(k, i)
        /\ i.pxCurrentTCB = t /\ Pending(k) = {} /\ Pending(i) = {}
    BY <1>1, Halted, Running
  <2> HIDE DEF i
  <2>3. Delayed(i) = Delayed(k) /\ Overflown(i) = Overflown(k) /\ i.wake = k.wake
    BY <2>2 DEF SameLists, Delayed, Overflown
  <2> QED
    BY <2>1, <2>2, <2>3, <1>1, <1>2, SleepDelays
<1>3. CASE n = 0 /\ Goto(k, "yield")
  BY <1>3, TakenNone, KeepingAdvances DEF SameClock
<1> QED
  BY <1>2, <1>3 DEF vTaskDelay

(* A period since the last wake-up ends after what is left of it.          *)
LEMMA PeriodEnds ==
  ASSUME NEW last \in Ticks, NEW now \in Ticks, NEW inc \in 1 .. MaxDelay,
         ShouldDelay(last, After(last, inc), now)
  PROVE  /\ inc - Since(now, last) \in 1 .. MaxDelay
         /\ After(last, inc) = After(now, inc - Since(now, last))
BY FreeRTOSAssumption, SMT DEF ShouldDelay, After, Since, Ticks

(* A delay from the last wake-up.                                          *)
LEMMA DelayUntilDelays ==
  ASSUME IInv, Timed, IInv', NEW t \in Task, Runs(t), NEW last \in Ticks,
         NEW inc \in 1 .. MaxDelay, vTaskDelayUntil(last, inc)
  PROVE  [Delays!Next]_Delays!vars /\ Timed'
<1> DEFINE i == vTaskSuspendAll(k)
           time == After(last, inc)
           n == inc - Since(k.xTickCount, last)
<1>1. /\ k.pxCurrentTCB = t /\ t \in Tasks /\ t \notin Asleep(k)
      /\ k.uxSchedulerSuspended = 0 /\ k.uxMissedTicks = 0
  BY Running
<1>2. /\ Sound(i) /\ SameLists(k, i) /\ SameClock(k, i)
      /\ i.pxCurrentTCB = t /\ Pending(k) = {} /\ Pending(i) = {}
  BY <1>1, Halted, Running
<1>3. \/ ShouldDelay(last, time, k.xTickCount) /\ Sleep(i, time, n)
      \/ Goto(i, "resume")
  BY DEF vTaskDelayUntil
<1> HIDE DEF i
<1>4. /\ Delayed(i) = Delayed(k) /\ Overflown(i) = Overflown(k) /\ i.wake = k.wake
      /\ i.delayed = k.delayed /\ i.overflow = k.overflow
  BY <1>2 DEF SameLists, Delayed, Overflown
<1>5. CASE ShouldDelay(last, time, k.xTickCount) /\ Sleep(i, time, n)
  <2>1. k.xTickCount \in Ticks
    BY IInvIs, KernelTypes
  <2>2. n \in 1 .. MaxDelay /\ time = After(k.xTickCount, n)
    BY <2>1, <1>5, PeriodEnds
  <2> HIDE DEF n, time
  <2> QED
    BY <2>2, <1>1, <1>2, <1>4, <1>5, SleepDelays
<1>6. CASE Goto(i, "resume")
  <2>1. Taken(k, i, {}) /\ i.uxMissedTicks = k.uxMissedTicks
    BY <1>2, <1>4, TakenNone DEF SameClock
  <2> QED
    BY <2>1, <1>2, <1>6, KeepingAdvances
<1> QED
  BY <1>3, <1>5, <1>6

(* The variables of the delays are the same in r and j.                    *)
SameDelays(r, j) ==
  /\ j.delayed = r.delayed /\ j.overflow = r.overflow /\ j.wake = r.wake
  /\ SameClock(r, j)

(* What leaves them alone.                                                 *)
LEMMA DelaysKept ==
  ASSUME NEW r \in Kernel, NEW t,
         NEW j, \/ j = vTaskSuspendAll(r)
                \/ j = [r EXCEPT !.pending = Append(@, t)]
                \/ j = [r EXCEPT !.termination = Tail(@)]
                \/ j = RemoveEvent(r, t)
                \/ j = prvAddTaskToReadyQueue(r, t)
                \/ \E p : j = WithPriority(r, t, p)
  PROVE  SameDelays(r, j) /\ Taken(r, j, {}) /\ j.uxMissedTicks = r.uxMissedTicks
<1>1. CASE j = vTaskSuspendAll(r)
  BY <1>1, TakenNone DEF Kernel, SameDelays, SameClock, vTaskSuspendAll
<1>2. CASE j = [r EXCEPT !.pending = Append(@, t)]
  BY <1>2, TakenNone DEF Kernel, SameDelays, SameClock
<1>3. CASE j = [r EXCEPT !.termination = Tail(@)]
  BY <1>3, TakenNone DEF Kernel, SameDelays, SameClock
<1>4. CASE j = RemoveEvent(r, t)
  BY <1>4, TakenNone DEF Kernel, SameDelays, SameClock, RemoveEvent
<1>5. CASE j = prvAddTaskToReadyQueue(r, t)
  BY <1>5, TakenNone DEF Kernel, SameDelays, SameClock, prvAddTaskToReadyQueue
<1>6. CASE \E p : j = WithPriority(r, t, p)
  BY <1>6, TakenNone DEF Kernel, SameDelays, SameClock, WithPriority
<1> QED
  BY <1>1, <1>2, <1>3, <1>4, <1>5, <1>6

(* Who has been put off is put off still.                                  *)
LEMMA PendingKept ==
  ASSUME NEW r \in Kernel, NEW t,
         NEW j, \/ j = vTaskSuspendAll(r)
                \/ j = [r EXCEPT !.termination = Tail(@)]
                \/ j = prvAddTaskToReadyQueue(r, t)
                \/ \E p : j = WithPriority(r, t, p)
  PROVE  Pending(j) = Pending(r)
<1>1. CASE j = vTaskSuspendAll(r) \/ j = [r EXCEPT !.termination = Tail(@)]
  BY <1>1 DEF Kernel, Pending, vTaskSuspendAll
<1>2. CASE j = prvAddTaskToReadyQueue(r, t)
  BY <1>2 DEF Kernel, Pending, prvAddTaskToReadyQueue
<1>3. CASE \E p : j = WithPriority(r, t, p)
  BY <1>3 DEF Kernel, Pending, WithPriority
<1> QED
  BY <1>1, <1>2, <1>3

(* The removal of a task takes it off.                                     *)
LEMMA RemovalTakes ==
  ASSUME NEW r, Sound(r), NEW t \in Task, NEW j, j = RemoveGeneric(r, t)
  PROVE  /\ Sound(j) /\ Taken(r, j, {t}) /\ j.uxMissedTicks = r.uxMissedTicks
         /\ Pending(j) = Pending(r)
<1>1. /\ Sound(j) /\ Off(j, t)
      /\ \A p \in Priority : ReadyAt(j, p) = ReadyAt(r, p) \ {t}
      /\ Delayed(j) = Delayed(r) \ {t} /\ Overflown(j) = Overflown(r) \ {t}
      /\ Suspended(j) = Suspended(r) \ {t}
      /\ Terminated(j) = Terminated(r) \ {t}
      /\ Waiting(j) = Waiting(r) /\ Pending(j) = Pending(r)
      /\ j.event = r.event /\ j.pending = r.pending
      /\ j.wake = [r.wake EXCEPT ![t] = 0]
      /\ j.uxTopReadyPriority = r.uxTopReadyPriority
      /\ Steady(r, j) /\ SameClock(r, j)
  BY RemoveGenericKeeps
<1>2. r.wake \in [Tasks -> Ticks]
  BY KernelTypes DEF Sound
<1> QED
  BY <1>1, <1>2 DEF Taken, SameClock

(* What takes nobody off after that.                                       *)
LEMMA TakenThenKept ==
  ASSUME NEW r, NEW i, NEW j, NEW W, Taken(r, i, W), Taken(i, j, {})
  PROVE  Taken(r, j, W)
<1>1. W \cup {} = W
  OBVIOUS
<1> QED
  BY <1>1, TakenTwice

(* A task is suspended or deleted.                                         *)
LEMMA AsideTakes ==
  ASSUME IInv, Timed, IInv', NEW u \in Task, vTaskSuspend(u) \/ vTaskDelete(u)
  PROVE  [Delays!Next]_Delays!vars /\ Timed'
<1> DEFINE a == RemoveGeneric(k, u)
           b == RemoveEvent(a, u)
           c == [b EXCEPT !.suspended = Append(@, u)]
           d == [b EXCEPT !.termination = Append(@, u)]
           w == IF u = k.pxCurrentTCB THEN "yield" ELSE "run"
<1>1. Goto(c, w) \/ Goto(d, w)
  BY DEF vTaskSuspend, vTaskDelete
<1>2. /\ Sound(a) /\ Taken(k, a, {u}) /\ a.uxMissedTicks = k.uxMissedTicks
      /\ Pending(a) = Pending(k)
  BY IInvIs, RemovalTakes
<1> HIDE DEF a
<1>3. /\ Sound(b) /\ Taken(a, b, {}) /\ b.uxMissedTicks = a.uxMissedTicks
      /\ Pending(b) = Pending(a) \ {u}
  <2>1. a \in Kernel /\ u \in Tasks
    BY <1>2, IInvIs DEF Sound
  <2>2. Sound(b) /\ Pending(b) = Pending(a) \ {u}
    BY <1>2, <2>1, RemoveEventKeeps
  <2> QED
    BY <2>1, <2>2, DelaysKept
<1> HIDE DEF b
<1>4. /\ Taken(b, c, {}) /\ c.uxMissedTicks = b.uxMissedTicks
      /\ Taken(b, d, {}) /\ d.uxMissedTicks = b.uxMissedTicks
      /\ Pending(c) = Pending(b) /\ Pending(d) = Pending(b)
  <2>1. b \in Kernel
    BY <1>3 DEF Sound
  <2>2. c = [b EXCEPT !.suspended = Append(@, u)] /\ d = [b EXCEPT !.termination = Append(@, u)]
    OBVIOUS
  <2> HIDE DEF c, d
  <2>3. Taken(b, c, {}) /\ c.uxMissedTicks = b.uxMissedTicks
    BY <2>1, <2>2, TakenNone DEF Kernel, SameClock
  <2>4. Taken(b, d, {}) /\ d.uxMissedTicks = b.uxMissedTicks
    BY <2>1, <2>2, TakenNone DEF Kernel, SameClock
  <2>5. Pending(c) = Pending(b)
    BY <2>1, <2>2 DEF Kernel, Pending
  <2>6. Pending(d) = Pending(b)
    BY <2>1, <2>2 DEF Kernel, Pending
  <2> QED
    BY <2>3, <2>4, <2>5, <2>6
<1> HIDE DEF c, d
<1>5. Taken(k, c, {u}) /\ Taken(k, d, {u})
  BY <1>2, <1>3, <1>4, TakenThenKept
<1>6. /\ c.uxMissedTicks = k.uxMissedTicks /\ d.uxMissedTicks = k.uxMissedTicks
      /\ Pending(c) = Pending(k) \ {u} /\ Pending(d) = Pending(k) \ {u}
  BY <1>2, <1>3, <1>4
<1>7. {u} \in SUBSET {u}
  OBVIOUS
<1> QED
  BY <1>1, <1>5, <1>6, <1>7, TakingAdvances

(* A task is created, with no delay.                                       *)
LEMMA CreateTakes ==
  ASSUME IInv, Timed, IInv', NEW u \in Task, NEW p \in Priority, xTaskGenericCreate(u, p)
  PROVE  [Delays!Next]_Delays!vars /\ Timed'
<1> DEFINE a == WithPriority(k, u, p)
           j == prvAddTaskToReadyQueue(a, u)
<1>1. k' = j /\ due' = due
  BY DEF xTaskGenericCreate, WithPriority
<1>2. a \in Kernel
  <2>1. [k.uxPriority EXCEPT ![u] = p] \in [Tasks -> Priority] /\ k \in Kernel
    BY IInvIs, KernelTypes
  <2> QED
    BY <2>1 DEF WithPriority, Kernel
<1>3. /\ Taken(k, a, {}) /\ a.uxMissedTicks = k.uxMissedTicks
      /\ Pending(a) = Pending(k)
  BY IInvIs, DelaysKept, PendingKept
<1> HIDE DEF a
<1>4. /\ Taken(a, j, {}) /\ j.uxMissedTicks = a.uxMissedTicks
      /\ Pending(j) = Pending(a)
  BY <1>2, DelaysKept, PendingKept
<1> HIDE DEF j
<1>5. Taken(k, j, {})
  BY <1>3, <1>4, TakenThenKept
<1>6. /\ Sound(k) /\ OnTime(k) /\ Asleep(k') = Asleep(k) /\ Asleep(k) \subseteq Tasks
      /\ due \in [Tasks -> Int] /\ k.uxMissedTicks \in Nat
  <2>1. Sound(k) /\ Task \subseteq Tasks
    BY IInvIs
  <2> QED
    BY <2>1, <1>1, <1>5, TimedIs, SleepersAreTasks DEF Taken, Asleep
<1>7. Advanced(k, k', 0, {})
  <2>1. Advanced(k, j, 0, {} \cap Asleep(k))
    BY <1>5, <1>6, TakenAdvances
  <2>2. {} \cap Asleep(k) = {}
    OBVIOUS
  <2> QED
    BY <2>1, <2>2, <1>1
<1>8. \A t \in Asleep(k') : due'[t] + k'.uxMissedTicks = (due[t] + k.uxMissedTicks) - 0
  <2>1. \A t \in Asleep(k') : due[t] + k.uxMissedTicks \in Int
    BY <1>6
  <2> QED
    BY <2>1, <1>1, <1>3, <1>4
<1>9. 0 \in 0 .. MaxDelay /\ {} \in SUBSET Asleep(k) /\ due' \in [Tasks -> Int]
  BY <1>1, <1>6, FreeRTOSAssumption
<1>10. Released(k') = Released(k)
  BY <1>1, <1>3, <1>4, <1>6 DEF Released
<1> QED
  BY <1>7, <1>8, <1>9, <1>10, StepAdvances

(* A suspended task is resumed, by another or by an interrupt.             *)
LEMMA ResumeTakes ==
  ASSUME IInv, Timed, IInv', NEW u \in Task, vTaskResume(u) \/ xTaskResumeFromISR(u)
  PROVE  [Delays!Next]_Delays!vars /\ Timed'
<1> DEFINE j == prvAddTaskToReadyQueue(RemoveGeneric(k, u), u)
           r == SwitchIf(AsUrgent(u), j)
           i == [k EXCEPT !.pending = Append(@, u)]
           w == pc[k.pxCurrentTCB]
<1>1. Goto(r, w) \/ Goto(i, w)
  BY DEF vTaskResume, xTaskResumeFromISR
<1>4. u \in Suspended(k) /\ u \notin Pending(k) /\ u \notin Waiting(k)
  BY IInvIs, KernelTypes, MembersOf
     DEF vTaskResume, xTaskResumeFromISR, xTaskIsTaskSuspended, Suspended, Pending, Waiting
<1>2. CASE Goto(i, w)
  <2>1. Taken(k, i, {}) /\ i.uxMissedTicks = k.uxMissedTicks
    <3>1. i = [k EXCEPT !.pending = Append(@, u)]
      OBVIOUS
    <3> HIDE DEF i
    <3> QED
      BY <3>1, IInvIs, DelaysKept
  <2>2. Pending(i) = Pending(k) \cup {u}
    <3>1. /\ k \in Kernel /\ k.pending \in Seq(Tasks) /\ IsInjective(k.pending)
          /\ u \in Tasks /\ u \notin ToSet(k.pending)
      BY <1>4, IInvIs, KernelTypes DEF Sound, Injective, Pending
    <3>2. i.pending = Append(k.pending, u)
      BY <3>1 DEF Kernel
    <3> HIDE DEF i
    <3> QED
      BY <3>1, <3>2, AppendIs DEF Pending
  <2>3. {} \in SUBSET {u}
    OBVIOUS
  <2> HIDE DEF i
  <2> QED
    BY <2>1, <2>2, <2>3, <1>2, <1>4, TakingAdvances
<1>3. CASE Goto(r, w)
  <2>1. u \in Suspended(k) /\ u \notin Pending(k) /\ u \notin Waiting(k)
    BY <1>4
  <2>2. u \notin Terminated(k)
    BY <2>1, IInvIs DEF Sound, Apart
  <2>3. Sound(j) /\ Woken(k, j, {u}) /\ InPlace(k, j, {u})
    BY <2>1, <2>2, IInvIs, MakeReadyKeeps
  <2> HIDE DEF j
  <2>4. /\ Taken(k, j, {u}) /\ j.uxMissedTicks = k.uxMissedTicks
        /\ Pending(j) = Pending(k) \ {u}
    BY <2>3, WokenTaken DEF InPlace, SameClock, Woken
  <2>5. AsUrgent(u) \in BOOLEAN
    BY DEF AsUrgent
  <2>6. /\ Taken(k, r, {u}) /\ r.uxMissedTicks = k.uxMissedTicks
        /\ Pending(r) = Pending(k) \ {u}
    BY <2>3, <2>4, <2>5, SwitchIfTakes
  <2>7. {u} \in SUBSET {u}
    OBVIOUS
  <2> HIDE DEF r
  <2> QED
    BY <2>6, <2>7, <1>3, TakingAdvances
<1> QED
  BY <1>1, <1>2, <1>3

(* A priority is set.                                                      *)
LEMMA PrioritySetTakes ==
  ASSUME IInv, Timed, IInv', NEW u \in Task, NEW p \in Priority, vTaskPrioritySet(u, p)
  PROVE  [Delays!Next]_Delays!vars /\ Timed'
<1> DEFINE x == WithPriority(k, u, p)
           a == RemoveGeneric(k, u)
           b == WithPriority(a, u, p)
           j == Reprioritised(u, p)
           yield == \/ p > k.uxPriority[u] /\ u # k.pxCurrentTCB
                    \/ p < k.uxPriority[u] /\ u = k.pxCurrentTCB
           r == SwitchIf(yield, j)
           w == pc[k.pxCurrentTCB]
<1>1. Goto(r, w) /\ yield \in BOOLEAN
  BY DEF vTaskPrioritySet
<1>2. Sound(j)
  BY ReprioritisedKeeps
<1>3. \E W \in SUBSET {u} : /\ Taken(k, j, W) /\ j.uxMissedTicks = k.uxMissedTicks
                            /\ Pending(j) = Pending(k)
  <2>1. j = x \/ j = prvAddTaskToReadyQueue(b, u)
    BY IInvIs, RemovalCommutes DEF Reprioritised, WithPriority
  <2> HIDE DEF j
  <2>2. CASE j = x
    <3>1. /\ Taken(k, j, {}) /\ j.uxMissedTicks = k.uxMissedTicks
          /\ Pending(j) = Pending(k)
      BY <2>2, IInvIs, DelaysKept, PendingKept
    <3> QED
      BY <3>1
  <2>3. CASE j = prvAddTaskToReadyQueue(b, u)
    <3>1. /\ Sound(a) /\ Taken(k, a, {u}) /\ a.uxMissedTicks = k.uxMissedTicks
          /\ Pending(a) = Pending(k)
      BY IInvIs, RemovalTakes
    <3> HIDE DEF a
    <3>2. a \in Kernel /\ [a.uxPriority EXCEPT ![u] = p] \in [Tasks -> Priority]
      BY <3>1, KernelTypes DEF Sound
    <3>3. /\ b \in Kernel /\ Taken(a, b, {}) /\ b.uxMissedTicks = a.uxMissedTicks
          /\ Pending(b) = Pending(a)
      <4>1. b \in Kernel
        BY <3>2 DEF WithPriority, Kernel
      <4> QED
        BY <4>1, <3>2, DelaysKept, PendingKept
    <3> HIDE DEF b
    <3>4. /\ Taken(b, j, {}) /\ j.uxMissedTicks = b.uxMissedTicks
          /\ Pending(j) = Pending(b)
      BY <3>3, <2>3, DelaysKept, PendingKept
    <3>5. Taken(k, j, {u})
      BY <3>1, <3>3, <3>4, TakenThenKept
    <3> QED
      BY <3>1, <3>3, <3>4, <3>5
  <2> QED
    BY <2>1, <2>2, <2>3
<1> HIDE DEF j, yield
<1>4. PICK W \in SUBSET {u} : /\ Taken(k, j, W) /\ j.uxMissedTicks = k.uxMissedTicks
                             /\ Pending(j) = Pending(k)
  BY <1>3
<1>5. /\ Taken(k, r, W) /\ r.uxMissedTicks = k.uxMissedTicks
      /\ Pending(r) = Pending(k)
  BY <1>1, <1>2, <1>4, SwitchIfTakes
<1> HIDE DEF r
<1> QED
  BY <1>1, <1>5, TakingAdvances

(* The event happens: the first that waits for it is woken, or put off.    *)
LEMMA EventTakes ==
  ASSUME IInv, Timed, IInv', xTaskRemoveFromEventList
  PROVE  [Delays!Next]_Delays!vars /\ Timed'
<1> DEFINE u == Head(k.event)
           i == RemoveEvent(k, u)
           a == RemoveGeneric(i, u)
           b == prvAddTaskToReadyQueue(a, u)
           c == [i EXCEPT !.pending = Append(@, u)]
           j == IF k.uxSchedulerSuspended = 0 THEN b ELSE c
           r == SwitchIf(AsUrgent(u), j)
           w == pc[k.pxCurrentTCB]
           v == [t \in Tasks |-> 0]
<1>1. Goto(r, w) /\ k.event # <<>>
  BY DEF xTaskRemoveFromEventList
<1>2. u \in Waiting(k) /\ u \notin Pending(k) /\ u \in Task /\ u \in Tasks
  <2>1. k.event \in Seq(Tasks) /\ IsInjective(k.event)
    BY IInvIs, KernelTypes DEF Sound, Injective
  <2>2. u \in Waiting(k)
    BY <2>1, <1>1, TailIs DEF Waiting
  <2>3. u \in Asleep(k) \cup Suspended(k) /\ u \notin Pending(k)
    BY <2>2, IInvIs DEF EventsAsleep, Sound, Apart
  <2> QED
    BY <2>2, <2>3, IInvIs, SleepersAreTasks
<1> HIDE DEF u
<1>3. /\ Sound(i) /\ Taken(k, i, {}) /\ i.uxMissedTicks = k.uxMissedTicks
      /\ u \notin Waiting(i) \cup Pending(i) /\ Pending(i) = Pending(k)
  <2>1. /\ Sound(i)
        /\ i.ready = k.ready /\ i.delayed = k.delayed /\ i.overflow = k.overflow
        /\ i.suspended = k.suspended /\ i.termination = k.termination
        /\ i.wake = k.wake
        /\ Waiting(i) = Waiting(k) \ {u} /\ Pending(i) = Pending(k) \ {u}
        /\ Steady(k, i) /\ SameClock(k, i)
    BY <1>2, IInvIs, RemoveEventKeeps, SMTT(30)
  <2> HIDE DEF i
  <2> QED
    BY <2>1, <1>2, TakenNone DEF SameClock
<1> HIDE DEF i
<1>4. /\ Sound(b) /\ Taken(k, b, {u}) /\ b.uxMissedTicks = k.uxMissedTicks
      /\ Pending(b) = Pending(k)
  <2>1. /\ Sound(a) /\ Taken(i, a, {u}) /\ a.uxMissedTicks = i.uxMissedTicks
        /\ Pending(a) = Pending(i)
    BY <1>2, <1>3, RemovalTakes
  <2>2. Off(a, u)
    BY <1>2, <1>3, RemoveGenericKeeps
  <2> HIDE DEF a
  <2>3. a \in Kernel
    BY <2>1 DEF Sound
  <2>4. /\ Sound(b) /\ Taken(a, b, {}) /\ b.uxMissedTicks = a.uxMissedTicks
        /\ Pending(b) = Pending(a)
    <3>1. Sound(b)
      BY <1>2, <2>1, <2>2, AddReadyKeeps
    <3> QED
      BY <2>3, <3>1, DelaysKept, PendingKept
  <2> HIDE DEF b
  <2>5. Taken(k, a, {} \cup {u}) /\ {} \cup {u} = {u}
    BY <1>3, <2>1, TakenTwice
  <2>6. Taken(k, b, {u})
    BY <2>4, <2>5, TakenThenKept
  <2> QED
    BY <1>3, <2>1, <2>4, <2>6
<1> HIDE DEF b
<1>5. /\ Sound(c) /\ Taken(k, c, {}) /\ c.uxMissedTicks = k.uxMissedTicks
      /\ Pending(c) = Pending(k) \cup {u}
  <2>1. /\ c = [i EXCEPT !.event = vListInsert(@, u, v)] \/ c = [i EXCEPT !.pending = Append(@, u)]
        /\ c = [i EXCEPT !.pending = Append(@, u)]
        /\ v \in [Tasks -> Int]
    OBVIOUS
  <2> HIDE DEF c, v
  <2>2. Sound(c)
    BY <2>1, <1>2, <1>3, EventKeeps
  <2>3. i \in Kernel
    BY <1>3 DEF Sound
  <2>4. Taken(i, c, {}) /\ c.uxMissedTicks = i.uxMissedTicks
    BY <2>1, <2>3, TakenNone DEF Kernel, SameClock
  <2>5. Pending(c) = Pending(i) \cup {u}
    <3>1. /\ i.pending \in Seq(Tasks) /\ IsInjective(i.pending)
          /\ u \notin ToSet(i.pending)
      BY <1>3, <2>3, KernelTypes DEF Sound, Injective, Pending
    <3>2. c.pending = Append(i.pending, u)
      BY <2>1, <2>3 DEF Kernel
    <3> QED
      BY <3>1, <3>2, <1>2, AppendIs DEF Pending
  <2> QED
    BY <2>2, <2>4, <2>5, <1>3, TakenThenKept
<1> HIDE DEF c
<1>6. /\ Sound(j) /\ j.uxMissedTicks = k.uxMissedTicks
      /\ \E W \in SUBSET {u} :
           /\ Taken(k, j, W)
           /\ \/ Pending(j) = Pending(k)
              \/ W = {} /\ Pending(j) = Pending(k) \cup {u}
  <2>1. {} \in SUBSET {u} /\ {u} \in SUBSET {u}
    OBVIOUS
  <2>2. j = b \/ j = c
    OBVIOUS
  <2> HIDE DEF j
  <2> QED
    BY <2>1, <2>2, <1>4, <1>5
<1> HIDE DEF j
<1>7. PICK W \in SUBSET {u} :
        /\ Taken(k, j, W)
        /\ \/ Pending(j) = Pending(k)
           \/ W = {} /\ Pending(j) = Pending(k) \cup {u}
  BY <1>6
<1>8. AsUrgent(u) \in BOOLEAN
  BY DEF AsUrgent
<1>9. /\ Taken(k, r, W) /\ r.uxMissedTicks = k.uxMissedTicks
      /\ Pending(r) = Pending(j)
  BY <1>6, <1>7, <1>8, SwitchIfTakes
<1> HIDE DEF r
<1> QED
  BY <1>1, <1>2, <1>7, <1>9, TakingAdvances

(* The running task yields, or is the idle task.                           *)
LEMMA YieldTakes ==
  ASSUME IInv, Timed, IInv', (\E t \in Task : portYIELD(t)) \/ prvIdleTask
  PROVE  [Delays!Next]_Delays!vars /\ Timed'
<1> DEFINE a == vTaskSwitchContext(k)
           b == vTaskSuspendAll(k)
           c == [k EXCEPT !.termination = Tail(@)]
           d == SwitchIf(Len(k.ready[0]) > 1, k)
<1>1. \E w : Goto(a, w) \/ Goto(b, w) \/ Goto(k, w) \/ Goto(c, w) \/ Goto(d, w)
  BY DEF portYIELD, prvIdleTask
<1>2. Taken(k, a, {}) /\ a.uxMissedTicks = k.uxMissedTicks /\ Pending(a) = Pending(k)
  BY IInvIs, SwitchTakesNone
<1>3. Taken(k, b, {}) /\ b.uxMissedTicks = k.uxMissedTicks /\ Pending(b) = Pending(k)
  BY IInvIs, DelaysKept, PendingKept
<1>4. Taken(k, c, {}) /\ c.uxMissedTicks = k.uxMissedTicks /\ Pending(c) = Pending(k)
  <2>1. c = [k EXCEPT !.termination = Tail(@)]
    OBVIOUS
  <2> HIDE DEF c
  <2> QED
    BY <2>1, IInvIs, DelaysKept, PendingKept
<1>5. Taken(k, k, {})
  BY TakenNone DEF SameClock
<1>6. Taken(k, d, {}) /\ d.uxMissedTicks = k.uxMissedTicks /\ Pending(d) = Pending(k)
  <2>1. (Len(k.ready[0]) > 1) \in BOOLEAN
    OBVIOUS
  <2> QED
    BY <2>1, <1>5, IInvIs, SwitchIfTakes
<1> HIDE DEF a, b, c, d
<1> QED
  BY <1>1, <1>2, <1>3, <1>4, <1>5, <1>6, KeepingAdvances

(* The running task begins to wait for an event: asleep unless it waits    *)
(* for ever.                                                               *)
LEMMA PlaceDelays ==
  ASSUME IInv, Timed, IInv', NEW t \in Task, Runs(t), NEW n \in 1 .. MaxDelay,
         vTaskPlaceOnEventList(n)
  PROVE  [Delays!Next]_Delays!vars /\ Timed'
<1> DEFINE h == vTaskSuspendAll(k)
           v == [u \in Tasks |-> Priorities - k.uxPriority[u]]
           i == [h EXCEPT !.event = vListInsert(@, t, v)]
           a == RemoveGeneric(i, t)
           j == [a EXCEPT !.suspended = Append(@, t)]
           time == After(k.xTickCount, n)
<1>1. /\ k.pxCurrentTCB = t /\ t \in Tasks /\ t \notin Asleep(k)
      /\ k.uxSchedulerSuspended = 0 /\ k.uxMissedTicks = 0
      /\ t \notin Waiting(k) \cup Pending(k) /\ Pending(k) = {}
  BY Running
<1>2. \/ n = MaxDelay /\ Goto(j, "resume")
      \/ n < MaxDelay /\ Sleep(i, time, n)
  BY <1>1 DEF vTaskPlaceOnEventList
<1>3. /\ Sound(h) /\ SameLists(k, h) /\ SameClock(k, h) /\ h.pxCurrentTCB = t
      /\ t \notin Waiting(h) \cup Pending(h) /\ Pending(h) = {}
  <2>1. /\ Sound(h) /\ SameLists(k, h) /\ SameClock(k, h) /\ h.pxCurrentTCB = t
        /\ Waiting(h) = Waiting(k) /\ Pending(h) = Pending(k)
    BY <1>1, Halted
  <2> QED
    BY <2>1, <1>1
<1> HIDE DEF h
<1>4. v \in [Tasks -> Int]
  <2>1. \A u \in Tasks : k.uxPriority[u] \in Int
    BY IInvIs, KernelTypes, FreeRTOSAssumption DEF Priority
  <2> QED
    BY <2>1, FreeRTOSAssumption
<1> HIDE DEF v
<1>5. /\ Sound(i) /\ i.pxCurrentTCB = t /\ i.wake = k.wake /\ SameClock(k, i)
      /\ i.delayed = k.delayed /\ i.overflow = k.overflow /\ Pending(i) = {}
  <2> DEFINE x == [h EXCEPT !.event = vListInsert(@, t, v)]
  <2>1. \/ x = [h EXCEPT !.event = vListInsert(@, t, v)]
        \/ x = [h EXCEPT !.pending = Append(@, t)]
    OBVIOUS
  <2> HIDE DEF x
  <2>2. /\ Sound(x)
        /\ x.ready = h.ready /\ x.delayed = h.delayed /\ x.overflow = h.overflow
        /\ x.suspended = h.suspended /\ x.termination = h.termination
        /\ x.wake = h.wake
        /\ Waiting(x) \cup Pending(x) = Waiting(h) \cup Pending(h) \cup {t}
        /\ x = [h EXCEPT !.event = vListInsert(@, t, v)] => x.pending = h.pending
        /\ Steady(h, x) /\ SameClock(h, x)
    BY <2>1, <1>1, <1>3, <1>4, EventKeeps
  <2>3. x = i /\ Pending(x) = {}
    BY <2>2, <1>3 DEF x, Pending
  <2> HIDE DEF i
  <2> QED
    BY <2>2, <2>3, <1>3 DEF SameLists, Steady, SameClock
<1> HIDE DEF i
<1>6. CASE n < MaxDelay /\ Sleep(i, time, n)
  <2>1. Delayed(i) = Delayed(k) /\ Overflown(i) = Overflown(k)
    BY <1>5 DEF Delayed, Overflown
  <2> QED
    BY <2>1, <1>1, <1>5, <1>6, SleepDelays
<1>7. CASE n = MaxDelay /\ Goto(j, "resume")
  <2>1. /\ Sound(a) /\ Taken(i, a, {t}) /\ a.uxMissedTicks = i.uxMissedTicks
        /\ Pending(a) = {}
    BY <1>5, RemovalTakes
  <2> HIDE DEF a
  <2>2. /\ Taken(a, j, {}) /\ j.uxMissedTicks = a.uxMissedTicks
        /\ Pending(j) = {}
    <3>1. a \in Kernel
      BY <2>1 DEF Sound
    <3>2. Pending(j) = {}
      BY <3>1, <2>1 DEF Kernel, Pending
    <3> QED
      BY <3>1, <3>2, TakenNone DEF Kernel, SameClock
  <2> HIDE DEF j
  <2>3. Taken(k, i, {}) /\ i.uxMissedTicks = k.uxMissedTicks
    BY <1>5, TakenNone DEF SameClock
  <2>4. Taken(k, a, {t})
    <3>1. {} \cup {t} = {t}
      OBVIOUS
    <3> QED
      BY <3>1, <2>1, <2>3, TakenTwice
  <2>5. Taken(k, j, {t})
    BY <2>2, <2>4, TakenThenKept
  <2>6. {t} \in SUBSET {t}
    OBVIOUS
  <2> QED
    BY <2>1, <2>2, <2>3, <2>5, <2>6, <1>1, <1>7, TakingAdvances
<1> QED
  BY <1>2, <1>6, <1>7

(* The scheduler is suspended.                                             *)
LEMMA LockTakes ==
  ASSUME IInv, Timed, IInv', NEW w, Goto(vTaskSuspendAll(k), w)
  PROVE  [Delays!Next]_Delays!vars /\ Timed'
<1>1. /\ Taken(k, vTaskSuspendAll(k), {})
      /\ vTaskSuspendAll(k).uxMissedTicks = k.uxMissedTicks
      /\ Pending(vTaskSuspendAll(k)) = Pending(k)
  BY IInvIs, DelaysKept, PendingKept
<1> QED
  BY <1>1, KeepingAdvances

(* It is resumed: the ticks missed go by.                                  *)
LEMMA ResumeAllTakes ==
  ASSUME IInv, Timed, IInv', NEW t \in Tasks, ResumeAll(t)
  PROVE  [Delays!Next]_Delays!vars /\ Timed'
<1> DEFINE res == xTaskResumeAll(k)
           j == res.k
           n == k.uxMissedTicks
           gone == Pending(k) \cap Asleep(k)
<1>1. /\ k' = j /\ due' = [u \in Tasks |-> IF Blocked(j, u) THEN due[u] ELSE 0]
      /\ k.pxCurrentTCB = t /\ pc[t] \in InCall
  BY DEF ResumeAll, Goto, InCall
<1>2. /\ Sound(k) /\ EventsAsleep(k) /\ OnTime(k) /\ k.uxSchedulerSuspended = 1
      /\ due \in [Tasks -> Int] /\ n \in 0 .. MaxDelay
  <2>1. k.uxSchedulerSuspended = 1
    BY <1>1, IInvIs DEF Controlled
  <2>2. n \in 0 .. MaxDelay
    BY IInvIs, KernelTypes, FreeRTOSAssumption
  <2> QED
    BY <2>1, <2>2, IInvIs, TimedIs
<1>3. Advanced(k, j, n, gone)
  BY <1>2, ResumeAllAdvances
<1>4. Sound(j) /\ j.uxMissedTicks = 0 /\ Pending(j) = {}
  <2>1. res = xTaskResumeAll(k)
    OBVIOUS
  <2>2. /\ Sound(k) /\ EventsAsleep(k) /\ k.uxSchedulerSuspended = 1
    BY <1>2
  <2> HIDE DEF res
  <2>3. Sound(res.k) /\ res.k.uxMissedTicks = 0 /\ Pending(res.k) = {}
    BY ONLY <2>1, <2>2, ResumeAllKeeps
  <2> QED
    BY <2>3
<1> HIDE DEF j, res
<1>5. \A u \in Asleep(k') : due'[u] = due[u] /\ due[u] \in Int
  <2>1. j \in Kernel /\ Asleep(j) \subseteq Tasks
    BY <1>4, IInvIs, SleepersAreTasks DEF Sound
  <2> QED
    BY <2>1, <1>1, <1>2, BlockedIs
<1>6. \A u \in Asleep(k') : due'[u] + k'.uxMissedTicks = (due[u] + k.uxMissedTicks) - n
  <2>1. n \in Int
    BY <1>2
  <2>2. k'.uxMissedTicks = 0
    BY <1>1, <1>4
  <2> QED
    BY <2>1, <2>2, <1>5
<1>7. due' \in [Tasks -> Int] /\ gone \in SUBSET Asleep(k)
  BY <1>1, <1>2
<1>8. gone = Released(k) /\ Released(k') = {}
  BY <1>1, <1>4 DEF Released
<1> HIDE DEF n, gone
<1> QED
  BY <1>1, <1>2, <1>3, <1>6, <1>7, <1>8, StepAdvances

(* The tick interrupt: a tick passes, or is missed.                        *)
LEMMA TickTakes ==
  ASSUME IInv, Timed, IInv', vTick
  PROVE  [Delays!Next]_Delays!vars /\ Timed'
<1> DEFINE j == vTaskIncrementTick(k)
           r == vTaskSwitchContext(j)
<1>1. /\ k' = r /\ due' = [t \in Tasks |-> IF Blocked(r, t) THEN due[t] - 1 ELSE 0]
      /\ k.uxSchedulerSuspended = 0 \/ k.uxMissedTicks < MaxMissed
  BY DEF vTick
<1>2. /\ Sound(k) /\ OnTime(k) /\ due \in [Tasks -> Int] /\ k.uxMissedTicks \in Nat
      /\ Sound(k') /\ MaxDelay \in Nat \ {0}
  BY IInvIs, TimedIs, FreeRTOSAssumption DEF IInv
<1>3. /\ \A t \in Asleep(k') : due'[t] = due[t] - 1 /\ due[t] \in Int
      /\ due' \in [Tasks -> Int]
  <2>1. k' \in Kernel /\ Asleep(k') \subseteq Tasks
    BY <1>2, IInvIs, SleepersAreTasks DEF Sound
  <2>2. \A t \in Asleep(k') : Blocked(r, t)
    BY <2>1, <1>1, BlockedIs
  <2> HIDE DEF r
  <2> QED
    BY <2>1, <2>2, <1>1, <1>2
<1>4. Advanced(k, k, 0, {})
  <2>1. Taken(k, k, {}) /\ {} \cap Asleep(k) = {}
    BY TakenNone DEF SameClock
  <2> QED
    BY <2>1, <1>2, TakenAdvances
<1>5. CASE k.uxSchedulerSuspended = 0
  <2>1. Sound(j) /\ j.uxMissedTicks = k.uxMissedTicks /\ Pending(k) = {} /\ Pending(j) = {}
    <3>1. Pending(k) = {}
      BY <1>5, IInvIs DEF Controlled
    <3> QED
      BY <3>1, <1>2, <1>5, TickKeeps DEF Woken
  <2>2. Advanced(k, j, 0 + 1, {})
    <3>1. 0 \in 0 .. MaxDelay - 1
      BY <1>2
    <3> QED
      BY <3>1, <1>2, <1>4, <1>5, TickAdvances
  <2> HIDE DEF j
  <2>3. /\ Taken(j, r, {}) /\ r.uxMissedTicks = j.uxMissedTicks
        /\ Pending(r) = Pending(j)
    BY <2>1, SwitchTakesNone
  <2> HIDE DEF r
  <2>4. Advanced(k, k', 1, {})
    BY <2>2, <2>3, <1>1, AdvancedTaken
  <2>5. \A t \in Asleep(k') : due'[t] + k'.uxMissedTicks = (due[t] + k.uxMissedTicks) - 1
    <3>1. k'.uxMissedTicks = k.uxMissedTicks
      BY <2>1, <2>3, <1>1
    <3> QED
      BY <3>1, <1>2, <1>3
  <2>6. 1 \in 0 .. MaxDelay /\ {} \in SUBSET Asleep(k)
    BY <1>2
  <2>7. {} = Released(k) /\ Released(k') = {}
    BY <2>1, <2>3, <1>1 DEF Released
  <2> QED
    BY <2>4, <2>5, <2>6, <2>7, <1>3, StepAdvances
<1>6. CASE k.uxSchedulerSuspended = 1
  <2>1. /\ Sound(j) /\ SameLists(k, j) /\ Steady(k, j)
        /\ j.uxTopReadyPriority = k.uxTopReadyPriority
        /\ j.uxMissedTicks = k.uxMissedTicks + 1
    BY <1>1, <1>2, <1>6, MissedTickKeeps
  <2>2. Taken(k, j, {})
    <3>1. k \in Kernel
      BY <1>2 DEF Sound
    <3>2. j = [k EXCEPT !.uxMissedTicks = @ + 1]
      BY <1>6 DEF vTaskIncrementTick
    <3>3. /\ j.delayed = k.delayed /\ j.overflow = k.overflow /\ j.wake = k.wake
          /\ j.xTickCount = k.xTickCount /\ j.xNextTaskUnblockTime = k.xNextTaskUnblockTime
      BY <3>1, <3>2 DEF Kernel
    <3> HIDE DEF j
    <3> QED
      BY <3>3 DEF Taken, Delayed, Overflown
  <2> HIDE DEF j
  <2>3. /\ Taken(j, r, {}) /\ r.uxMissedTicks = j.uxMissedTicks
        /\ Pending(r) = Pending(j)
    BY <2>1, SwitchTakesNone
  <2> HIDE DEF r
  <2>4. Advanced(k, k', 0, {})
    <3>1. Taken(k, r, {})
      BY <2>2, <2>3, TakenThenKept
    <3>2. Advanced(k, r, 0, {})
      BY <3>1, <1>4, AdvancedTaken
    <3> QED
      BY <3>2, <1>1
  <2>5. \A t \in Asleep(k') : due'[t] + k'.uxMissedTicks = (due[t] + k.uxMissedTicks) - 0
    <3>1. k'.uxMissedTicks = k.uxMissedTicks + 1
      BY <2>1, <2>3, <1>1
    <3> QED
      BY <3>1, <1>2, <1>3
  <2>6. 0 \in 0 .. MaxDelay /\ {} \in SUBSET Asleep(k)
    BY <1>2
  <2>7. Released(k') = Released(k)
    <3>1. Pending(r) = Pending(k)
      BY <2>1, <2>3 DEF SameLists, Pending
    <3>2. Asleep(r) = Asleep(k)
      BY <2>2, <2>3 DEF Taken, Asleep
    <3> QED
      BY <3>1, <3>2, <1>1 DEF Released
  <2> QED
    BY <2>4, <2>5, <2>6, <2>7, <1>3, StepAdvances
<1> QED
  BY <1>5, <1>6, IInvIs

(* Nobody sleeps when the scheduler starts.                                *)
LEMMA InitDelays ==
  ASSUME Init
  PROVE  Delays!Init /\ Timed
<1>1. /\ k = Started /\ due = [t \in Tasks |-> 0]
      /\ Begun(Started, ToSet(Append(Created, Idle)))
  BY StartedIs DEF Init
<1>2. /\ k \in Kernel /\ k.delayed = <<>> /\ k.overflow = <<>> /\ k.uxMissedTicks = 0
      /\ k.wake = [t \in Tasks |-> 0] /\ k.xTickCount = 0
      /\ k.xNextTaskUnblockTime = MaxDelay
  BY <1>1 DEF Begun
<1>3. ToSet(<<>>) = {} /\ Task \subseteq Tasks
  BY DEF ToSet, Tasks
<1>4. Asleep(k) = {}
  BY <1>2, <1>3 DEF Asleep, Delayed, Overflown
<1>5. [t \in Task |-> IF Blocked(k, t) THEN due[t] + k.uxMissedTicks ELSE 0]
        = [t \in Task |-> 0]
  BY <1>2, <1>4, BlockedIs
<1>6. [t \in Task |-> k.wake[t]] = [t \in Task |-> 0]
  BY <1>2, <1>3
<1>7. Delays!Init
  BY <1>2, <1>3, <1>5, <1>6 DEF Delays!Init
<1>8. Proved!IInv
  <2>1. Proved!Init /\ MaxDelay \in Nat \ {0}
    BY <1>7, FreeRTOSAssumption DEF Delays!Init, Proved!Init
  <2> QED
    BY <2>1, Proved!InitHasIt
<1>9. due \in [Tasks -> Int] /\ \A t \in Tasks : k.wake[t] = 0
  BY <1>1, <1>2
<1> QED
  BY <1>7, <1>8, <1>9 DEF Timed

(* Every step is a step of DelayLists, or changes nothing of it.           *)
LEMMA StepsDelay ==
  ASSUME IInv, Timed, [Next]_vars
  PROVE  [Delays!Next]_Delays!vars /\ Timed'
<1>1. IInv'
  BY NextKeeps
<1>2. ASSUME NEW t \in Task, Call(t)
      PROVE  [Delays!Next]_Delays!vars /\ Timed'
  <2>1. Runs(t)
    BY <1>2 DEF Call
  <2>2. ASSUME NEW n \in 0 .. MaxDelay, vTaskDelay(n)
        PROVE  [Delays!Next]_Delays!vars /\ Timed'
    BY <2>1, <2>2, <1>1, DelayCallDelays
  <2>3. ASSUME NEW last \in Ticks, NEW inc \in 1 .. MaxDelay, vTaskDelayUntil(last, inc)
        PROVE  [Delays!Next]_Delays!vars /\ Timed'
    BY <2>1, <2>3, <1>1, DelayUntilDelays
  <2>4. ASSUME NEW n \in 1 .. MaxDelay, vTaskPlaceOnEventList(n)
        PROVE  [Delays!Next]_Delays!vars /\ Timed'
    BY <2>1, <2>4, <1>1, PlaceDelays
  <2>5. CASE Goto(vTaskSuspendAll(k), "locked")
    BY <2>5, <1>1, LockTakes
  <2>6. ASSUME NEW u \in Task, vTaskSuspend(u) \/ vTaskDelete(u)
        PROVE  [Delays!Next]_Delays!vars /\ Timed'
    BY <2>6, <1>1, AsideTakes
  <2>7. ASSUME NEW u \in Task, NEW p \in Priority, xTaskGenericCreate(u, p)
        PROVE  [Delays!Next]_Delays!vars /\ Timed'
    BY <2>7, <1>1, CreateTakes
  <2> QED
    BY <1>2, <2>2, <2>3, <2>4, <2>5, <2>6, <2>7 DEF Call
<1>3. ASSUME NEW t \in Task, CallLocked(t)
      PROVE  [Delays!Next]_Delays!vars /\ Timed'
  <2>1. PICK u \in Task : vTaskResume(u) \/ \E p \in Priority : vTaskPrioritySet(u, p)
    BY <1>3 DEF CallLocked
  <2>2. CASE vTaskResume(u)
    BY <2>2, <1>1, ResumeTakes
  <2>3. ASSUME NEW p \in Priority, vTaskPrioritySet(u, p)
        PROVE  [Delays!Next]_Delays!vars /\ Timed'
    BY <2>3, <1>1, PrioritySetTakes
  <2> QED
    BY <2>1, <2>2, <2>3
<1>4. CASE (\E t \in Task : portYIELD(t)) \/ prvIdleTask
  BY <1>1, <1>4, YieldTakes
<1>5. ASSUME NEW t \in Tasks, ResumeAll(t)
      PROVE  [Delays!Next]_Delays!vars /\ Timed'
  BY <1>1, <1>5, ResumeAllTakes
<1>6. CASE vTick
  BY <1>1, <1>6, TickTakes
<1>7. CASE xTaskRemoveFromEventList
  BY <1>1, <1>7, EventTakes
<1>8. ASSUME NEW u \in Task, xTaskResumeFromISR(u)
      PROVE  [Delays!Next]_Delays!vars /\ Timed'
  BY <1>1, <1>8, ResumeTakes
<1>9. CASE UNCHANGED vars
  <2>1. k' = k /\ due' = due
    BY <1>9 DEF vars
  <2>2. /\ [t \in Task |-> IF Blocked(k', t) THEN due'[t] + k'.uxMissedTicks ELSE 0]
             = [t \in Task |-> IF Blocked(k, t) THEN due[t] + k.uxMissedTicks ELSE 0]
        /\ [t \in Task |-> k'.wake[t]] = [t \in Task |-> k.wake[t]]
    BY <2>1
  <2>3. UNCHANGED Delays!vars
    BY <2>1, <2>2 DEF Delays!vars
  <2>4. Proved!IInv'
    <3>1. Proved!IInv /\ [Proved!Next]_Proved!vars /\ MaxDelay \in Nat \ {0}
      BY <2>3, FreeRTOSAssumption DEF Delays!vars, Proved!vars, Timed
    <3> QED
      BY <3>1, Proved!StepKeepsIt
  <2>5. due' \in [Tasks -> Int] /\ \A t \in Tasks : t \notin Asleep(k') => k'.wake[t] = 0
    BY <2>1 DEF Timed
  <2> QED
    BY <2>3, <2>4, <2>5 DEF Timed
<1> QED
  BY <1>2, <1>3, <1>4, <1>5, <1>6, <1>7, <1>8, <1>9 DEF Next, Interrupt

(* What the kernel does with its sorted lists, its two overflow lists and  *)
(* the ticks it misses is what DelayLists says of sets and a clock: every  *)
(* wait ends at its tick and no other.                                     *)
THEOREM DelaysImplemented == Spec => ImplementsDelays
<1>1. Init => IInv /\ Delays!Init /\ Timed
  BY InitKeeps, InitDelays
<1>2. (IInv /\ Timed) /\ [Next]_vars => (IInv /\ Timed)'
  BY NextKeeps, StepsDelay
<1>3. (IInv /\ Timed) /\ [Next]_vars => [Delays!Next]_Delays!vars
  BY StepsDelay
<1> QED
  BY <1>1, <1>2, <1>3, PTL DEF Spec, ImplementsDelays, Delays!Spec

-----------------------------------------------------------------------------
(* The response tasks of main.c.                                           *)

(* What they and the tester do is, to the scheduler, among the calls and   *)
(* interrupts that FreeRTOSTasks allows.                                   *)
LEMMA TestsAreCalls ==
  ASSUME NextTests \/ UNCHANGED allVars
  PROVE  [Next]_vars
<1>1. ASSUME NEW t \in Task, Rest(t)
      PROVE  Next
  <2>1. Runs(t) /\ vTaskDelay(1)
    BY <1>1 DEF Rest, Step
  <2>2. 1 \in 0 .. MaxDelay
    BY FreeRTOSAssumption
  <2>3. Call(t)
    BY <2>1, <2>2 DEF Call
  <2> QED
    BY <2>3 DEF Next
<1>2. ASSUME NEW t \in Task, KernelStep(t)
      PROVE  Next
  BY <1>2 DEF KernelStep, Next, Tasks
<1>3. IdleLoop => Next
  BY DEF IdleLoop, Next
<1>4. Tick => Next
  BY DEF Tick, Next, Interrupt
<1>5. ASSUME NEW t \in Task,
             \/ Look(t) \/ busy_delay_ms(t) \/ SetLow(t) \/ SetHigh(t)
             \/ Begin(t) \/ Release(t)
      PROVE  UNCHANGED vars
  BY <1>5 DEF Look, busy_delay_ms, SetLow, SetHigh, Begin, Release
<1>6. UNCHANGED allVars => UNCHANGED vars
  BY DEF allVars
<1> QED
  BY <1>1, <1>2, <1>3, <1>4, <1>5, <1>6 DEF NextTests

(* The tasks of main.c run on lists that stay consistent, the most urgent  *)
(* ready one of them first.                                                *)
THEOREM TestsRunByUrgency == SpecTests => [](ListsConsistent /\ MostUrgentRuns)
<1>1. InitTests => IInv
  BY InitKeeps DEF InitTests
<1>2. IInv /\ [NextTests]_allVars => IInv'
  BY TestsAreCalls, NextKeeps
<1>3. IInv => ListsConsistent /\ MostUrgentRuns
  BY UrgentByInv, ConsistentByInv
<1> QED
  BY <1>1, <1>2, <1>3, PTL DEF SpecTests

(* Where a task is in its loop, and how often it has answered: before it   *)
(* answers it has done so once at most, and not since a test began that is *)
(* still on.                                                               *)
Answers(t) ==
  /\ pulses[t] <= 2
  /\ at[t] \in {"busy", "low"} => pulses[t] <= 1
  /\ t \in low => pulses[t] <= IF at[t] = "low" THEN 0 ELSE 1

PulseInv ==
  /\ at \in [Task -> {"look", "rest", "busy", "low", "high"}]
  /\ low \subseteq Task
  /\ pulses \in [Task -> Nat]
  /\ \A t \in Task : Answers(t)

(* What a step of task t, or of the tester at its pin, leaves alone.       *)
LEMMA OthersAnswer ==
  ASSUME PulseInv, NEW t \in Task,
         at' \in [Task -> {"look", "rest", "busy", "low", "high"}], low' \subseteq Task,
         pulses' \in [Task -> Nat],
         \A u \in Task : u # t => /\ at'[u] = at[u] /\ pulses'[u] = pulses[u]
                                  /\ u \in low' <=> u \in low,
         Answers(t)'
  PROVE  PulseInv'
<1> SUFFICES ASSUME NEW u \in Task, u # t
             PROVE  Answers(u)'
  BY DEF PulseInv
<1>1. Answers(u)
  BY DEF PulseInv
<1>2. at'[u] = at[u] /\ pulses'[u] = pulses[u] /\ (u \in low' <=> u \in low)
  OBVIOUS
<1> QED
  BY <1>1, <1>2 DEF Answers

(* A step of a task, of the tester or of the kernel.                       *)
LEMMA TestsKeepPulses ==
  ASSUME PulseInv, [NextTests]_allVars
  PROVE  PulseInv'
<1>1. /\ at \in [Task -> {"look", "rest", "busy", "low", "high"}] /\ low \subseteq Task
      /\ pulses \in [Task -> Nat] /\ \A t \in Task : Answers(t)
  BY DEF PulseInv
<1>2. ASSUME NEW t \in Task, Look(t)
      PROVE  PulseInv'
  <2>1. /\ at[t] = "look" /\ pulses' = pulses /\ low' = low
        /\ at' = [at EXCEPT ![t] = IF t \in low THEN "busy" ELSE "rest"]
    BY <1>2 DEF Look, Step
  <2>2. Answers(t)'
    BY <2>1, <1>1 DEF Answers
  <2> QED
    BY <2>1, <2>2, <1>1, OthersAnswer
<1>3. ASSUME NEW t \in Task, Rest(t)
      PROVE  PulseInv'
  <2>1. /\ at[t] = "rest" /\ pulses' = pulses /\ low' = low
        /\ at' = [at EXCEPT ![t] = "look"]
    BY <1>3 DEF Rest, Step
  <2>2. Answers(t)'
    BY <2>1, <1>1 DEF Answers
  <2> QED
    BY <2>1, <2>2, <1>1, OthersAnswer
<1>4. ASSUME NEW t \in Task, busy_delay_ms(t)
      PROVE  PulseInv'
  <2>1. /\ at[t] = "busy" /\ pulses' = pulses /\ low' = low
        /\ at' = [at EXCEPT ![t] = IF work[t] = 1 THEN "low" ELSE "busy"]
        /\ t \in low => pulses[t] = 0
    BY <1>4 DEF busy_delay_ms, Step, TesterIsDone
  <2>2. Answers(t)'
    BY <2>1, <1>1 DEF Answers
  <2> QED
    BY <2>1, <2>2, <1>1, OthersAnswer
<1>5. ASSUME NEW t \in Task, SetLow(t)
      PROVE  PulseInv'
  <2>1. /\ at[t] = "low" /\ pulses' = [pulses EXCEPT ![t] = @ + 1] /\ low' = low
        /\ at' = [at EXCEPT ![t] = "high"]
    BY <1>5 DEF SetLow, Step
  <2>2. pulses[t] \in Nat /\ pulses'[t] = pulses[t] + 1 /\ at'[t] = "high"
    BY <2>1, <1>1
  <2>3. Answers(t)'
    BY <2>1, <2>2, <1>1 DEF Answers
  <2> QED
    BY <2>1, <2>3, <1>1, OthersAnswer
<1>6. ASSUME NEW t \in Task, SetHigh(t)
      PROVE  PulseInv'
  <2>1. /\ at[t] = "high" /\ pulses' = pulses /\ low' = low
        /\ at' = [at EXCEPT ![t] = "look"]
    BY <1>6 DEF SetHigh, Step
  <2>2. Answers(t)'
    BY <2>1, <1>1 DEF Answers
  <2> QED
    BY <2>1, <2>2, <1>1, OthersAnswer
<1>7. ASSUME NEW t \in Task, Begin(t)
      PROVE  PulseInv'
  <2>1. at' = at /\ pulses' = [pulses EXCEPT ![t] = 0] /\ low' = low \cup {t}
    BY <1>7 DEF Begin
  <2>2. Answers(t)'
    BY <2>1, <1>1 DEF Answers
  <2> QED
    BY <2>1, <2>2, <1>1, OthersAnswer
<1>8. ASSUME NEW t \in Task, Release(t)
      PROVE  PulseInv'
  <2>1. at' = at /\ pulses' = pulses /\ low' = low \ {t}
    BY <1>8 DEF Release
  <2>2. Answers(t)'
    BY <2>1, <1>1 DEF Answers
  <2> QED
    BY <2>1, <2>2, <1>1, OthersAnswer
<1>9. ASSUME \/ \E t \in Task : KernelStep(t)
             \/ IdleLoop \/ Tick \/ UNCHANGED allVars
      PROVE  PulseInv'
  <2>1. at' = at /\ pulses' = pulses /\ low' = low
    BY <1>9 DEF KernelStep, IdleLoop, Tick, allVars, appVars
  <2> QED
    BY <2>1, <1>1 DEF PulseInv, Answers
<1> QED
  BY <1>2, <1>3, <1>4, <1>5, <1>6, <1>7, <1>8, <1>9 DEF NextTests

(* A test is answered twice at most: responseTask does not look at the pin *)
(* again after its busy delay, so the answer may come when the test is     *)
(* over, and be one too many for it or the next, but never more.           *)
THEOREM TwoPulsesAtMost == SpecTests => []PulsesBounded
<1>1. InitTests => PulseInv
  BY DEF InitTests, PulseInv, Answers
<1>2. PulseInv /\ [NextTests]_allVars => PulseInv'
  BY TestsKeepPulses
<1>3. PulseInv => PulsesBounded
  BY DEF PulseInv, Answers, PulsesBounded
<1> QED
  BY <1>1, <1>2, <1>3, PTL DEF SpecTests


-----------------------------------------------------------------------------
(* The tests of A are answered in time.                                    *)

(* main creates the task of A, which is more urgent than all others, and   *)
(* counts the wait for it to four at least.                                *)
FirstOfAll ==
  /\ TEST_A \in Task /\ TEST_A # TEST_C /\ TEST_A \in ToSet(Created)
  /\ 0 < InitPriority[TEST_A]
  /\ \A t \in Task \ {TEST_A} : InitPriority[t] < InitPriority[TEST_A]
  /\ MaxWait \in Nat /\ 4 <= MaxWait

(* No task but A's is as urgent, and none is put aside: A runs unless it   *)
(* sleeps, whether the scheduler works or not.                             *)
Outranks(r) ==
  /\ \A t \in Tasks \ {TEST_A} : r.uxPriority[t] < r.uxPriority[TEST_A]
  /\ Exists(r, TEST_A)
  /\ Suspended(r) = {} /\ Terminated(r) = {} /\ Pending(r) = {}

RunsUnlessAsleep(r) == TEST_A \in Asleep(r) \/ r.pxCurrentTCB = TEST_A

Calm(r) == Outranks(r) /\ RunsUnlessAsleep(r)

(* If the most urgent task runs it is A's.                                 *)
LEMMA UrgentIsA ==
  ASSUME NEW r, Sound(r), Outranks(r), TEST_A \in Task, Urgent(r, r.pxCurrentTCB)
  PROVE  Calm(r)
<1> DEFINE cur == r.pxCurrentTCB
<1>1. /\ r \in Kernel /\ cur \in Tasks /\ TEST_A \in Tasks
      /\ r.uxPriority \in [Tasks -> Priority] /\ Priority \subseteq Int
  <2>1. r \in Kernel
    BY DEF Sound
  <2>2. Priority \subseteq Int
    BY FreeRTOSAssumption DEF Priority
  <2>3. TEST_A \in Tasks
    BY DEF Tasks
  <2> QED
    BY <2>1, <2>2, <2>3, KernelTypes
<1>2. ASSUME TEST_A \notin Asleep(r), cur # TEST_A
      PROVE  FALSE
  <2>1. PICK p \in Priority : TEST_A \in ReadyAt(r, p)
    BY <1>1, <1>2, ExistsIs DEF Outranks
  <2>2. r.uxPriority[TEST_A] = p
    BY <2>1 DEF Sound, Ranked
  <2>3. r.uxPriority[cur] < p
    BY <2>2, <1>1, <1>2 DEF Outranks
  <2>4. ReadyAt(r, p) = {}
    BY <2>3, <1>1 DEF Urgent
  <2> QED
    BY <2>1, <2>4
<1> QED
  BY <1>2 DEF Calm, RunsUnlessAsleep

(* A step that moves no task between the lists and leaves the processor    *)
(* with who has it, or gives it to the most urgent.                        *)
LEMMA CalmStays ==
  ASSUME NEW r, Calm(r), NEW j, Sound(j), TEST_A \in Task,
         j.uxPriority = r.uxPriority,
         Suspended(j) \subseteq Suspended(r), Terminated(j) = Terminated(r),
         Pending(j) \subseteq Pending(r),
         Exists(r, TEST_A) => Exists(j, TEST_A),
         \/ Urgent(j, j.pxCurrentTCB)
         \/ j.pxCurrentTCB = r.pxCurrentTCB /\ Asleep(r) \subseteq Asleep(j)
  PROVE  Calm(j)
<1>1. Outranks(j)
  BY DEF Calm, Outranks
<1>2. CASE Urgent(j, j.pxCurrentTCB)
  BY <1>1, <1>2, UrgentIsA
<1>3. CASE j.pxCurrentTCB = r.pxCurrentTCB /\ Asleep(r) \subseteq Asleep(j)
  BY <1>1, <1>3 DEF Calm, RunsUnlessAsleep
<1> QED
  BY <1>2, <1>3

(* Members of the lists that stay are members of the kernel that stay.     *)
LEMMA SameMembersExist ==
  ASSUME NEW r, Sound(r), NEW j, Sound(j), SameMembers(r, j), NEW t
  PROVE  Exists(j, t) <=> Exists(r, t)
<1>1. r \in Kernel /\ j \in Kernel
  BY DEF Sound
<1> QED
  BY <1>1, ExistsIs DEF SameMembers

(* How long A still sleeps: not beyond the next tick.                      *)
Naps == TEST_A \in Asleep(k) => due[TEST_A] + k.uxMissedTicks = 1

(* After a step, too, who sleeps has ticks to go.                          *)
LEMMA TimedLater ==
  (IInv /\ Timed)' => \A t \in Asleep(k') : due'[t] + k'.uxMissedTicks > 0
<1>1. IInv /\ Timed => \A t \in Asleep(k) : due[t] + k.uxMissedTicks > 0
  BY TimedIs
<1>2. (IInv /\ Timed)' => (\A t \in Asleep(k) : due[t] + k.uxMissedTicks > 0)'
  BY <1>1, PTL
<1> QED
  BY <1>2

(* As long as the lists of delayed tasks and the missed ticks stay A, if   *)
(* it sleeps, sleeps on.                                                   *)
LEMMA SleepsOn ==
  ASSUME IInv', Naps, TEST_A \in Task, Asleep(k') = Asleep(k),
         k'.uxMissedTicks = k.uxMissedTicks,
         due' = [u \in Tasks |-> IF Blocked(k', u) THEN due[u] ELSE 0]
  PROVE  Naps'
<1>1. k' \in Kernel /\ TEST_A \in Tasks
  BY DEF IInv, Sound, Tasks
<1>2. TEST_A \in Asleep(k') => due'[TEST_A] = due[TEST_A]
  BY <1>1, BlockedIs
<1> QED
  BY <1>2 DEF Naps

(* A task rests: it sleeps from now on, until the next tick.               *)
LEMMA RestNaps ==
  ASSUME IInv, IInv', Calm(k), Naps, due \in [Tasks -> Int], TEST_A \in Task,
         NEW t \in Task, Runs(t), vTaskDelay(1)
  PROVE  /\ Calm(k') /\ Naps'
         /\ Asleep(k') = Asleep(k) \cup {t}
         /\ k'.uxMissedTicks = 0 /\ k.uxMissedTicks = 0
<1> DEFINE i == vTaskSuspendAll(k)
           time == After(k.xTickCount, 1)
           a == RemoveGeneric(i, t)
           j == prvAddCurrentTaskToDelayedList(a, time)
<1>1. /\ k.pxCurrentTCB = t /\ t \in Tasks /\ t \notin Asleep(k)
      /\ k.uxSchedulerSuspended = 0 /\ k.uxMissedTicks = 0
  BY Running
<1>2. /\ Sound(i) /\ SameLists(k, i) /\ SameClock(k, i)
      /\ i.pxCurrentTCB = t
      /\ Asleep(i) = Asleep(k)
      /\ Suspended(i) = Suspended(k) /\ Terminated(i) = Terminated(k)
      /\ Pending(i) = Pending(k)
      /\ \A u : Exists(i, u) <=> Exists(k, u)
  BY <1>1, Halted
<1>3. k' = j /\ due' = [due EXCEPT ![t] = 1]
  <2>1. Sleep(i, time, 1)
    BY DEF vTaskDelay
  <2>2. i.pxCurrentTCB = t
    BY <1>2
  <2> QED
    BY <2>1, <2>2, <1>1 DEF Sleep
<1> HIDE DEF i
<1>4. /\ Sound(a) /\ Off(a, t)
      /\ \A p \in Priority : ReadyAt(a, p) = ReadyAt(i, p) \ {t}
      /\ Delayed(a) = Delayed(i) \ {t} /\ Overflown(a) = Overflown(i) \ {t}
      /\ Suspended(a) = Suspended(i) \ {t} /\ Terminated(a) = Terminated(i) \ {t}
      /\ Waiting(a) = Waiting(i) /\ Pending(a) = Pending(i)
      /\ a.event = i.event /\ a.pending = i.pending
      /\ a.wake = [i.wake EXCEPT ![t] = 0]
      /\ a.uxTopReadyPriority = i.uxTopReadyPriority
      /\ Steady(i, a) /\ SameClock(i, a)
  BY <1>2, RemoveGenericKeeps
<1> HIDE DEF a
<1>5. a.pxCurrentTCB = t /\ Off(a, a.pxCurrentTCB) /\ time \in Ticks
  <2>1. k.xTickCount \in Ticks /\ 1 \in 0 .. MaxDelay
    BY IInvIs, KernelTypes, FreeRTOSAssumption
  <2> QED
    BY <2>1, <1>2, <1>4, LaterIsTick DEF Steady
<1>6. /\ Sound(j)
      /\ Asleep(j) = Asleep(a) \cup {a.pxCurrentTCB}
      /\ Suspended(j) = Suspended(a) /\ Terminated(j) = Terminated(a)
      /\ Pending(j) = Pending(a)
      /\ Steady(a, j) /\ j.uxMissedTicks = a.uxMissedTicks
  BY <1>4, <1>5, DelayKeeps
<1> HIDE DEF j
<1>7. /\ Asleep(k') = Asleep(k) \cup {t}
      /\ k'.uxMissedTicks = 0
      /\ k'.pxCurrentTCB = t /\ k'.uxPriority = k.uxPriority
      /\ Suspended(k') \subseteq Suspended(k) /\ Pending(k') = Pending(k)
  BY <1>1, <1>2, <1>3, <1>4, <1>5, <1>6 DEF Asleep, Steady, SameClock, SameLists
<1>8. Terminated(k') = Terminated(k)
  BY <1>2, <1>3, <1>4, <1>6 DEF Calm, Outranks
<1>9. Exists(k, TEST_A) => Exists(k', TEST_A)
  <2>1. k \in Kernel /\ k' \in Kernel
    BY <1>3, <1>6, IInvIs DEF Sound
  <2>2. CASE TEST_A \in Asleep(k')
    BY <2>1, <2>2, ExistsIs
  <2>3. CASE TEST_A \notin Asleep(k')
    BY <2>3, <1>1, <1>7 DEF Calm, RunsUnlessAsleep
  <2> QED
    BY <2>2, <2>3
<1>10. Calm(k')
  BY <1>1, <1>3, <1>6, <1>7, <1>8, <1>9, CalmStays
<1>11. Naps'
  BY <1>1, <1>3, <1>7 DEF Naps
<1> QED
  BY <1>1, <1>7, <1>10, <1>11

(* A call ends: ticks that were missed have their effect, and wake A if it *)
(* sleeps.                                                                 *)
LEMMA ResumeNaps ==
  ASSUME IInv, IInv', Timed, Timed', Calm(k), Naps, TEST_A \in Task,
         NEW t \in Tasks, ResumeAll(t)
  PROVE  /\ Calm(k') /\ Naps'
         /\ Asleep(k') \subseteq Asleep(k)
         /\ k'.uxMissedTicks = 0
         /\ k.uxMissedTicks = 0 => Asleep(k') = Asleep(k)
         /\ k.uxMissedTicks > 0 => TEST_A \notin Asleep(k')
<1> DEFINE res == xTaskResumeAll(k)
           j == res.k
           n == k.uxMissedTicks
<1>1. /\ k' = j /\ due' = [u \in Tasks |-> IF Blocked(j, u) THEN due[u] ELSE 0]
      /\ k.pxCurrentTCB = t /\ pc[t] \in InCall
  BY DEF ResumeAll, Goto, InCall
<1>2. /\ Sound(k) /\ EventsAsleep(k) /\ OnTime(k) /\ k.uxSchedulerSuspended = 1
      /\ due \in [Tasks -> Int] /\ n \in Nat /\ TEST_A \in Tasks /\ Sound(k')
  <2>1. k.uxSchedulerSuspended = 1
    BY <1>1, IInvIs DEF Controlled
  <2>2. n \in Nat
    BY IInvIs, KernelTypes, FreeRTOSAssumption
  <2> QED
    BY <2>1, <2>2, IInvIs, TimedIs DEF IInv
<1>3. Advanced(k, j, n, Pending(k) \cap Asleep(k))
  BY <1>2, ResumeAllAdvances
<1>4. /\ res.yielded \in BOOLEAN
      /\ j.uxMissedTicks = 0 /\ Pending(j) = {}
      /\ Terminated(j) = Terminated(k) /\ Suspended(j) \subseteq Suspended(k)
      /\ \A u : Exists(j, u) <=> Exists(k, u)
      /\ j.uxPriority = k.uxPriority
      /\ k.uxMissedTicks > 0 => res.yielded
      /\ res.yielded => Urgent(j, j.pxCurrentTCB)
      /\ ~ res.yielded => j.pxCurrentTCB = k.pxCurrentTCB
  BY <1>2, ResumeAllKeeps
<1> HIDE DEF res, j
<1>5. Advanced(k, k', n, {})
  BY <1>1, <1>3 DEF Calm, Outranks
<1>6. Asleep(k') \subseteq Asleep(k)
  BY <1>5 DEF Advanced, Asleep
<1>7. n = 0 => Asleep(k') = Asleep(k)
  <2>1. SUFFICES ASSUME n = 0
                 PROVE  Asleep(k) \subseteq Asleep(k')
    BY <1>6
  <2>2. k.xTickCount \in Ticks /\ MaxDelay \in Nat
    BY IInvIs, KernelTypes, FreeRTOSAssumption
  <2>3. After(k.xTickCount, n) = k.xTickCount
    BY <2>1, <2>2 DEF After, Ticks
  <2>4. \A u \in Delayed(k) : k.wake[u] > k.xTickCount
    BY <1>2, <2>2, IInvIs DEF OnTime, Sound
  <2> QED
    BY <1>5, <2>2, <2>3, <2>4 DEF Advanced, Asleep, Ticks
<1>8. TEST_A \in Asleep(k') => due'[TEST_A] = due[TEST_A]
  <2>1. k' \in Kernel
    BY <1>2 DEF Sound
  <2> QED
    BY <2>1, <1>1, <1>2, BlockedIs
<1>9. n > 0 => TEST_A \notin Asleep(k')
  <2>1. SUFFICES ASSUME n > 0, TEST_A \in Asleep(k')
                 PROVE  FALSE
    OBVIOUS
  <2>2. due[TEST_A] + n = 1 /\ due[TEST_A] \in Int
    BY <2>1, <1>2, <1>6 DEF Naps
  <2>3. due'[TEST_A] + k'.uxMissedTicks > 0
    BY <2>1, TimedLater
  <2>4. due[TEST_A] + 0 > 0
    BY <2>1, <2>3, <1>1, <1>4, <1>8
  <2> HIDE DEF n
  <2> QED
    BY <2>1, <2>2, <2>4, <1>2
<1>10. Naps'
  <2>1. SUFFICES ASSUME TEST_A \in Asleep(k')
                 PROVE  due'[TEST_A] + k'.uxMissedTicks = 1
    BY DEF Naps
  <2>2. n = 0
    BY <2>1, <1>2, <1>9
  <2>3. due[TEST_A] + k.uxMissedTicks = 1
    BY <2>1, <1>6 DEF Naps
  <2> QED
    BY <2>1, <2>2, <2>3, <1>1, <1>4, <1>8
<1>11. Calm(k')
  <2>1. CASE res.yielded
    BY <2>1, <1>1, <1>2, <1>4, CalmStays
  <2>2. CASE ~ res.yielded
    <3>1. Asleep(k) \subseteq Asleep(k')
      BY <2>2, <1>2, <1>4, <1>7
    <3> QED
      BY <3>1, <2>2, <1>1, <1>2, <1>4, CalmStays
  <2> QED
    BY <2>1, <2>2, <1>4
<1> QED
  BY <1>1, <1>4, <1>6, <1>7, <1>9, <1>10, <1>11


(* The processor is handed over, or the idle task goes round its loop.     *)
LEMMA YieldNaps ==
  ASSUME IInv, IInv', Calm(k), Naps, due \in [Tasks -> Int], TEST_A \in Task,
         (\E t \in Task : portYIELD(t)) \/ prvIdleTask
  PROVE  /\ Calm(k') /\ Naps'
         /\ Asleep(k') = Asleep(k) /\ k'.uxMissedTicks = k.uxMissedTicks
<1> DEFINE a == vTaskSwitchContext(k)
<1>1. /\ k.uxSchedulerSuspended = 0
      /\ \/ k' = a
         \/ k' = k
      /\ due' = [u \in Tasks |-> IF Blocked(k', u) THEN due[u] ELSE 0]
  <2>1. Terminated(k) = {} /\ k.termination \in Seq(Tasks) /\ k \in Kernel
    BY IInvIs, KernelTypes DEF Calm, Outranks
  <2>2. k.termination = <<>>
    BY <2>1, MembersOf DEF Terminated
  <2>3. CASE \E t \in Task : portYIELD(t)
    <3>1. pc[k.pxCurrentTCB] = "yield"
      BY <2>3 DEF portYIELD
    <3>2. k.uxSchedulerSuspended = 0
      BY <3>1, IInvIs DEF Controlled, InCall
    <3> QED
      BY <3>2, <2>3 DEF portYIELD, Goto
  <2>4. CASE prvIdleTask
    <3>1. pc[Idle] \notin {"reap", "resume"}
      BY <2>1, IInvIs DEF Controlled
    <3>2. k.uxSchedulerSuspended = 0
      BY <3>1, <2>4, IInvIs DEF Controlled, InCall, prvIdleTask
    <3>3. Goto(k, "share") \/ Goto(SwitchIf(Len(k.ready[0]) > 1, k), "run")
      BY <3>1, <2>2, <2>4 DEF prvIdleTask
    <3> QED
      BY <3>2, <3>3 DEF Goto, SwitchIf
  <2> QED
    BY <2>3, <2>4
<1>2. Sound(k)
  BY IInvIs
<1>3. CASE k' = a
  <2>1. /\ Sound(a) /\ SameMembers(k, a) /\ Urgent(a, a.pxCurrentTCB)
        /\ a.uxPriority = k.uxPriority /\ SameClock(k, a)
    BY <1>1, <1>2, SwitchKeeps
  <2> HIDE DEF a
  <2>2. Exists(a, TEST_A) <=> Exists(k, TEST_A)
    BY <2>1, <1>2, SameMembersExist
  <2>3. /\ Asleep(a) = Asleep(k) /\ a.uxMissedTicks = k.uxMissedTicks
        /\ Suspended(a) = Suspended(k) /\ Terminated(a) = Terminated(k)
        /\ Pending(a) = Pending(k)
    BY <2>1 DEF SameMembers, SameClock
  <2>4. Calm(a)
    BY <2>1, <2>2, <2>3, CalmStays
  <2> QED
    BY <2>3, <2>4, <1>1, <1>3, SleepsOn
<1>4. CASE k' = k
  BY <1>1, <1>4, SleepsOn
<1> QED
  BY <1>1, <1>3, <1>4

(* The tick interrupt: whoever sleeps is woken or, with the scheduler      *)
(* suspended, will be when that is over.                                   *)
LEMMA TickNaps ==
  ASSUME IInv, IInv', Timed, Timed', Calm(k), Naps, TEST_A \in Task, vTick
  PROVE  /\ Calm(k') /\ Naps'
         /\ TEST_A \in Asleep(k') => TEST_A \in Asleep(k) /\ k'.uxMissedTicks > 0
         /\ k'.uxMissedTicks > 0 => k.pxCurrentTCB # Idle
<1> DEFINE j == vTaskIncrementTick(k)
           r == vTaskSwitchContext(j)
<1>1. /\ k' = r /\ due' = [t \in Tasks |-> IF Blocked(r, t) THEN due[t] - 1 ELSE 0]
      /\ k.uxSchedulerSuspended = 0 \/ k.uxMissedTicks < MaxMissed
  BY DEF vTick
<1>2. /\ Sound(k) /\ due \in [Tasks -> Int] /\ k.uxMissedTicks \in Nat
      /\ Sound(k') /\ TEST_A \in Tasks /\ k.uxSchedulerSuspended \in {0, 1}
  BY IInvIs, TimedIs DEF IInv
<1>3. TEST_A \in Asleep(k') => due'[TEST_A] = due[TEST_A] - 1
  <2>1. k' \in Kernel
    BY <1>2 DEF Sound
  <2> HIDE DEF r
  <2> QED
    BY <2>1, <1>1, <1>2, BlockedIs
<1>4. TEST_A \in Asleep(k') => due'[TEST_A] + k'.uxMissedTicks > 0
  BY TimedLater
<1>5. CASE k.uxSchedulerSuspended = 0
  <2>1. /\ Sound(j) /\ j.uxMissedTicks = k.uxMissedTicks
        /\ \E W \in SUBSET Asleep(k) : Woken(k, j, W)
    BY <1>2, <1>5, TickKeeps
  <2>2. k.uxMissedTicks = 0
    BY <1>5, IInvIs DEF Controlled
  <2>3. PICK W \in SUBSET Asleep(k) : Woken(k, j, W)
    BY <2>1
  <2> HIDE DEF j
  <2>4. /\ Asleep(j) \subseteq Asleep(k) /\ j.uxPriority = k.uxPriority
        /\ Suspended(j) \subseteq Suspended(k) /\ Terminated(j) = Terminated(k)
        /\ Pending(j) \subseteq Pending(k) /\ j.uxSchedulerSuspended = 0
    BY <2>3, <1>5 DEF Woken, Steady
  <2>5. /\ Sound(r) /\ SameMembers(j, r) /\ Urgent(r, r.pxCurrentTCB)
        /\ r.uxPriority = j.uxPriority /\ SameClock(j, r)
    BY <2>1, <2>4, SwitchKeeps
  <2> HIDE DEF r
  <2>6. Exists(r, TEST_A) <=> Exists(k, TEST_A)
    <3>1. W \in SUBSET (Asleep(k) \cup Suspended(k))
      OBVIOUS
    <3>2. Exists(j, TEST_A) <=> Exists(k, TEST_A)
      BY <3>1, <2>1, <2>3, <1>2, WokenExists
    <3> QED
      BY <3>2, <2>1, <2>5, SameMembersExist
  <2>7. /\ Asleep(r) \subseteq Asleep(k) /\ r.uxMissedTicks = 0
        /\ Suspended(r) \subseteq Suspended(k) /\ Terminated(r) = Terminated(k)
        /\ Pending(r) \subseteq Pending(k) /\ r.uxPriority = k.uxPriority
    BY <2>1, <2>2, <2>4, <2>5 DEF SameMembers, SameClock
  <2>8. Calm(k')
    BY <2>5, <2>6, <2>7, <1>1, CalmStays
  <2>9. TEST_A \notin Asleep(k')
    <3>1. SUFFICES ASSUME TEST_A \in Asleep(k')
                   PROVE  FALSE
      OBVIOUS
    <3>2. due[TEST_A] + 0 = 1 /\ due[TEST_A] \in Int
      BY <3>1, <2>2, <2>7, <1>1, <1>2 DEF Naps
    <3>3. (due[TEST_A] - 1) + 0 > 0
      BY <3>1, <2>7, <1>1, <1>3, <1>4
    <3> QED
      BY <3>2, <3>3
  <2> QED
    BY <2>7, <2>8, <2>9, <1>1 DEF Naps
<1>6. CASE k.uxSchedulerSuspended = 1
  <2>1. /\ Sound(j) /\ SameLists(k, j) /\ Steady(k, j)
        /\ j.uxTopReadyPriority = k.uxTopReadyPriority
        /\ j.uxMissedTicks = k.uxMissedTicks + 1
    BY <1>1, <1>2, <1>6, MissedTickKeeps
  <2> HIDE DEF j
  <2>2. j.uxSchedulerSuspended = 1 /\ j.pxCurrentTCB = k.pxCurrentTCB
    BY <2>1, <1>6 DEF Steady
  <2>3. /\ Sound(r) /\ SameLists(j, r) /\ SameClock(j, r)
        /\ r.pxCurrentTCB = j.pxCurrentTCB
    BY <2>1, <2>2, PutOffKeeps
  <2> HIDE DEF r
  <2>4. /\ Asleep(r) = Asleep(k) /\ r.uxMissedTicks = k.uxMissedTicks + 1
        /\ Suspended(r) = Suspended(k) /\ Terminated(r) = Terminated(k)
        /\ Pending(r) = Pending(k) /\ r.uxPriority = k.uxPriority
        /\ \A p \in Priority : ReadyAt(r, p) = ReadyAt(k, p)
    BY <2>1, <2>3 DEF SameLists, SameClock, Asleep, Delayed, Overflown, Suspended,
                      Terminated, Pending, ReadyAt
  <2>5. Exists(r, TEST_A) <=> Exists(k, TEST_A)
    <3>1. r \in Kernel /\ k \in Kernel
      BY <2>3, <1>2 DEF Sound
    <3> QED
      BY <3>1, <2>4, ExistsIs
  <2>6. Calm(k')
    BY <2>2, <2>3, <2>4, <2>5, <1>1, CalmStays
  <2>7. Naps'
    <3>1. SUFFICES ASSUME TEST_A \in Asleep(k')
                   PROVE  due'[TEST_A] + k'.uxMissedTicks = 1
      BY DEF Naps
    <3>2. due[TEST_A] + k.uxMissedTicks = 1 /\ due[TEST_A] \in Int
      BY <3>1, <2>4, <1>1, <1>2 DEF Naps
    <3>3. due'[TEST_A] = due[TEST_A] - 1 /\ k'.uxMissedTicks = k.uxMissedTicks + 1
      BY <3>1, <2>4, <1>1, <1>3
    <3> QED
      BY <3>2, <3>3, <1>2
  <2>8. k.pxCurrentTCB # Idle
    BY <1>6, IInvIs DEF Controlled, InCall, Calm, Outranks
  <2> QED
    BY <2>4, <2>6, <2>7, <2>8, <1>1, <1>2
<1> QED
  BY <1>2, <1>5, <1>6


(* The idle task has not missed a tick.                                    *)
LEMMA MissedNotIdle ==
  ASSUME IInv, Calm(k), k.uxMissedTicks # 0
  PROVE  k.pxCurrentTCB # Idle
BY IInvIs DEF Controlled, InCall, Calm, Outranks

(* The ticks that may still pass before A answers a test that is on.       *)
TicksLeft ==
  IF TEST_A \in Asleep(k) THEN IF k.uxMissedTicks = 0 THEN 2 ELSE 1
  ELSE (IF used THEN 1 ELSE 0)
         + (IF at[TEST_A] = "low" THEN 0 ELSE IF at[TEST_A] = "rest" THEN 2 ELSE 1)

(* A's wait and what is left of it are three ticks at most.                *)
InTime == wait <= IF Unanswered(TEST_A) THEN 3 - TicksLeft ELSE 0

(* While ticks are missed no work is done; A is busy for a millisecond,    *)
(* and sleeps before it looks.                                             *)
AnswerInv ==
  /\ Calm(k) /\ Naps
  /\ used \in BOOLEAN /\ wait \in Nat /\ work \in [Task -> Int]
  /\ k.uxMissedTicks > 0 => ~ used
  /\ at[TEST_A] = "busy" => work[TEST_A] = 1
  /\ TEST_A \in Asleep(k) => at[TEST_A] = "look"
  /\ InTime

(* Nothing changes that the invariant is about.                            *)
LEMMA SameAnswers ==
  ASSUME AnswerInv, k' = k, due' = due, at' = at, work' = work, low' = low,
         pulses' = pulses, wait' = wait, used' = used
  PROVE  AnswerInv'
<1>1. Calm(k') /\ Asleep(k') = Asleep(k) /\ Naps'
  BY DEF AnswerInv, Naps
<1>2. TicksLeft' = TicksLeft
  BY DEF TicksLeft
<1>3. InTime'
  BY <1>2 DEF AnswerInv, InTime, Unanswered
<1> QED
  BY <1>1, <1>3 DEF AnswerInv

(* The answer is under way when the tests begin.                           *)
LEMMA InitAnswers ==
  ASSUME InitTests, FirstOfAll
  PROVE  AnswerInv
<1>1. Begun(k, ToSet(Append(Created, Idle))) /\ Sound(k)
  BY StartedIs, InitKeeps DEF InitTests, Init, IInv
<1>2. /\ Asleep(k) = {} /\ Suspended(k) = {} /\ Terminated(k) = {} /\ Pending(k) = {}
      /\ k \in Kernel
  <2>1. k \in Kernel
    BY <1>1 DEF Sound
  <2> QED
    BY <2>1, <1>1, KernelTypes, MembersOf
       DEF Begun, Asleep, Delayed, Overflown, Suspended, Terminated, Pending
<1>3. k.uxPriority[Idle] = 0 /\ \A t \in Task : k.uxPriority[t] = InitPriority[t]
  BY <1>1 DEF Begun
<1>4. TEST_A \in Tasks /\ TEST_A # Idle /\ InitPriority \in [Task -> Priority]
  BY FreeRTOSAssumption DEF FirstOfAll, Tasks, Priority
<1>5. \A t \in Tasks \ {TEST_A} : k.uxPriority[t] < k.uxPriority[TEST_A]
  BY <1>3, <1>4 DEF FirstOfAll, Tasks
<1>6. TEST_A \in ToSet(Append(Created, Idle))
  BY AllAre DEF FirstOfAll
<1>7. TEST_A \in ReadyAt(k, k.uxPriority[TEST_A]) /\ k.uxPriority[TEST_A] \in Priority
  BY <1>1, <1>2, <1>4, <1>6, KernelTypes DEF Begun
<1>8. Outranks(k)
  BY <1>2, <1>5, <1>7, ExistsIs DEF Outranks
<1>9. k.pxCurrentTCB = TEST_A
  <2>1. k.pxCurrentTCB \in Tasks /\ k.uxPriority \in [Tasks -> Priority] /\ Priority \subseteq Int
    BY <1>2, KernelTypes, FreeRTOSAssumption DEF Priority
  <2>2. k.uxPriority[TEST_A] <= k.uxPriority[k.pxCurrentTCB]
    BY <1>1, <1>6 DEF Begun
  <2> QED
    BY <2>1, <2>2, <1>4, <1>5
<1>10. Calm(k) /\ Naps
  BY <1>2, <1>8, <1>9 DEF Calm, RunsUnlessAsleep, Naps
<1>11. k.uxMissedTicks = 0
  BY <1>1 DEF Begun
<1>12. /\ at[TEST_A] = "look" /\ used = FALSE /\ wait = 0 /\ work \in [Task -> Int]
       /\ ~ Unanswered(TEST_A)
  BY DEF InitTests, Unanswered, FirstOfAll
<1>13. InTime /\ wait \in Nat
  BY <1>12 DEF InTime
<1>14. used \in BOOLEAN
  BY <1>12
<1>15. at[TEST_A] # "busy"
  BY <1>12
<1> QED
  BY <1>10, <1>11, <1>12, <1>13, <1>14, <1>15 DEF AnswerInv

(* A step of a task in its own code, or of the tester.                     *)
LEMMA OwnStepAnswers ==
  ASSUME AnswerInv, PulseInv, FirstOfAll, IInv, NEW t \in Task,
         \/ Look(t) \/ busy_delay_ms(t) \/ SetLow(t) \/ SetHigh(t)
         \/ Begin(t) \/ Release(t)
  PROVE  AnswerInv'
<1>1. /\ at \in [Task -> {"look", "rest", "busy", "low", "high"}] /\ low \subseteq Task
      /\ pulses \in [Task -> Nat] /\ TEST_A \in Task /\ TEST_A # TEST_C
  BY DEF PulseInv, FirstOfAll
<1>2. UNCHANGED vars
  BY DEF Look, busy_delay_ms, SetLow, SetHigh, Begin, Release
<1>3. /\ Calm(k') /\ Naps' /\ Asleep(k') = Asleep(k) /\ k'.uxMissedTicks = k.uxMissedTicks
  BY <1>2 DEF vars, AnswerInv, Naps
<1>4. /\ used \in BOOLEAN /\ wait \in Nat /\ work \in [Task -> Int]
      /\ k.uxMissedTicks > 0 => ~ used
      /\ at[TEST_A] = "busy" => work[TEST_A] = 1
      /\ TEST_A \in Asleep(k) => at[TEST_A] = "look"
      /\ InTime
  BY DEF AnswerInv
<1>5. ASSUME Look(t) \/ busy_delay_ms(t) \/ SetLow(t) \/ SetHigh(t)
      PROVE  /\ Runs(t) /\ t \notin Asleep(k) /\ k.uxMissedTicks = 0
             /\ t # TEST_A => TEST_A \in Asleep(k)
  <2>1. Runs(t) /\ k.pxCurrentTCB = t
    BY <1>5 DEF Look, busy_delay_ms, SetLow, SetHigh, Step, Runs
  <2> QED
    BY <2>1, Running DEF AnswerInv, Calm, RunsUnlessAsleep
<1>6. CASE Look(t)
  <2>1. /\ at[t] = "look" /\ low' = low /\ pulses' = pulses /\ wait' = wait /\ used' = used
        /\ at' = [at EXCEPT ![t] = IF t \in low THEN "busy" ELSE "rest"]
        /\ work' = [work EXCEPT ![t] = IF t \in low THEN Busy(t) ELSE 0]
    BY <1>6 DEF Look, Step
  <2>2. work' \in [Task -> Int] /\ Busy(TEST_A) = 1
    BY <2>1, <1>1, <1>4 DEF Busy
  <2>3. CASE t # TEST_A
    BY <2>1, <2>2, <2>3, <1>1, <1>3, <1>4, <1>5, <1>6
       DEF AnswerInv, InTime, TicksLeft, Unanswered
  <2>4. CASE t = TEST_A
    BY <2>1, <2>2, <2>4, <1>1, <1>3, <1>4, <1>5, <1>6
       DEF AnswerInv, InTime, TicksLeft, Unanswered
  <2> QED
    BY <2>3, <2>4
<1>7. CASE busy_delay_ms(t)
  <2>1. /\ at[t] = "busy" /\ low' = low /\ pulses' = pulses /\ wait' = wait
        /\ ~ used /\ used' = TRUE
        /\ at' = [at EXCEPT ![t] = IF work[t] = 1 THEN "low" ELSE "busy"]
        /\ work' = [work EXCEPT ![t] = @ - 1]
    BY <1>7 DEF busy_delay_ms, Step
  <2>2. work' \in [Task -> Int]
    BY <2>1, <1>1, <1>4
  <2>3. CASE t # TEST_A
    BY <2>1, <2>2, <2>3, <1>1, <1>3, <1>4, <1>5, <1>7
       DEF AnswerInv, InTime, TicksLeft, Unanswered
  <2>4. CASE t = TEST_A
    BY <2>1, <2>2, <2>4, <1>1, <1>3, <1>4, <1>5, <1>7
       DEF AnswerInv, InTime, TicksLeft, Unanswered
  <2> QED
    BY <2>3, <2>4
<1>8. CASE SetLow(t)
  <2>1. /\ at[t] = "low" /\ low' = low /\ work' = work /\ used' = used
        /\ pulses' = [pulses EXCEPT ![t] = @ + 1]
        /\ wait' = IF t = TEST_A THEN 0 ELSE wait
        /\ at' = [at EXCEPT ![t] = "high"]
    BY <1>8 DEF SetLow, Step
  <2>2. CASE t # TEST_A
    BY <2>1, <2>2, <1>1, <1>3, <1>4, <1>5, <1>8
       DEF AnswerInv, InTime, TicksLeft, Unanswered
  <2>3. CASE t = TEST_A
    <3>1. pulses'[TEST_A] > 0
      BY <2>1, <2>3, <1>1
    <3>2. ~ Unanswered(TEST_A)'
      BY <3>1 DEF Unanswered
    <3> QED
      BY <3>2, <2>1, <2>3, <1>1, <1>3, <1>4, <1>5, <1>8 DEF AnswerInv, InTime
  <2> QED
    BY <2>2, <2>3
<1>9. CASE SetHigh(t)
  <2>1. /\ at[t] = "high" /\ low' = low /\ work' = work /\ used' = used
        /\ pulses' = pulses /\ wait' = wait
        /\ at' = [at EXCEPT ![t] = "look"]
    BY <1>9 DEF SetHigh, Step
  <2>2. CASE t # TEST_A
    BY <2>1, <2>2, <1>1, <1>3, <1>4, <1>5, <1>9
       DEF AnswerInv, InTime, TicksLeft, Unanswered
  <2>3. CASE t = TEST_A
    BY <2>1, <2>3, <1>1, <1>3, <1>4, <1>5, <1>9
       DEF AnswerInv, InTime, TicksLeft, Unanswered
  <2> QED
    BY <2>2, <2>3
<1>10. CASE Begin(t)
  <2>1. /\ t \notin low /\ low' = low \cup {t} /\ pulses' = [pulses EXCEPT ![t] = 0]
        /\ at' = at /\ work' = work /\ wait' = wait /\ used' = used
    BY <1>10 DEF Begin
  <2>2. CASE t # TEST_A
    BY <2>1, <2>2, <1>1, <1>3, <1>4, <1>10
       DEF AnswerInv, InTime, TicksLeft, Unanswered
  <2>3. CASE t = TEST_A
    <3>1. wait = 0
      BY <2>1, <2>3, <1>4 DEF InTime, Unanswered
    <3>2. \A n \in {0, 1, 2, 3} : 0 <= 3 - n
      OBVIOUS
    <3>3. TicksLeft' \in {0, 1, 2, 3}
      BY DEF TicksLeft
    <3>4. 0 <= 3 - TicksLeft'
      BY <3>2, <3>3
    <3>5. InTime'
      BY <3>1, <3>4, <2>1 DEF InTime
    <3> QED
      BY <3>5, <2>1, <1>3, <1>4 DEF AnswerInv
  <2> QED
    BY <2>2, <2>3
<1>11. CASE Release(t)
  <2>1. /\ pulses[t] > 0 /\ low' = low \ {t} /\ pulses' = pulses
        /\ at' = at /\ work' = work /\ wait' = wait /\ used' = used
    BY <1>11 DEF Release
  <2>2. Unanswered(TEST_A)' <=> Unanswered(TEST_A)
    BY <2>1, <1>1 DEF Unanswered
  <2> QED
    BY <2>1, <2>2, <1>3, <1>4 DEF AnswerInv, InTime, TicksLeft
<1> QED
  BY <1>6, <1>7, <1>8, <1>9, <1>10, <1>11

(* A step of the kernel: of the idle task, a call or a tick.               *)
LEMMA KernelAnswers ==
  ASSUME AnswerInv, PulseInv, FirstOfAll, IInv, IInv', Timed, Timed',
         \/ \E t \in Task : Rest(t) \/ KernelStep(t)
         \/ IdleLoop \/ Tick
  PROVE  AnswerInv'
<1>1. /\ at \in [Task -> {"look", "rest", "busy", "low", "high"}] /\ TEST_A \in Task
      /\ due \in [Tasks -> Int] /\ k.uxMissedTicks \in Nat /\ k'.uxMissedTicks \in Nat
      /\ Task \subseteq Tasks
  <2>1. at \in [Task -> {"look", "rest", "busy", "low", "high"}] /\ TEST_A \in Task
    BY DEF PulseInv, FirstOfAll
  <2>2. due \in [Tasks -> Int]
    BY DEF Timed
  <2>3. k \in Kernel /\ k' \in Kernel
    BY DEF IInv, Sound
  <2>4. k.uxMissedTicks \in Nat /\ k'.uxMissedTicks \in Nat
    BY <2>3, KernelTypes, FreeRTOSAssumption
  <2>5. Task \subseteq Tasks
    BY IInvIs
  <2> QED
    BY <2>1, <2>2, <2>4, <2>5
<1>2. /\ Calm(k) /\ Naps /\ used \in BOOLEAN /\ wait \in Nat /\ work \in [Task -> Int]
      /\ k.uxMissedTicks > 0 => ~ used
      /\ at[TEST_A] = "busy" => work[TEST_A] = 1
      /\ TEST_A \in Asleep(k) => at[TEST_A] = "look"
      /\ InTime
  BY DEF AnswerInv
<1>3. ASSUME NEW t \in Task, Rest(t)
      PROVE  AnswerInv'
  <2>1. /\ Runs(t) /\ vTaskDelay(1) /\ at[t] = "rest" /\ at' = [at EXCEPT ![t] = "look"]
        /\ low' = low /\ pulses' = pulses /\ wait' = wait /\ used' = used /\ work' = work
    BY <1>3 DEF Rest, Step
  <2>2. /\ Calm(k') /\ Naps' /\ Asleep(k') = Asleep(k) \cup {t}
        /\ k'.uxMissedTicks = 0 /\ k.uxMissedTicks = 0
    BY <2>1, <1>1, <1>2, RestNaps
  <2>3. CASE t # TEST_A
    BY <2>1, <2>2, <2>3, <1>1, <1>2 DEF AnswerInv, InTime, TicksLeft, Unanswered
  <2>4. CASE t = TEST_A
    BY <2>1, <2>2, <2>4, <1>1, <1>2 DEF AnswerInv, InTime, TicksLeft, Unanswered
  <2> QED
    BY <2>3, <2>4
<1>4. ASSUME NEW t \in Task, ResumeAll(t), UNCHANGED appVars
      PROVE  AnswerInv'
  <2>1. /\ at' = at /\ low' = low /\ pulses' = pulses /\ wait' = wait
        /\ used' = used /\ work' = work
    BY <1>4 DEF appVars
  <2>2. /\ Calm(k') /\ Naps' /\ Asleep(k') \subseteq Asleep(k)
        /\ k'.uxMissedTicks = 0
        /\ k.uxMissedTicks = 0 => Asleep(k') = Asleep(k)
        /\ k.uxMissedTicks > 0 => TEST_A \notin Asleep(k')
    BY <1>1, <1>2, <1>4, ResumeNaps
  <2>3. CASE k.uxMissedTicks = 0
    BY <2>1, <2>2, <2>3, <1>2 DEF AnswerInv, InTime, TicksLeft, Unanswered
  <2>4. CASE k.uxMissedTicks > 0
    BY <2>1, <2>2, <2>4, <1>2 DEF AnswerInv, InTime, TicksLeft, Unanswered
  <2> QED
    BY <2>3, <2>4, <1>1
<1>5. ASSUME (\E t \in Task : portYIELD(t)) \/ prvIdleTask, UNCHANGED appVars
      PROVE  AnswerInv'
  <2>1. /\ at' = at /\ low' = low /\ pulses' = pulses /\ wait' = wait
        /\ used' = used /\ work' = work
    BY <1>5 DEF appVars
  <2>2. /\ Calm(k') /\ Naps' /\ Asleep(k') = Asleep(k)
        /\ k'.uxMissedTicks = k.uxMissedTicks
    BY <1>1, <1>2, <1>5, YieldNaps
  <2> QED
    BY <2>1, <2>2, <1>2 DEF AnswerInv, InTime, TicksLeft, Unanswered
<1>6. ASSUME Tick
      PROVE  AnswerInv'
  <2>1. /\ at' = at /\ low' = low /\ pulses' = pulses /\ work' = work /\ used' = FALSE
        /\ used \/ k.pxCurrentTCB = Idle
        /\ vTick
        /\ wait' = IF Unanswered(TEST_A) /\ wait < MaxWait THEN wait + 1 ELSE wait
    BY <1>6 DEF Tick
  <2>2. /\ Calm(k') /\ Naps'
        /\ TEST_A \in Asleep(k') => TEST_A \in Asleep(k) /\ k'.uxMissedTicks > 0
        /\ k'.uxMissedTicks > 0 => k.pxCurrentTCB # Idle
    BY <2>1, <1>1, <1>2, TickNaps
  <2>3. k.uxMissedTicks = 0
    BY <2>1, <1>1, <1>2, MissedNotIdle
  <2>4. TEST_A \notin Asleep(k) => used /\ TEST_A \notin Asleep(k')
    BY <2>1, <2>2, <1>1, <1>2, FreeRTOSAssumption DEF Calm, RunsUnlessAsleep
  <2>5. TicksLeft' = TicksLeft - 1
    <3>1. CASE TEST_A \in Asleep(k)
      BY <3>1, <2>1, <2>2, <2>3, <1>1, <1>2 DEF TicksLeft
    <3>2. CASE TEST_A \notin Asleep(k)
      BY <3>2, <2>1, <2>4 DEF TicksLeft
    <3> QED
      BY <3>1, <3>2
  <2>6. TicksLeft \in Int
    BY DEF TicksLeft
  <2>7. InTime'
    <3>1. Unanswered(TEST_A)' <=> Unanswered(TEST_A)
      BY <2>1 DEF Unanswered
    <3>2. CASE Unanswered(TEST_A)
      <4>1. wait <= 3 - TicksLeft
        BY <3>2, <1>2 DEF InTime
      <4>2. wait' <= wait + 1 /\ wait' \in Int
        BY <2>1, <1>2
      <4>3. wait' <= 3 - TicksLeft'
        BY <4>1, <4>2, <2>5, <2>6, <1>2
      <4> QED
        BY <4>3, <3>1, <3>2 DEF InTime
    <3>3. CASE ~ Unanswered(TEST_A)
      BY <3>1, <3>3, <2>1, <1>2 DEF InTime
    <3> QED
      BY <3>2, <3>3
  <2>8. wait' \in Nat
    BY <2>1, <1>2
  <2> QED
    BY <2>1, <2>2, <2>7, <2>8, <1>2 DEF AnswerInv
<1> QED
  BY <1>3, <1>4, <1>5, <1>6 DEF KernelStep, IdleLoop

(* The tests of A are answered within three ticks: however many tasks      *)
(* there are beside it, whatever they are busy with, and even if the       *)
(* ticks come while one of them has the scheduler suspended.               *)
THEOREM AnsweredWithinThree ==
  ASSUME FirstOfAll
  PROVE  SpecTests => []AnsweredInTime
<1> DEFINE All == IInv /\ Timed /\ PulseInv /\ AnswerInv
<1>1. InitTests => All
  <2>1. InitTests => PulseInv
    BY DEF InitTests, PulseInv, Answers
  <2> QED
    BY <2>1, InitKeeps, InitDelays, InitAnswers DEF InitTests
<1>2. All /\ [NextTests]_allVars => All'
  <2>1. SUFFICES ASSUME All, [NextTests]_allVars
                 PROVE  All'
    OBVIOUS
  <2>2. IInv' /\ Timed'
    BY <2>1, TestsAreCalls, NextKeeps, StepsDelay
  <2>3. PulseInv'
    BY <2>1, TestsKeepPulses
  <2>4. ASSUME UNCHANGED allVars
        PROVE  AnswerInv'
    <3>1. /\ k' = k /\ due' = due /\ at' = at /\ work' = work /\ low' = low
          /\ pulses' = pulses /\ wait' = wait /\ used' = used
      BY <2>4 DEF allVars, appVars, vars
    <3> QED
      BY <2>1, <3>1, SameAnswers
  <2>5. ASSUME NEW t \in Task,
               \/ Look(t) \/ busy_delay_ms(t) \/ SetLow(t) \/ SetHigh(t)
               \/ Begin(t) \/ Release(t)
        PROVE  AnswerInv'
    BY <2>1, <2>5, OwnStepAnswers
  <2>6. ASSUME \/ \E t \in Task : Rest(t) \/ KernelStep(t)
               \/ IdleLoop \/ Tick
        PROVE  AnswerInv'
    BY <2>1, <2>2, <2>6, KernelAnswers
  <2>7. AnswerInv'
    BY <2>1, <2>4, <2>5, <2>6 DEF NextTests
  <2> QED
    BY <2>2, <2>3, <2>7
<1>3. All => AnsweredInTime
  <2>1. TicksLeft \in Int /\ 0 <= TicksLeft
    BY DEF TicksLeft
  <2> QED
    BY <2>1 DEF AnswerInv, InTime, AnsweredInTime, FirstOfAll
<1> HIDE DEF All
<1> QED
  BY <1>1, <1>2, <1>3, PTL DEF SpecTests
=============================================================================
