--------------------------- MODULE BigWhileProofs ---------------------------
(***************************************************************************)
(* The deferred interrupts of Ex3, for any number of lines, patient or     *)
(* not.  Order says why a test is not forgotten: isTest is cleared only    *)
(* when the line has been answered, and a test that waits then began       *)
(* early.  Behind says where main is on its way to a line that waits: what *)
(* was served since lies behind it.  Punctual is about the patient lines:  *)
(* a line has an edge to be answered only while its test waits.            *)
(***************************************************************************)
EXTENDS BigWhile, Integers, TLAPS

At(l, step) == [line |-> l, step |-> step]

(* Main in the middle of an answer has not cleared isTest yet; a test that *)
(* waits at the end of the pulse began in it; the handler clears a flag    *)
(* that is set.                                                            *)
Order ==
  \A l \in Lines :
    /\ main \in {At(l, "low"), At(l, "high"), At(l, "clear")} => isTest[l]
    /\ main = At(l, "clear") /\ test[l] => early[l]
    /\ isr = At(l, "clear") => flag[l]

(* The lines main looks at before it gets from k to l.                     *)
Ahead(k, l) == IF k <= l THEN l - k ELSE l - k + NumLines

Behind ==
  \A l, m \in Lines :
    test[l] /\ ~early[l] =>
      /\ served[l][m] <= 1
      /\ served[l][m] = 1 =>
           \/ Ahead(main.line, l) < Ahead(m, l)
           \/ main.line = m /\ main.step \in {"high", "clear"}

Punctual ==
  \A l \in Patient :
    /\ ~early[l]
    /\ ~response[l] /\ main # At(l, "clear") =>
         (flag[l] \/ isTest[l] \/ isr = At(l, "mark") => test[l])

IInv == TypeOK /\ Order /\ NoticedUnlessEarly /\ Behind /\ Punctual

(* The next line is the following one, or the first.                       *)
LEMMA NextLineIs ==
  ASSUME NEW l \in Lines
  PROVE  NextLine(l) = IF l = NumLines THEN 1 ELSE l + 1
<1>1. NumLines \in Nat \ {0} /\ l \in 1 .. NumLines
  BY BigWhileAssumption DEF Lines
<1>2. l = NumLines => l % NumLines = 0
  BY <1>1, SMT
<1>3. l # NumLines => l % NumLines = l
  BY <1>1, SMT
<1> QED
  BY <1>1, <1>2, <1>3 DEF NextLine

-----------------------------------------------------------------------------
(* The tester begins a test of a line: the invariant is kept.              *)
LEMMA BeginKeeps == ASSUME IInv, NEW l \in Lines, Begin(l) PROVE IInv'
<1>0. TypeOK /\ Order /\ NoticedUnlessEarly /\ Behind /\ Punctual
  BY DEF IInv
<1>1. TypeOK'
  <2>1. served' = [served EXCEPT ![l] = [m \in Lines |-> 0]]
    BY DEF Begin
  <2>2. [m \in Lines |-> 0] \in [Lines -> 0 .. 2]
    OBVIOUS
  <2>3. served' \in [Lines -> [Lines -> 0 .. 2]]
    BY <1>0, <2>1, <2>2 DEF TypeOK
  <2>4. /\ test' \in [Lines -> BOOLEAN] /\ flag' \in [Lines -> BOOLEAN]
        /\ early' \in [Lines -> BOOLEAN]
    BY <1>0 DEF Begin, TypeOK, InPulse
  <2> QED
    BY <1>0, <2>3, <2>4 DEF Begin, TypeOK
<1>2. Order'
  BY <1>0 DEF Begin, TypeOK, Order, InPulse, At
<1>3. NoticedUnlessEarly'
  BY <1>0 DEF Begin, TypeOK, NoticedUnlessEarly
<1>4. Behind'
  BY <1>0 DEF Begin, TypeOK, Behind
<1>5. Punctual'
  BY <1>0, BigWhileAssumption DEF Begin, TypeOK, Punctual, Order, InPulse, At
<1> QED
  BY <1>1, <1>2, <1>3, <1>4, <1>5 DEF IInv

(* It sees the response, or gives up: the invariant is kept.               *)
LEMMA SeeKeeps ==
  ASSUME IInv, NEW l \in Lines, See(l) \/ Overflow(l)
  PROVE  IInv'
<1>0. TypeOK /\ Order /\ NoticedUnlessEarly /\ Behind /\ Punctual
  BY DEF IInv
<1>1. TypeOK'
  BY <1>0 DEF See, Overflow, TypeOK
<1>2. Order'
  BY <1>0 DEF See, Overflow, TypeOK, Order, At
<1>3. NoticedUnlessEarly'
  BY <1>0 DEF See, Overflow, TypeOK, NoticedUnlessEarly
<1>4. Behind'
  BY <1>0 DEF See, Overflow, TypeOK, Behind
<1>5. Punctual'
  BY <1>0, BigWhileAssumption DEF See, Overflow, TypeOK, Punctual, At
<1> QED
  BY <1>1, <1>2, <1>3, <1>4, <1>5 DEF IInv

(* The handler: a flag is marked before the handler goes on.               *)
LEMMA HandlerKeeps == ASSUME IInv, interrupt_J3 PROVE IInv'
<1>0. TypeOK /\ Order /\ NoticedUnlessEarly /\ Behind /\ Punctual
  BY DEF IInv
<1>a. NumLines \in Nat \ {0} /\ Patient \subseteq Lines /\ Lines = 1 .. NumLines
  BY BigWhileAssumption DEF Lines
<1>1. ASSUME isr' \in [line : Lines, step : {"get"}] \cup {Idle},
             isr = Idle \/ (\E l \in Lines : isr = At(l, "get")),
             UNCHANGED <<test, flag, isTest, response, main, early, served>>
      PROVE  IInv'
  <2>1. TypeOK'
    BY <1>0, <1>1 DEF TypeOK
  <2>2. \A l \in Lines : /\ isr' # At(l, "clear") /\ isr' # At(l, "mark")
                         /\ isr # At(l, "clear") /\ isr # At(l, "mark")
    BY <1>1 DEF At, Idle
  <2>3. Order'
    BY <1>0, <1>1, <2>2 DEF Order
  <2>4. NoticedUnlessEarly'
    BY <1>0, <1>1, <2>2 DEF NoticedUnlessEarly, At
  <2>5. Behind'
    BY <1>0, <1>1 DEF Behind
  <2>6. Punctual'
    BY <1>0, <1>1, <1>a, <2>2 DEF Punctual
  <2> QED
    BY <2>1, <2>3, <2>4, <2>5, <2>6 DEF IInv
<1>2. CASE Enter
  BY <1>1, <1>2, <1>a DEF Enter
<1>b. ASSUME NEW l \in Lines
      PROVE  AfterLine(l) \in [line : Lines, step : {"get"}] \cup {Idle}
  BY <1>a, <1>b DEF AfterLine
<1>3. ASSUME NEW l \in Lines, GetFlag(l), ~flag[l] PROVE IInv'
  BY <1>1, <1>3, <1>b DEF GetFlag, At
<1>4. ASSUME NEW l \in Lines, GetFlag(l), flag[l] PROVE IInv'
  <2>1. /\ isr = At(l, "get") /\ isr' = At(l, "clear")
        /\ UNCHANGED <<test, flag, isTest, response, main, early, served>>
    BY <1>4 DEF GetFlag, At
  <2>2. TypeOK'
    BY <1>0, <2>1 DEF TypeOK, At
  <2>3. Order'
    BY <1>0, <1>4, <2>1 DEF Order, At
  <2>4. NoticedUnlessEarly' /\ Behind' /\ Punctual'
    BY <1>0, <1>a, <2>1 DEF NoticedUnlessEarly, Behind, Punctual, At
  <2> QED
    BY <2>2, <2>3, <2>4 DEF IInv
<1>5. ASSUME NEW l \in Lines, ClearFlag(l) PROVE IInv'
  <2>1. /\ isr = At(l, "clear") /\ isr' = At(l, "mark")
        /\ flag' = [flag EXCEPT ![l] = FALSE]
        /\ UNCHANGED <<test, isTest, response, main, early, served>>
    BY <1>5 DEF ClearFlag, At
  <2>2. TypeOK'
    BY <1>0, <2>1 DEF TypeOK, At
  <2>3. flag[l]
    BY <1>0, <2>1 DEF Order
  <2>4. Order'
    BY <1>0, <2>1 DEF Order, At
  <2>5. NoticedUnlessEarly'
    BY <1>0, <2>1 DEF NoticedUnlessEarly, TypeOK, At
  <2>6. Behind'
    BY <1>0, <2>1 DEF Behind
  <2>7. Punctual'
    BY <1>0, <1>a, <2>1, <2>3 DEF Punctual, TypeOK, At
  <2> QED
    BY <2>2, <2>4, <2>5, <2>6, <2>7 DEF IInv
<1>6. ASSUME NEW l \in Lines, Mark(l) PROVE IInv'
  <2>1. /\ isr = At(l, "mark")
        /\ isr' \in [line : Lines, step : {"get"}] \cup {Idle}
        /\ isTest' = [isTest EXCEPT ![l] = TRUE]
        /\ UNCHANGED <<test, flag, response, main, early, served>>
    BY <1>6, <1>b DEF Mark, At
  <2>2. TypeOK'
    BY <1>0, <2>1 DEF TypeOK
  <2>3. \A k \in Lines : /\ isr' # At(k, "clear") /\ isr' # At(k, "mark")
                         /\ (isr = At(k, "mark") <=> k = l)
    BY <2>1 DEF At, Idle
  <2>4. Order'
    BY <1>0, <2>1, <2>3 DEF Order, TypeOK
  <2>5. NoticedUnlessEarly'
    BY <1>0, <2>1, <2>3 DEF NoticedUnlessEarly, TypeOK, At
  <2>6. Behind'
    BY <1>0, <2>1 DEF Behind
  <2>7. Punctual'
    BY <1>0, <1>a, <2>1, <2>3 DEF Punctual, TypeOK
  <2> QED
    BY <2>2, <2>4, <2>5, <2>6, <2>7 DEF IInv
<1> QED
  BY <1>2, <1>3, <1>4, <1>5, <1>6 DEF interrupt_J3

(* Main, when no handler runs or is about to.                              *)
LEMMA LookKeeps == ASSUME IInv, NEW l \in Lines, Look(l) PROVE IInv'
<1>0. TypeOK /\ Order /\ NoticedUnlessEarly /\ Behind /\ Punctual
  BY DEF IInv
<1>a. NumLines \in Nat \ {0} /\ Patient \subseteq Lines /\ Lines = 1 .. NumLines
  BY BigWhileAssumption DEF Lines
<1>1. /\ main = At(l, "look") /\ isr = Idle /\ \A k \in Lines : ~flag[k]
      /\ main' = IF isTest[l] THEN At(l, "low") ELSE At(NextLine(l), "look")
      /\ UNCHANGED <<test, flag, isTest, response, isr, early, served>>
  BY DEF Look, Step, Uninterrupted, At
<1>2. NextLine(l) \in Lines /\ NextLine(l) = IF l = NumLines THEN 1 ELSE l + 1
  BY <1>a, NextLineIs
<1>3. TypeOK'
  BY <1>0, <1>1, <1>2 DEF TypeOK, MainSteps, At
<1>4. Order'
  BY <1>0, <1>1, <1>2 DEF Order, TypeOK, At
<1>5. NoticedUnlessEarly'
  BY <1>0, <1>1 DEF NoticedUnlessEarly
<1>6. Behind'
  <2>1. SUFFICES ASSUME NEW k \in Lines, NEW m \in Lines, test[k], ~early[k]
                 PROVE  /\ served[k][m] <= 1
                        /\ served[k][m] = 1 =>
                             \/ Ahead(main'.line, k) < Ahead(m, k)
                             \/ main'.line = m /\ main'.step \in {"high", "clear"}
    BY <1>1 DEF Behind, Ahead
  <2>2. /\ served[k][m] <= 1
        /\ served[k][m] = 1 => Ahead(l, k) < Ahead(m, k)
    BY <1>0, <1>1, <2>1 DEF Behind, At
  <2>3. CASE isTest[l]
    BY <1>1, <2>2, <2>3 DEF At
  <2>4. CASE ~isTest[l]
    <3>1. k # l
      BY <1>0, <1>1, <2>1, <2>4 DEF NoticedUnlessEarly, Idle
    <3>2. Ahead(NextLine(l), k) < Ahead(l, k)
      BY <1>a, <1>2, <3>1, SMT DEF Ahead
    <3>3. Ahead(NextLine(l), k) \in Int /\ Ahead(l, k) \in Int /\ Ahead(m, k) \in Int
      BY <1>a, <1>2, SMT DEF Ahead
    <3>4. main'.line = NextLine(l)
      BY <1>1, <2>4 DEF At
    <3> QED
      BY <2>2, <3>2, <3>3, <3>4
  <2> QED
    BY <2>3, <2>4
<1>7. Punctual'
  BY <1>0, <1>1, <1>a DEF Punctual, At
<1> QED
  BY <1>3, <1>4, <1>5, <1>6, <1>7 DEF IInv

(* The polling loop drives the response low.                               *)
LEMMA SetLowKeeps == ASSUME IInv, NEW l \in Lines, SetLow(l) PROVE IInv'
<1>0. TypeOK /\ Order /\ NoticedUnlessEarly /\ Behind /\ Punctual
  BY DEF IInv
<1>a. NumLines \in Nat \ {0} /\ Patient \subseteq Lines /\ Lines = 1 .. NumLines
  BY BigWhileAssumption DEF Lines
<1>1. /\ main = At(l, "low") /\ isr = Idle /\ \A k \in Lines : ~flag[k]
      /\ main' = At(l, "high")
      /\ response' = [response EXCEPT ![l] = TRUE]
      /\ served' = [m \in Lines |-> [served[m] EXCEPT ![l] = IF @ < 2 THEN @ + 1 ELSE @]]
      /\ UNCHANGED <<test, flag, isTest, isr, early>>
  BY DEF SetLow, Step, Uninterrupted, At
<1>2. \A k, m \in Lines :
        served'[k][m] = IF m = l THEN (IF served[k][m] < 2 THEN served[k][m] + 1 ELSE 2)
                                 ELSE served[k][m]
  BY <1>0, <1>1 DEF TypeOK
<1>3. TypeOK'
  <2>1. ASSUME NEW k \in Lines PROVE served'[k] \in [Lines -> 0 .. 2]
    BY <1>0, <1>1, <2>1 DEF TypeOK
  <2>2. served' \in [Lines -> [Lines -> 0 .. 2]]
    BY <1>1, <2>1
  <2> QED
    BY <1>0, <1>1, <2>2 DEF TypeOK, MainSteps, At
<1>4. Order'
  BY <1>0, <1>1 DEF Order, TypeOK, At
<1>5. NoticedUnlessEarly'
  BY <1>0, <1>1 DEF NoticedUnlessEarly
<1>6. Behind'
  <2>1. SUFFICES ASSUME NEW k \in Lines, NEW m \in Lines, test[k], ~early[k]
                 PROVE  /\ served'[k][m] <= 1
                        /\ served'[k][m] = 1 =>
                             \/ Ahead(l, k) < Ahead(m, k)
                             \/ l = m
    BY <1>1 DEF Behind, Ahead, At
  <2>2. /\ served[k][m] <= 1 /\ served[k][m] \in 0 .. 2
        /\ served[k][m] = 1 => Ahead(l, k) < Ahead(m, k)
    BY <1>0, <1>1, <2>1 DEF Behind, At, TypeOK
  <2>3. CASE m = l
    <3>1. Ahead(l, k) \in Int
      BY <1>a, SMT DEF Ahead
    <3>2. served[k][m] = 0
      BY <2>2, <2>3, <3>1
    <3> QED
      BY <1>2, <2>3, <3>2
  <2>4. CASE m # l
    BY <1>2, <2>2, <2>4
  <2> QED
    BY <2>3, <2>4
<1>7. Punctual'
  BY <1>0, <1>1, <1>a DEF Punctual, TypeOK, At
<1> QED
  BY <1>3, <1>4, <1>5, <1>6, <1>7 DEF IInv

(* It drives the response high again.                                      *)
LEMMA SetHighKeeps == ASSUME IInv, NEW l \in Lines, SetHigh(l) PROVE IInv'
<1>0. TypeOK /\ Order /\ NoticedUnlessEarly /\ Behind /\ Punctual
  BY DEF IInv
<1>a. Patient \subseteq Lines
  BY BigWhileAssumption
<1>1. /\ main = At(l, "high") /\ main' = At(l, "clear") /\ ~test[l]
      /\ response' = [response EXCEPT ![l] = FALSE]
      /\ UNCHANGED <<test, flag, isTest, isr, early, served>>
  BY DEF SetHigh, Step, At
<1>2. TypeOK'
  BY <1>0, <1>1 DEF TypeOK, MainSteps, At
<1>3. Order'
  BY <1>0, <1>1 DEF Order, TypeOK, At
<1>4. NoticedUnlessEarly'
  BY <1>0, <1>1 DEF NoticedUnlessEarly
<1>5. Behind'
  BY <1>0, <1>1 DEF Behind, Ahead, At
<1>6. Punctual'
  BY <1>0, <1>1, <1>a DEF Punctual, TypeOK, At
<1> QED
  BY <1>2, <1>3, <1>4, <1>5, <1>6 DEF IInv

(* It clears the mark of the line.                                         *)
LEMMA ClearKeeps == ASSUME IInv, NEW l \in Lines, Clear(l) PROVE IInv'
<1>0. TypeOK /\ Order /\ NoticedUnlessEarly /\ Behind /\ Punctual
  BY DEF IInv
<1>a. NumLines \in Nat \ {0} /\ Patient \subseteq Lines /\ Lines = 1 .. NumLines
  BY BigWhileAssumption DEF Lines
<1>1. /\ main = At(l, "clear") /\ isr = Idle /\ \A k \in Lines : ~flag[k]
      /\ main' = At(NextLine(l), "look")
      /\ isTest' = [isTest EXCEPT ![l] = FALSE]
      /\ UNCHANGED <<test, flag, response, isr, early, served>>
  BY DEF Clear, Step, Uninterrupted, At
<1>2. NextLine(l) \in Lines /\ NextLine(l) = IF l = NumLines THEN 1 ELSE l + 1
  BY <1>a, NextLineIs
<1>3. test[l] => early[l]
  BY <1>0, <1>1 DEF Order
<1>4. TypeOK'
  BY <1>0, <1>1, <1>2 DEF TypeOK, MainSteps, At
<1>5. Order'
  BY <1>0, <1>1 DEF Order, TypeOK, At, Idle
<1>6. NoticedUnlessEarly'
  BY <1>0, <1>1, <1>3 DEF NoticedUnlessEarly, TypeOK
<1>7. Behind'
  <2>1. SUFFICES ASSUME NEW k \in Lines, NEW m \in Lines, test[k], ~early[k]
                 PROVE  /\ served[k][m] <= 1
                        /\ served[k][m] = 1 => Ahead(NextLine(l), k) < Ahead(m, k)
    BY <1>1 DEF Behind, Ahead, At
  <2>2. /\ served[k][m] <= 1
        /\ served[k][m] = 1 => Ahead(l, k) < Ahead(m, k) \/ l = m
    BY <1>0, <1>1, <2>1 DEF Behind, At
  <2>3. k # l
    BY <1>3, <2>1
  <2>4. Ahead(NextLine(l), k) < Ahead(l, k)
    BY <1>a, <1>2, <2>3, SMT DEF Ahead
  <2>5. Ahead(NextLine(l), k) \in Int /\ Ahead(l, k) \in Int /\ Ahead(m, k) \in Int
    BY <1>a, <1>2, SMT DEF Ahead
  <2> QED
    BY <2>2, <2>4, <2>5
<1>8. Punctual'
  <2>1. ASSUME NEW k \in Patient
        PROVE  /\ ~early[k]
               /\ ~response[k] /\ (flag[k] \/ isTest'[k] \/ isr = At(k, "mark")) => test[k]
    <3>1. CASE k = l
      BY <1>0, <1>1, <1>a, <3>1 DEF Punctual, TypeOK, At, Idle
    <3>2. CASE k # l
      BY <1>0, <1>1, <1>a, <3>2 DEF Punctual, TypeOK, At
    <3> QED
      BY <3>1, <3>2
  <2> QED
    BY <1>1, <2>1 DEF Punctual
<1> QED
  BY <1>4, <1>5, <1>6, <1>7, <1>8 DEF IInv

-----------------------------------------------------------------------------
(* The invariant holds at the start.                                       *)
LEMMA Initially == Init => IInv
BY BigWhileAssumption, SMT DEF Init, IInv, TypeOK, Order, NoticedUnlessEarly, Behind,
   Punctual, None, Lines, MainSteps, Idle, At

(* The invariant is inductive.                                             *)
LEMMA Inductive == IInv /\ [Next]_vars => IInv'
<1> SUFFICES ASSUME IInv, [Next]_vars PROVE IInv'
  OBVIOUS
<1>1. CASE UNCHANGED vars
  BY <1>1 DEF vars, IInv, TypeOK, Order, NoticedUnlessEarly, Behind, Punctual
<1>2. CASE Next
  BY <1>2, BeginKeeps, SeeKeeps, HandlerKeeps, LookKeeps, SetLowKeeps, SetHighKeeps,
     ClearKeeps DEF Next, Tester, Main
<1> QED
  BY <1>1, <1>2

(* The invariant holds in every state, for any number of lines.            *)
THEOREM Invariance == Spec => []IInv
BY Initially, Inductive, PTL DEF Spec

(* No test is lost between the handler and main, but for those that began  *)
(* in the pulse before: at whatever step the edge comes, and whatever the  *)
(* other lines do.                                                         *)
THEOREM Noticed == Spec => []NoticedUnlessEarly
<1>1. IInv => NoticedUnlessEarly
  BY DEF IInv
<1> QED
  BY <1>1, Invariance, PTL

(* A test is answered before any line is answered twice.                   *)
THEOREM InTurn == Spec => []OneRound
<1>1. IInv => OneRound
  BY DEF IInv, Behind, OneRound
<1> QED
  BY <1>1, Invariance, PTL

(* On a patient line the response pin falls only for a test that waits.    *)
THEOREM NoPulseUnasked == Spec => OnePulsePerTest
<1>1. ASSUME IInv, [Next]_vars
      PROVE  [\A l \in Patient : ~response[l] /\ response'[l] => test[l]]_vars
  <2>1. ASSUME NEW l \in Patient, Next, ~response[l], response'[l] PROVE test[l]
    <3>0. TypeOK /\ Order /\ Punctual /\ l \in Lines
      BY <1>1, BigWhileAssumption DEF IInv
    <3>1. PICK k \in Lines : response' = [response EXCEPT ![k] = TRUE] /\ main = At(k, "low")
      <4>1. response' # response
        BY <2>1
      <4>2. ~Tester /\ ~interrupt_J3
        BY <4>1 DEF Tester, Begin, See, Overflow, interrupt_J3, Enter, GetFlag, ClearFlag, Mark
      <4>3. PICK k \in Lines : SetLow(k) \/ SetHigh(k)
        BY <2>1, <4>1, <4>2 DEF Next, Main, Look, Clear
      <4>4. ~SetHigh(k)
        BY <2>1, <3>0 DEF SetHigh, TypeOK
      <4> QED
        BY <4>3, <4>4 DEF SetLow, Step, At
    <3>2. k = l
      BY <2>1, <3>0, <3>1 DEF TypeOK
    <3> QED
      BY <2>1, <3>0, <3>1, <3>2 DEF Order, Punctual, At
  <2> QED
    BY <1>1, <2>1
<1> QED
  BY <1>1, Invariance, PTL DEF Spec, OnePulsePerTest
=============================================================================
