---------------------------- MODULE SerialProofs ----------------------------
(***************************************************************************)
(* The safety of Serial for any characters, any depth of the FIFO, and any *)
(* number and length of the lines.                                         *)
(***************************************************************************)
EXTENDS SerialInv, FiniteSetTheorems, SequenceTheorems, TLAPS

Byte == Char \cup {"nl"}
Sent == Char \cup {"nl", "cr", "firmware"}
Uart ==
  [ier : Register, dll : Register, dlm : Register, lcr : Register, fcr : Register,
   mcr : Register, fifo : Seq(Sent)]

----------------------------------------------------------------------------
(* Where the characters of a text come out                                 *)

\* The places of the characters are distinct and in order.
LEMMA AfterFacts ==
  ASSUME NEW s \in Seq(Byte)
  PROVE  /\ After(s, 0) = 0
         /\ \A k \in 0 .. Len(s) : After(s, k) \in Nat
         /\ \A k \in 1 .. Len(s) :
              After(s, k) = After(s, k - 1) + IF s[k] = "nl" THEN 2 ELSE 1
         /\ \A j, k \in 0 .. Len(s) : j < k => After(s, j) < After(s, k)
<1> DEFINE Upto(k) == {i \in 1 .. k : s[i] = "nl"}
<1>1. Len(s) \in Nat BY LenProperties
<1>2. ASSUME NEW k \in 0 .. Len(s)
      PROVE  IsFiniteSet(Upto(k)) /\ Cardinality(Upto(k)) \in Nat
  <2>1. IsFiniteSet(1 .. k) BY <1>1, FS_Interval
  <2> QED BY <2>1, FS_Subset, FS_CardinalityType
<1>3. Cardinality(Upto(0)) = 0
  <2>1. Upto(0) = {} OBVIOUS
  <2> QED BY <2>1, FS_EmptySet
<1>4. ASSUME NEW k \in 1 .. Len(s)
      PROVE  Cardinality(Upto(k)) = Cardinality(Upto(k - 1)) + IF s[k] = "nl" THEN 1 ELSE 0
  <2>1. k - 1 \in 0 .. Len(s) /\ k \notin Upto(k - 1) BY <1>1
  <2>2. IsFiniteSet(Upto(k - 1)) /\ Cardinality(Upto(k - 1)) \in Nat BY <1>2, <2>1
  <2>3. CASE s[k] = "nl"
    <3>1. Upto(k) = Upto(k - 1) \cup {k} BY <1>1, <2>3
    <3>2. Cardinality(Upto(k - 1) \cup {k}) = Cardinality(Upto(k - 1)) + 1
      <4> HIDE DEF Upto
      <4> QED BY <2>1, <2>2, FS_AddElement
    <3> QED BY <2>3, <3>1, <3>2
  <2>4. CASE s[k] # "nl"
    <3>1. Upto(k) = Upto(k - 1) BY <1>1, <2>4
    <3> HIDE DEF Upto
    <3> QED BY <2>2, <2>4, <3>1
  <2> QED BY <2>3, <2>4
<1>5. ASSUME NEW j \in 0 .. Len(s), NEW k \in 0 .. Len(s), j < k
      PROVE  Cardinality(Upto(j)) <= Cardinality(Upto(k))
  <2>1. Upto(j) \subseteq Upto(k) BY <1>1, <1>5
  <2>2. IsFiniteSet(Upto(k)) BY <1>2
  <2> HIDE DEF Upto
  <2> QED BY <2>1, <2>2, FS_Subset
<1>6. \A k : After(s, k) = k + Cardinality(Upto(k)) BY DEF After
<1> HIDE DEF Upto
<1>7. ASSUME NEW k \in 1 .. Len(s)
      PROVE  After(s, k) = After(s, k - 1) + IF s[k] = "nl" THEN 2 ELSE 1
  <2>1. k - 1 \in 0 .. Len(s) BY <1>1
  <2>2. Cardinality(Upto(k - 1)) \in Nat BY <1>2, <2>1
  <2> QED BY <1>1, <1>4, <1>6, <2>2
<1>8. ASSUME NEW j \in 0 .. Len(s), NEW k \in 0 .. Len(s), j < k
      PROVE  After(s, j) < After(s, k)
  <2>1. Cardinality(Upto(j)) \in Nat /\ Cardinality(Upto(k)) \in Nat BY <1>2
  <2> QED BY <1>1, <1>5, <1>6, <1>8, <2>1
<1>9. ASSUME NEW k \in 0 .. Len(s) PROVE After(s, k) \in Nat
  <2>1. Cardinality(Upto(k)) \in Nat BY <1>2
  <2> QED BY <1>1, <1>6, <2>1
<1> QED BY <1>1, <1>3, <1>6, <1>7, <1>8, <1>9

\* A text as it comes out: each character at its place, a carriage return elsewhere.
LEMMA ExpandedFacts ==
  ASSUME NEW s \in Seq(Byte)
  PROVE  /\ Expanded(s) \in Seq(Sent)
         /\ Len(Expanded(s)) = After(s, Len(s))
         /\ \A k \in 1 .. Len(s) :
              After(s, k) \in 1 .. After(s, Len(s)) /\ Expanded(s)[After(s, k)] = s[k]
         /\ \A m \in 1 .. After(s, Len(s)) :
              (\A k \in 1 .. Len(s) : After(s, k) # m) => Expanded(s)[m] = "cr"
<1> DEFINE n == Len(s)
<1> DEFINE at(m) == CHOOSE k \in DOMAIN s : After(s, k) = m
<1> DEFINE char(m) == IF \E k \in DOMAIN s : After(s, k) = m THEN s[at(m)] ELSE "cr"
<1>1. n \in Nat /\ DOMAIN s = 1 .. n /\ \A k \in 1 .. n : s[k] \in Byte
  BY LenProperties
<1>2. Expanded(s) = [m \in 1 .. After(s, n) |-> char(m)]
  BY DEF Expanded
<1> HIDE DEF n
<1>3. After(s, n) \in Nat
  <2>1. n \in 0 .. Len(s) BY <1>1 DEF n
  <2> QED BY <2>1, AfterFacts
<1>4. ASSUME NEW m, NEW k \in 1 .. n, After(s, k) = m
      PROVE  at(m) = k
  <2>1. at(m) \in 1 .. n /\ After(s, at(m)) = m BY <1>1, <1>4
  <2> HIDE DEF at
  <2> DEFINE j == at(m)
  <2>2. j \in 0 .. Len(s) /\ k \in 0 .. Len(s) BY <1>1, <2>1 DEF n
  <2> HIDE DEF j
  <2>3. ~(j < k) /\ ~(k < j)
    <3>1. After(s, j) = m /\ m \in Nat BY <1>4, <2>1, <2>2, AfterFacts DEF j
    <3> QED BY <1>4, <2>2, <3>1, AfterFacts
  <2>4. j = k BY <2>2, <2>3, <1>1 DEF n
  <2> QED BY <2>4 DEF j
<1>5. ASSUME NEW m PROVE char(m) \in Sent
  <2>1. CASE \E k \in DOMAIN s : After(s, k) = m
    <3>1. at(m) \in DOMAIN s BY <2>1
    <3> HIDE DEF at
    <3> QED BY <1>1, <2>1, <3>1 DEF Sent, Byte
  <2>2. CASE ~\E k \in DOMAIN s : After(s, k) = m
    BY <2>2 DEF Sent
  <2> QED BY <2>1, <2>2
<1> HIDE DEF at
<1>6. ASSUME NEW k \in 1 .. n
      PROVE  After(s, k) \in 1 .. After(s, n) /\ Expanded(s)[After(s, k)] = s[k]
  <2>1. 0 \in 0 .. Len(s) /\ k \in 0 .. Len(s) /\ n \in 0 .. Len(s) /\ 0 < k
    BY <1>1 DEF n
  <2>2. After(s, 0) < After(s, k) /\ After(s, 0) = 0 /\ After(s, k) \in Nat
    BY <2>1, AfterFacts
  <2>3. After(s, k) <= After(s, n)
    <3>1. CASE k = n BY <1>3, <3>1
    <3>2. CASE k < n BY <1>3, <2>1, <2>2, <3>2, AfterFacts
    <3> QED BY <1>1, <3>1, <3>2
  <2>4. After(s, k) \in 1 .. After(s, n) BY <1>3, <2>2, <2>3
  <2>5. at(After(s, k)) = k BY <1>4
  <2>6. char(After(s, k)) = s[k] BY <1>1, <2>5
  <2> QED BY <1>2, <2>4, <2>6
<1>7. ASSUME NEW m \in 1 .. After(s, n), \A k \in 1 .. n : After(s, k) # m
      PROVE  Expanded(s)[m] = "cr"
  BY <1>1, <1>2, <1>7
<1> HIDE DEF char
<1>8. Expanded(s) \in [1 .. After(s, n) -> Sent] BY <1>2, <1>5
<1>9. Expanded(s) \in Seq(Sent) /\ Len(Expanded(s)) = After(s, n)
  <2>1. Expanded(s) \in Seq(Sent) BY <1>3, <1>8, SeqDef
  <2> QED BY <1>3, <1>8, <2>1, LenProperties
<1> QED BY <1>6, <1>7, <1>9 DEF n

\* One more character comes out as itself, a line feed after a carriage return.
LEMMA ExpandedAppend ==
  ASSUME NEW s \in Seq(Byte), NEW c \in Byte
  PROVE  Expanded(Append(s, c)) =
           Expanded(s) \o IF c = "nl" THEN <<"cr", "nl">> ELSE <<c>>
<1> DEFINE t == Append(s, c)
<1> DEFINE n == Len(s)
<1> DEFINE more == IF c = "nl" THEN <<"cr", "nl">> ELSE <<c>>
<1> DEFINE e == Expanded(s)
<1> DEFINE f == Expanded(t)
<1> DEFINE L == After(s, n)
<1> DEFINE w == IF c = "nl" THEN 2 ELSE 1
<1>1. /\ n \in Nat
      /\ t \in Seq(Byte) /\ Len(t) = n + 1 /\ t[n + 1] = c
      /\ \A i \in 1 .. n : t[i] = s[i]
  BY AppendProperties, LenProperties
<1>2. more \in Seq(Sent) /\ Len(more) = w
  <2>1. "cr" \in Sent /\ "nl" \in Sent /\ c \in Sent BY DEF Sent, Byte
  <2> QED BY <2>1
<1> HIDE DEF t, n
<1>3. \A k \in 0 .. n : After(t, k) = After(s, k)
  <2> SUFFICES ASSUME NEW k \in 0 .. n PROVE After(t, k) = After(s, k)
    OBVIOUS
  <2>1. {i \in 1 .. k : t[i] = "nl"} = {i \in 1 .. k : s[i] = "nl"} BY <1>1
  <2> QED BY <2>1 DEF After
<1>4. L \in Nat
  <2>1. n \in 0 .. Len(s) BY <1>1 DEF n
  <2> QED BY <2>1, AfterFacts
<1>5. After(t, n + 1) = L + w
  <2>1. n + 1 \in 1 .. Len(t) /\ n \in 0 .. n /\ n + 1 - 1 = n BY <1>1
  <2>2. After(t, n + 1) = After(t, n) + IF t[n + 1] = "nl" THEN 2 ELSE 1
    BY <1>1, <2>1, AfterFacts
  <2> QED BY <1>1, <1>3, <2>1, <2>2
<1>6. w \in {1, 2} /\ (w = 2 <=> c = "nl") OBVIOUS
<1>7. /\ e \in Seq(Sent) /\ Len(e) = L
      /\ \A k \in 1 .. n : After(s, k) \in 1 .. L /\ e[After(s, k)] = s[k]
      /\ \A m \in 1 .. L : (\A k \in 1 .. n : After(s, k) # m) => e[m] = "cr"
  BY ExpandedFacts DEF n
<1>8. /\ f \in Seq(Sent) /\ Len(f) = L + w
      /\ \A k \in 1 .. n + 1 : f[After(t, k)] = t[k]
      /\ \A m \in 1 .. L + w : (\A k \in 1 .. n + 1 : After(t, k) # m) => f[m] = "cr"
  <2> HIDE DEF L, w
  <2>1. /\ Expanded(t) \in Seq(Sent)
        /\ Len(Expanded(t)) = After(t, Len(t))
        /\ \A k \in 1 .. Len(t) : Expanded(t)[After(t, k)] = t[k]
        /\ \A m \in 1 .. After(t, Len(t)) :
             (\A k \in 1 .. Len(t) : After(t, k) # m) => Expanded(t)[m] = "cr"
    BY <1>1, ExpandedFacts
  <2>2. Len(t) = n + 1 /\ After(t, Len(t)) = L + w BY <1>1, <1>5
  <2> QED BY <2>1, <2>2
<1> HIDE DEF e, f, L, more, w
<1>9. /\ e \o more \in Seq(Sent) /\ Len(e \o more) = L + w
      /\ \A m \in 1 .. L + w : (e \o more)[m] = IF m <= L THEN e[m] ELSE more[m - L]
  <2>1. /\ e \o more \in Seq(Sent) /\ Len(e \o more) = Len(e) + Len(more)
        /\ \A m \in 1 .. Len(e) + Len(more) :
             (e \o more)[m] = IF m <= Len(e) THEN e[m] ELSE more[m - Len(e)]
    BY <1>2, <1>7, ConcatProperties
  <2> QED BY <1>2, <1>7, <2>1
<1>10. \A k \in 1 .. n : k \in 0 .. n /\ k \in 1 .. n + 1 /\ After(t, k) = After(s, k)
  BY <1>1, <1>3
<1>11. ASSUME NEW m \in 1 .. L + w PROVE f[m] = (e \o more)[m]
  <2>1. CASE m <= L
    <3>0. m \in 1 .. L BY <1>4, <2>1
    <3>1. CASE \E k \in 1 .. n : After(s, k) = m
      <4>1. PICK k \in 1 .. n : After(s, k) = m BY <3>1
      <4>2. e[m] = s[k] BY <1>7, <4>1
      <4>3. f[m] = t[k] BY <1>8, <1>10, <4>1
      <4> QED BY <1>1, <1>9, <2>1, <4>2, <4>3
    <3>2. CASE \A k \in 1 .. n : After(s, k) # m
      <4>1. e[m] = "cr" BY <1>7, <3>0, <3>2
      <4>2. \A k \in 1 .. n + 1 : After(t, k) # m
        <5> SUFFICES ASSUME NEW k \in 1 .. n + 1 PROVE After(t, k) # m
          OBVIOUS
        <5>1. CASE k = n + 1 BY <1>4, <1>5, <1>6, <2>1, <5>1
        <5>2. CASE k # n + 1
          <6>1. k \in 1 .. n BY <1>1, <5>2
          <6> QED BY <1>10, <3>2, <6>1
        <5> QED BY <5>1, <5>2
      <4>3. f[m] = "cr" BY <1>8, <4>2
      <4> QED BY <1>9, <2>1, <4>1, <4>3
    <3> QED BY <3>1, <3>2
  <2>2. CASE m = L + w
    <3>1. n + 1 \in 1 .. n + 1 BY <1>1
    <3>2. f[m] = c BY <1>1, <1>5, <1>8, <2>2, <3>1
    <3>3. more[w] = c BY <1>6 DEF more
    <3>4. (e \o more)[m] = more[w]
      <4>1. ~(m <= L) /\ m - L = w BY <1>4, <1>6, <2>2
      <4> QED BY <1>9, <4>1
    <3> QED BY <3>2, <3>3, <3>4
  <2>3. CASE m > L /\ m # L + w
    <3>1. c = "nl" /\ m = L + 1 /\ w = 2 BY <1>4, <1>6, <2>3
    <3>2. \A k \in 1 .. n + 1 : After(t, k) # m
      <4> SUFFICES ASSUME NEW k \in 1 .. n + 1 PROVE After(t, k) # m
        OBVIOUS
      <4>1. CASE k = n + 1 BY <1>4, <1>5, <3>1, <4>1
      <4>2. CASE k # n + 1
        <5>1. k \in 1 .. n BY <1>1, <4>2
        <5>2. After(t, k) \in 1 .. L BY <1>7, <1>10, <5>1
        <5> QED BY <1>4, <3>1, <5>2
      <4> QED BY <4>1, <4>2
    <3>3. f[m] = "cr" BY <1>8, <3>2
    <3>4. more[1] = "cr" BY <3>1 DEF more
    <3>5. (e \o more)[m] = more[1]
      <4>1. ~(m <= L) /\ m - L = 1 BY <1>4, <3>1
      <4> QED BY <1>9, <4>1
    <3> QED BY <3>3, <3>4, <3>5
  <2>4. m <= L \/ m = L + w \/ (m > L /\ m # L + w) BY <1>4, <1>6
  <2> QED BY <2>1, <2>2, <2>3, <2>4
<1>12. f = e \o more
  BY <1>8, <1>9, <1>11, SeqEqual
<1> QED BY <1>12 DEF e, f, more, t

LEMMA ExpandedEmpty == Expanded(<< >>) = << >>
<1>1. << >> \in Seq(Byte) /\ Len(<< >>) = 0 BY EmptySeq
<1>2. After(<< >>, 0) = 0 BY <1>1, AfterFacts
<1>3. Expanded(<< >>) \in Seq(Sent) /\ Len(Expanded(<< >>)) = After(<< >>, 0)
  BY <1>1, ExpandedFacts
<1> QED BY <1>2, <1>3, EmptySeq

\* What has come out so far, if nothing is printed yet.
LEMMA NothingPrinted ==
  ASSUME said = << >>, ~cr
  PROVE  Printed = << >>
<1>1. << >> \in Seq(Byte) BY EmptySeq
<1> QED BY <1>1, ExpandedEmpty, ConcatEmptySeq DEF Printed

----------------------------------------------------------------------------
(* The UART                                                                *)

\* A register of the UART that is written holds what was written.
LEMMA RegisterFacts ==
  ASSUME NEW u \in Uart, NEW v \in Register
  PROVE  /\ [u EXCEPT !.ier = v] \in Uart
         /\ [u EXCEPT !.dll = v] \in Uart
         /\ [u EXCEPT !.dlm = v] \in Uart
         /\ [u EXCEPT !.lcr = v] \in Uart
         /\ [u EXCEPT !.fcr = v, !.fifo = << >>] \in Uart
         /\ [u EXCEPT !.mcr = v] \in Uart
<1>1. << >> \in Seq(Sent) BY EmptySeq
<1> QED BY <1>1 DEF Uart

\* The writes of init one by one.
LEMMA InitWritesFacts ==
  /\ Len(InitWrites) = 7
  /\ InitWrites[1] = <<1, 0>> /\ InitWrites[2] = <<3, 128>> /\ InitWrites[3] = <<0, 1>>
  /\ InitWrites[4] = <<1, 0>> /\ InitWrites[5] = <<3, 3>> /\ InitWrites[6] = <<2, 199>>
  /\ InitWrites[7] = <<4, 11>>
BY DEF InitWrites

\* A write of init changes one register, and at most drops what the FIFO holds.
LEMMA KeepsInitWrite ==
  ASSUME IInv, InitWrite
  PROVE  IInv'
<1>1. /\ todo # << >>
      /\ outb(Head(todo)[1], Head(todo)[2])
      /\ todo' = Tail(todo)
      /\ UNCHANGED <<text, cr, lines, said, wire, left>>
  BY DEF InitWrite
<1>2. todo \in Seq(Nat \X Register) /\ uart \in Uart /\ wire \in Seq(Sent) /\ left.uart \in BOOLEAN
  BY DEF IInv, TypeOK, Uart, Sent
<1> DEFINE n == Len(todo)
<1>3. Len(InitWrites) = 7
  BY InitWritesFacts
<1>4. /\ n \in 1 .. 7
      /\ Head(todo) = InitWrites[8 - n]
      /\ todo' \in Seq(Nat \X Register) /\ Len(todo') = n - 1
      /\ \A i \in 1 .. n - 1 : todo'[i] = InitWrites[7 - (n - 1) + i]
  <2>1. n \in Nat /\ n # 0 BY <1>1, <1>2, EmptySeq, LenProperties
  <2>2. n <= 7 /\ \A i \in 1 .. n : todo[i] = InitWrites[7 - n + i]
    BY <1>3 DEF IInv, ProgressInv
  <2>3. /\ Tail(todo) \in Seq(Nat \X Register) /\ Len(Tail(todo)) = n - 1
        /\ \A i \in 1 .. n - 1 : Tail(todo)[i] = todo[i + 1]
    BY <1>1, <1>2, HeadTailProperties
  <2>4. Head(todo) = todo[1] BY <1>1, <1>2
  <2> HIDE DEF n
  <2>5. 1 \in 1 .. n /\ 7 - n + 1 = 8 - n BY <2>1
  <2>6. Head(todo) = InitWrites[8 - n] BY <2>2, <2>4, <2>5
  <2>7. ASSUME NEW i \in 1 .. n - 1 PROVE Tail(todo)[i] = InitWrites[7 - (n - 1) + i]
    <3>1. i + 1 \in 1 .. n /\ 7 - n + (i + 1) = 7 - (n - 1) + i BY <2>1
    <3> QED BY <2>2, <2>3, <3>1
  <2>8. n \in 1 .. 7 BY <2>1, <2>2
  <2> QED BY <1>1, <2>3, <2>6, <2>7, <2>8
<1> HIDE DEF n
<1>5. ProgressInv'
  <2>1. /\ Len(todo') = n - 1 /\ n - 1 \in Nat /\ n - 1 <= 7
        /\ \A i \in 1 .. n - 1 : todo'[i] = InitWrites[7 - (n - 1) + i]
    BY <1>4
  <2> QED BY <1>3, <2>1 DEF ProgressInv, InitWrites
<1>6. /\ uart' \in Uart
      /\ uart'.fifo \in {uart.fifo, << >>}
      /\ RegistersInv'
  <2>1. CASE ~left.uart
    BY <1>1, <1>2, <2>1 DEF outb, RegistersInv
  <2>2. CASE left.uart
    <3>1. uart' = Written(uart, Head(todo)[1], Head(todo)[2])
      BY <1>1, <2>2 DEF outb
    <3>2. /\ n = 7 => uart.lcr = (IF left.latch THEN 131 ELSE 3) /\ uart.ier = left.ier
          /\ n <= 6 => uart.ier = IF left.latch THEN left.ier ELSE 0
          /\ n \in 3 .. 5 => uart.lcr = 128
          /\ n <= 4 => uart.dll = 1
          /\ n <= 3 => uart.dlm = 0
          /\ n <= 2 => uart.lcr = 3
          /\ n <= 1 => uart.fcr = 199
      BY <2>2 DEF IInv, RegistersInv, n
    <3>0. left' = left BY <1>1
    <3> DEFINE off == Head(todo)[1]
    <3> DEFINE v == Head(todo)[2]
    <3>3. v \in Register
      <4>1. Head(todo) \in Nat \X Register BY <1>1, <1>2, HeadTailProperties
      <4> QED BY <4>1
    <3>4. Latch(uart) <=> uart.lcr >= 128
      BY DEF Latch
    <3>5. uart \in [ier : Register, dll : Register, dlm : Register, lcr : Register,
                    fcr : Register, mcr : Register, fifo : Seq(Sent)]
      BY <1>2 DEF Uart
    <3>6. CASE n = 7
      <4>1. Head(todo) = <<1, 0>> /\ Len(todo') = 6 BY <1>4, <3>6, InitWritesFacts
      <4>2. off = 1 /\ v = 0 BY <4>1
      <4>3. uart' = IF left.latch THEN [uart EXCEPT !.dlm = v] ELSE [uart EXCEPT !.ier = v]
        <5>1. Latch(uart) <=> left.latch BY <3>2, <3>4, <3>6
        <5> QED BY <3>1, <4>2, <5>1 DEF Written
      <4>4. uart' \in Uart BY <1>2, <3>3, <4>3, RegisterFacts
      <4>5. /\ uart'.ier = IF left.latch THEN left.ier ELSE 0
            /\ uart'.lcr = uart.lcr
        BY <3>5, <4>2, <4>3, <3>2, <3>6
      <4>6. RegistersInv'
        BY <3>0, <3>2, <3>6, <4>1, <4>2, <4>5 DEF RegistersInv
      <4> QED BY <3>5, <4>3, <4>4, <4>6
    <3>7. CASE n = 6
      <4>1. Head(todo) = <<3, 128>> /\ Len(todo') = 5 BY <1>4, <3>7, InitWritesFacts
      <4>2. off = 3 /\ v = 128 BY <4>1
      <4>3. uart' = [uart EXCEPT !.lcr = v]
        BY <3>1, <4>2 DEF Written
      <4>4. uart' \in Uart BY <1>2, <3>3, <4>3, RegisterFacts
      <4>5. /\ uart'.lcr = v /\ uart'.ier = uart.ier /\ uart'.dll = uart.dll
            /\ uart'.dlm = uart.dlm /\ uart'.fcr = uart.fcr /\ uart'.mcr = uart.mcr
        BY <3>5, <4>2, <4>3
      <4>6. RegistersInv'
        BY <3>0, <3>2, <3>7, <4>1, <4>2, <4>5 DEF RegistersInv
      <4> QED BY <3>5, <4>3, <4>4, <4>6
    <3>8. CASE n = 5
      <4>1. Head(todo) = <<0, 1>> /\ Len(todo') = 4 BY <1>4, <3>8, InitWritesFacts
      <4>2. off = 0 /\ v = 1 BY <4>1
      <4>3. uart' = [uart EXCEPT !.dll = v]
        <5>1. Latch(uart) BY <3>2, <3>4, <3>8
        <5> QED BY <3>1, <4>2, <5>1 DEF Written
      <4>4. uart' \in Uart BY <1>2, <3>3, <4>3, RegisterFacts
      <4>5. /\ uart'.dll = v /\ uart'.ier = uart.ier /\ uart'.dlm = uart.dlm
            /\ uart'.lcr = uart.lcr /\ uart'.fcr = uart.fcr /\ uart'.mcr = uart.mcr
        BY <3>5, <4>2, <4>3
      <4>6. RegistersInv'
        BY <3>0, <3>2, <3>8, <4>1, <4>2, <4>5 DEF RegistersInv
      <4> QED BY <3>5, <4>3, <4>4, <4>6
    <3>9. CASE n = 4
      <4>1. Head(todo) = <<1, 0>> /\ Len(todo') = 3 BY <1>4, <3>9, InitWritesFacts
      <4>2. off = 1 /\ v = 0 BY <4>1
      <4>3. uart' = [uart EXCEPT !.dlm = v]
        <5>1. Latch(uart) BY <3>2, <3>4, <3>9
        <5> QED BY <3>1, <4>2, <5>1 DEF Written
      <4>4. uart' \in Uart BY <1>2, <3>3, <4>3, RegisterFacts
      <4>5. /\ uart'.dlm = v /\ uart'.ier = uart.ier /\ uart'.dll = uart.dll
            /\ uart'.lcr = uart.lcr /\ uart'.fcr = uart.fcr /\ uart'.mcr = uart.mcr
        BY <3>5, <4>2, <4>3
      <4>6. RegistersInv'
        BY <3>0, <3>2, <3>9, <4>1, <4>2, <4>5 DEF RegistersInv
      <4> QED BY <3>5, <4>3, <4>4, <4>6
    <3>10. CASE n = 3
      <4>1. Head(todo) = <<3, 3>> /\ Len(todo') = 2 BY <1>4, <3>10, InitWritesFacts
      <4>2. off = 3 /\ v = 3 BY <4>1
      <4>3. uart' = [uart EXCEPT !.lcr = v]
        BY <3>1, <4>2 DEF Written
      <4>4. uart' \in Uart BY <1>2, <3>3, <4>3, RegisterFacts
      <4>5. /\ uart'.lcr = v /\ uart'.ier = uart.ier /\ uart'.dll = uart.dll
            /\ uart'.dlm = uart.dlm /\ uart'.fcr = uart.fcr /\ uart'.mcr = uart.mcr
        BY <3>5, <4>2, <4>3
      <4>6. RegistersInv'
        BY <3>0, <3>2, <3>10, <4>1, <4>2, <4>5 DEF RegistersInv
      <4> QED BY <3>5, <4>3, <4>4, <4>6
    <3>11. CASE n = 2
      <4>1. Head(todo) = <<2, 199>> /\ Len(todo') = 1 BY <1>4, <3>11, InitWritesFacts
      <4>2. off = 2 /\ v = 199 BY <4>1
      <4>3. uart' = [uart EXCEPT !.fcr = v, !.fifo = << >>]
        BY <3>1, <4>2 DEF Written
      <4>4. uart' \in Uart BY <1>2, <3>3, <4>3, RegisterFacts
      <4>5. /\ uart'.fcr = v /\ uart'.ier = uart.ier /\ uart'.dll = uart.dll
            /\ uart'.dlm = uart.dlm /\ uart'.lcr = uart.lcr /\ uart'.mcr = uart.mcr
        BY <3>5, <4>2, <4>3
      <4>6. RegistersInv'
        BY <3>0, <3>2, <3>11, <4>1, <4>2, <4>5 DEF RegistersInv
      <4> QED BY <3>5, <4>3, <4>4, <4>6
    <3>12. CASE n = 1
      <4>1. Head(todo) = <<4, 11>> /\ Len(todo') = 0 BY <1>4, <3>12, InitWritesFacts
      <4>2. off = 4 /\ v = 11 BY <4>1
      <4>3. uart' = [uart EXCEPT !.mcr = v]
        BY <3>1, <4>2 DEF Written
      <4>4. uart' \in Uart BY <1>2, <3>3, <4>3, RegisterFacts
      <4>5. /\ uart'.mcr = v /\ uart'.ier = uart.ier /\ uart'.dll = uart.dll
            /\ uart'.dlm = uart.dlm /\ uart'.lcr = uart.lcr /\ uart'.fcr = uart.fcr
        BY <3>5, <4>2, <4>3
      <4>6. RegistersInv'
        BY <3>0, <3>2, <3>12, <4>1, <4>2, <4>5 DEF RegistersInv
      <4> QED BY <3>5, <4>3, <4>4, <4>6
    <3> QED BY <1>4, <3>6, <3>7, <3>8, <3>9, <3>10, <3>11, <3>12
  <2> QED BY <1>2, <2>1, <2>2
<1>7. text = << >> /\ said = << >> /\ ~cr
  BY <1>1 DEF IInv, TextInv
<1>8. TypeOK'
  BY <1>1, <1>4, <1>6 DEF IInv, TypeOK, Uart, Sent
<1>9. TextInv'
  BY <1>1, <1>7 DEF TextInv
<1>10. LinesComeOut'
  <2> SUFFICES ASSUME left.uart
               PROVE  wire \o uart'.fifo \in {Printed, <<"firmware">> \o Printed}
    BY <1>1 DEF LinesComeOut, Printed
  <2>1. Printed = << >> /\ "firmware" \in Sent BY <1>7, NothingPrinted DEF Sent
  <2>2. <<"firmware">> \o Printed = <<"firmware">>
    <3>1. <<"firmware">> \in Seq(Sent) BY <2>1
    <3> QED BY <2>1, <3>1, ConcatEmptySeq
  <2>3. wire \o uart.fifo \in {<< >>, <<"firmware">>}
    BY <2>1, <2>2 DEF IInv, LinesComeOut
  <2>4. wire \o << >> \in {<< >>, <<"firmware">>}
    <3>1. uart.fifo \in Seq(Sent) BY <1>2 DEF Uart
    <3>2. /\ Len(wire) \in Nat /\ Len(uart.fifo) \in Nat
          /\ Len(wire) + Len(uart.fifo) <= 1
      <4>1. Len(wire \o uart.fifo) <= 1 BY <2>3
      <4> QED BY <1>2, <3>1, <4>1, ConcatProperties, LenProperties
    <3>3. CASE Len(wire) = 0
      <4>1. wire = << >> BY <1>2, <3>3, EmptySeq
      <4> QED BY <1>2, <4>1, ConcatEmptySeq
    <3>4. CASE Len(uart.fifo) = 0
      <4>1. uart.fifo = << >> BY <3>1, <3>4, EmptySeq
      <4> QED BY <2>3, <4>1
    <3> QED BY <3>2, <3>3, <3>4
  <2> QED BY <1>6, <2>1, <2>2, <2>3, <2>4
<1> QED BY <1>5, <1>6, <1>8, <1>9, <1>10 DEF IInv

----------------------------------------------------------------------------
(* Printing                                                                *)

\* What init has done stays done.
LEMMA Initialised ==
  ASSUME IInv, todo = << >>, todo' = todo, left' = left,
         left.uart => \E f \in Seq(Sent) : uart' = [uart EXCEPT !.fifo = f]
  PROVE  ProgressInv' /\ RegistersInv'
<1>1. uart \in Uart BY DEF IInv, TypeOK, Uart, Sent
<1>2. ProgressInv' BY DEF IInv, ProgressInv, InitWrites
<1>3. ASSUME left.uart PROVE RegistersInv'
  <2>1. PICK f \in Seq(Sent) : uart' = [uart EXCEPT !.fifo = f] BY <1>3
  <2>2. /\ uart'.ier = uart.ier /\ uart'.dll = uart.dll /\ uart'.dlm = uart.dlm
        /\ uart'.lcr = uart.lcr /\ uart'.fcr = uart.fcr /\ uart'.mcr = uart.mcr
    BY <1>1, <2>1 DEF Uart
  <2> QED BY <2>2 DEF IInv, RegistersInv
<1>4. ASSUME ~left.uart PROVE RegistersInv' BY <1>4 DEF RegistersInv
<1> QED BY <1>2, <1>3, <1>4

LEMMA KeepsPrintln ==
  ASSUME IInv, Println
  PROVE  IInv'
<1>1. /\ todo = << >> /\ text = << >> /\ lines < MaxLines /\ lines' = lines + 1
      /\ UNCHANGED <<todo, cr, said, uart, wire, left>>
  BY DEF Println
<1>2. PICK s \in Lines : text' = Append(s, "nl")
  BY DEF Println
<1>3. s \in Seq(Byte)
  <2>1. PICK k \in 0 .. MaxLine : s \in [1 .. k -> Byte] BY DEF Lines, Byte
  <2>2. k \in Nat OBVIOUS
  <2> QED BY <2>1, <2>2, SeqDef
<1>4. text' \in Seq(Byte)
  <2>1. "nl" \in Byte BY DEF Byte
  <2> QED BY <1>2, <1>3, <2>1, AppendProperties
<1>5. lines' \in 0 .. MaxLines
  BY <1>1, SerialAssumption DEF IInv, TypeOK
<1>6. TypeOK' BY <1>1, <1>4, <1>5 DEF IInv, TypeOK, Byte
<1>7. ProgressInv' /\ RegistersInv' BY <1>1 DEF IInv, ProgressInv, RegistersInv
<1>8. TextInv' BY <1>1 DEF IInv, TextInv
<1>9. LinesComeOut' BY <1>1 DEF IInv, LinesComeOut, Printed
<1> QED BY <1>6, <1>7, <1>8, <1>9 DEF IInv

\* A character that put_char_raw writes goes into an empty FIFO, which holds it.
LEMMA PutRaw ==
  ASSUME IInv, todo = << >>, NEW c \in Sent, put_char_raw(c)
  PROVE  /\ uart' \in Uart
         /\ left.uart => /\ uart.fifo = << >>
                         /\ uart' = [uart EXCEPT !.fifo = <<c>>]
                         /\ uart'.fifo = <<c>>
<1>1. uart \in Uart /\ left.uart \in BOOLEAN BY DEF IInv, TypeOK, Uart, Sent
<1>2. CASE ~left.uart BY <1>1, <1>2 DEF put_char_raw, outb
<1>3. CASE left.uart
  <2>1. uart.fifo = << >> BY <1>3 DEF put_char_raw, ThrEmpty
  <2>2. uart.lcr = 3 BY <1>3 DEF IInv, RegistersInv
  <2>3. ~Latch(uart) BY <2>2 DEF Latch
  <2>4. uart' = Written(uart, 0, c) BY <1>3 DEF put_char_raw, outb
  <2>5. Len(uart.fifo) < FifoDepth /\ Append(uart.fifo, c) = <<c>>
    BY <2>1, SerialAssumption
  <2>6. uart' = [uart EXCEPT !.fifo = <<c>>] BY <2>3, <2>4, <2>5 DEF Written
  <2>7. <<c>> \in Seq(Sent) OBVIOUS
  <2> QED BY <1>1, <2>1, <2>6, <2>7 DEF Uart
<1> QED BY <1>1, <1>2, <1>3

\* What put_char_raw writes comes out behind everything before it.
LEMMA OneMore ==
  ASSUME IInv, todo = << >>, NEW c \in Sent, put_char_raw(c), wire' = wire, left' = left,
         Printed \in Seq(Sent), Printed' = Printed \o <<c>>
  PROVE  LinesComeOut'
<1> SUFFICES ASSUME left.uart
             PROVE  wire \o uart'.fifo \in {Printed', <<"firmware">> \o Printed'}
  BY DEF LinesComeOut
<1>1. wire \in Seq(Sent) BY DEF IInv, TypeOK, Sent
<1>2. uart.fifo = << >> /\ uart'.fifo = <<c>> BY PutRaw
<1>3. wire \in {Printed, <<"firmware">> \o Printed}
  <2>1. wire \o << >> = wire BY <1>1, ConcatEmptySeq
  <2> QED BY <1>2, <2>1 DEF IInv, LinesComeOut
<1>4. CASE wire = Printed BY <1>2, <1>4
<1>5. CASE wire = <<"firmware">> \o Printed
  <2>1. <<"firmware">> \in Seq(Sent) /\ <<c>> \in Seq(Sent) BY DEF Sent
  <2>2. (<<"firmware">> \o Printed) \o <<c>> = <<"firmware">> \o (Printed \o <<c>>)
    BY <2>1, ConcatAssociative
  <2> QED BY <1>2, <1>5, <2>2
<1> QED BY <1>3, <1>4, <1>5

LEMMA KeepsPutCr ==
  ASSUME IInv, PutCr
  PROVE  IInv'
<1>1. /\ text # << >> /\ Head(text) = "nl" /\ ~cr /\ cr' = TRUE
      /\ put_char_raw("cr")
      /\ UNCHANGED <<todo, text, lines, said, wire, left>>
  BY DEF PutCr
<1>2. todo = << >> BY <1>1 DEF IInv, TextInv
<1>3. "cr" \in Sent BY DEF Sent
<1>4. /\ uart' \in Uart
      /\ left.uart => uart' = [uart EXCEPT !.fifo = <<"cr">>]
  BY <1>1, <1>2, <1>3, PutRaw
<1>5. TypeOK' BY <1>1, <1>4 DEF IInv, TypeOK, Uart, Sent
<1>6. ProgressInv' /\ RegistersInv'
  <2>1. <<"cr">> \in Seq(Sent) BY <1>3
  <2> QED BY <1>1, <1>2, <1>4, <2>1, Initialised
<1>7. TextInv' BY <1>1 DEF IInv, TextInv
<1>8. LinesComeOut'
  <2>1. said \in Seq(Byte) BY DEF IInv, TypeOK, Byte
  <2>2. Expanded(said) \in Seq(Sent) BY <2>1, ExpandedFacts
  <2>3. Printed = Expanded(said) BY <1>1, <2>2, ConcatEmptySeq DEF Printed
  <2>4. Printed' = Expanded(said) \o <<"cr">> BY <1>1 DEF Printed
  <2> QED BY <1>1, <1>2, <1>3, <2>2, <2>3, <2>4, OneMore
<1> QED BY <1>5, <1>6, <1>7, <1>8 DEF IInv

LEMMA KeepsPutChar ==
  ASSUME IInv, PutChar
  PROVE  IInv'
<1> DEFINE c == Head(text)
<1>1. /\ text # << >> /\ (c = "nl" => cr) /\ cr' = FALSE
      /\ put_char_raw(c)
      /\ text' = Tail(text) /\ said' = Append(said, c)
      /\ UNCHANGED <<todo, lines, wire, left>>
  BY DEF PutChar
<1>2. todo = << >> BY <1>1 DEF IInv, TextInv
<1>3. text \in Seq(Byte) /\ said \in Seq(Byte) /\ cr \in BOOLEAN
  BY DEF IInv, TypeOK, Byte
<1>4. c \in Byte /\ text' \in Seq(Byte) /\ said' \in Seq(Byte)
  <2>1. c \in Byte /\ Tail(text) \in Seq(Byte) BY <1>1, <1>3, HeadTailProperties
  <2> HIDE DEF c
  <2> QED BY <1>1, <1>3, <2>1, AppendProperties
<1>5. c \in Sent BY <1>4 DEF Byte, Sent
<1>6. c = "nl" <=> cr
  BY <1>1, <1>3 DEF IInv, TextInv
<1> HIDE DEF c
<1>7. /\ uart' \in Uart
      /\ left.uart => uart' = [uart EXCEPT !.fifo = <<c>>]
  BY <1>1, <1>2, <1>5, PutRaw
<1>8. TypeOK' BY <1>1, <1>4, <1>7 DEF IInv, TypeOK, Uart, Sent, Byte
<1>9. ProgressInv' /\ RegistersInv'
  <2>1. <<c>> \in Seq(Sent) BY <1>5
  <2> QED BY <1>1, <1>2, <1>7, <2>1, Initialised
<1>10. TextInv' BY <1>1, <1>2 DEF TextInv
<1>11. LinesComeOut'
  <2> DEFINE e == Expanded(said)
  <2>1. e \in Seq(Sent) BY <1>3, ExpandedFacts
  <2>2. Expanded(said') = e \o IF c = "nl" THEN <<"cr", "nl">> ELSE <<c>>
    BY <1>1, <1>3, <1>4, ExpandedAppend
  <2>3. Expanded(said') \in Seq(Sent) BY <1>4, ExpandedFacts
  <2>4. Printed' = Expanded(said')
    <3>1. Printed' = Expanded(said') \o << >> BY <1>1 DEF Printed
    <3> QED BY <2>3, <3>1, ConcatEmptySeq
  <2>5. Printed = e \o IF cr THEN <<"cr">> ELSE << >> BY DEF Printed
  <2>6. <<"cr">> \in Seq(Sent) BY DEF Sent
  <2> HIDE DEF e
  <2>7. Printed \in Seq(Sent) /\ Printed' = Printed \o <<c>>
    <3>1. CASE c = "nl"
      <4>1. Printed = e \o <<"cr">> BY <1>6, <2>5, <3>1
      <4>2. Printed' = e \o <<"cr", "nl">> BY <2>2, <2>4, <3>1
      <4>3. <<"nl">> \in Seq(Sent) BY DEF Sent
      <4>4. (e \o <<"cr">>) \o <<"nl">> = e \o (<<"cr">> \o <<"nl">>)
        BY <2>1, <2>6, <4>3, ConcatAssociative
      <4>5. <<"cr">> \o <<"nl">> = <<"cr", "nl">>
        <5>1. Append(<<"cr">>, "nl") = <<"cr">> \o <<"nl">>
          BY <2>6, AppendIsConcat DEF Sent
        <5> DEFINE a == Append(<<"cr">>, "nl")
        <5> DEFINE b == <<"cr", "nl">>
        <5>2. a \in Seq(Sent) /\ Len(a) = 2 /\ a[1] = "cr" /\ a[2] = "nl"
          BY <2>6, AppendProperties DEF Sent
        <5>3. b \in Seq(Sent) /\ Len(b) = 2 /\ b[1] = "cr" /\ b[2] = "nl" BY DEF Sent
        <5> HIDE DEF a, b
        <5>4. a = b BY <5>2, <5>3, SeqEqual
        <5> QED BY <5>1, <5>4 DEF a, b
      <4> QED BY <2>1, <2>6, <3>1, <4>1, <4>2, <4>4, <4>5, ConcatProperties
    <3>2. CASE c # "nl"
      <4>1. Printed = e BY <1>6, <2>1, <2>5, <3>2, ConcatEmptySeq
      <4>2. Printed' = e \o <<c>> BY <2>2, <2>4, <3>2
      <4> QED BY <2>1, <4>1, <4>2
    <3> QED BY <3>1, <3>2
  <2> QED BY <1>1, <1>2, <1>5, <2>7, OneMore
<1> QED BY <1>8, <1>9, <1>10, <1>11 DEF IInv

\* A character that leaves the FIFO is on the wire next.
LEMMA KeepsTransmit ==
  ASSUME IInv, Transmit
  PROVE  IInv'
<1> DEFINE h == Head(uart.fifo)
<1> DEFINE t == Tail(uart.fifo)
<1>1. /\ uart.fifo # << >>
      /\ wire' = Append(wire, h) /\ uart' = [uart EXCEPT !.fifo = t]
      /\ UNCHANGED <<todo, text, cr, lines, said, left>>
  BY DEF Transmit
<1>2. uart \in Uart /\ uart.fifo \in Seq(Sent) /\ wire \in Seq(Sent)
  BY DEF IInv, TypeOK, Uart, Sent
<1>3. h \in Sent /\ t \in Seq(Sent) /\ uart.fifo = <<h>> \o t
  <2>1. h \in Sent /\ t \in Seq(Sent) BY <1>1, <1>2, HeadTailProperties
  <2>2. uart.fifo = <<h>> \o t BY <1>1, <1>2
  <2> QED BY <2>1, <2>2
<1> HIDE DEF h, t
<1>4. wire' \in Seq(Sent) BY <1>1, <1>2, <1>3, AppendProperties
<1>5. uart' \in Uart /\ uart'.fifo = t BY <1>1, <1>2, <1>3 DEF Uart
<1>6. TypeOK' BY <1>1, <1>4, <1>5 DEF IInv, TypeOK, Uart, Sent
<1>7. /\ uart'.ier = uart.ier /\ uart'.dll = uart.dll /\ uart'.dlm = uart.dlm
      /\ uart'.lcr = uart.lcr /\ uart'.fcr = uart.fcr /\ uart'.mcr = uart.mcr
  BY <1>1, <1>2 DEF Uart
<1>8. ProgressInv' /\ RegistersInv'
  BY <1>1, <1>7 DEF IInv, ProgressInv, RegistersInv
<1>9. TextInv' BY <1>1 DEF IInv, TextInv
<1>10. wire' \o uart'.fifo = wire \o uart.fifo
  <2>1. <<h>> \in Seq(Sent) BY <1>3
  <2>2. wire' = wire \o <<h>> BY <1>1, <1>2, <1>3, AppendIsConcat
  <2>3. (wire \o <<h>>) \o t = wire \o (<<h>> \o t) BY <1>2, <1>3, <2>1, ConcatAssociative
  <2> QED BY <1>3, <1>5, <2>2, <2>3
<1>11. LinesComeOut' BY <1>1, <1>10 DEF IInv, LinesComeOut, Printed
<1> QED BY <1>6, <1>8, <1>9, <1>11 DEF IInv

----------------------------------------------------------------------------
(* The theorems                                                            *)

LEMMA InitInv == Init => IInv
<1> SUFFICES ASSUME Init PROVE IInv
  OBVIOUS
<1>1. left \in [uart : BOOLEAN, ier : {0, 1}, latch : BOOLEAN]
  BY DEF Init
<1>2. uart \in [ier : {left.ier}, dll : {1, 12}, dlm : {0}, lcr : {IF left.latch THEN 131 ELSE 3},
                fcr : {0}, mcr : {0, 3}, fifo : {<< >>, <<"firmware">>}]
  BY DEF Init
<1>3. << >> \in Seq(Byte) /\ << >> \in Seq(Sent) /\ <<"firmware">> \in Seq(Sent)
  BY EmptySeq DEF Sent
<1>4. todo \in Seq(Nat \X Register)
  BY DEF Init, InitWrites, Register
<1>5. TypeOK
  <2>1. /\ left.ier \in Register /\ (IF left.latch THEN 131 ELSE 3) \in Register
        /\ {1, 12} \subseteq Register /\ {0} \subseteq Register /\ {0, 3} \subseteq Register
        /\ {<< >>, <<"firmware">>} \subseteq Seq(Sent)
    BY <1>1, <1>3 DEF Register
  <2> HIDE DEF Register
  <2>2. uart \in Uart BY <1>2, <2>1 DEF Uart
  <2>3. 0 \in 0 .. MaxLines BY SerialAssumption
  <2> QED BY <1>1, <1>3, <1>4, <2>2, <2>3 DEF Init, TypeOK, Uart, Byte, Sent
<1>6. ProgressInv BY DEF Init, ProgressInv, InitWrites
<1>7. RegistersInv
  <2>1. Len(todo) = 7 BY DEF Init, InitWrites
  <2>2. uart.ier = left.ier /\ uart.lcr = IF left.latch THEN 131 ELSE 3 BY <1>2
  <2> QED BY <2>1, <2>2 DEF RegistersInv
<1>8. TextInv BY DEF Init, TextInv
<1>9. LinesComeOut
  <2>1. Printed = << >> BY NothingPrinted DEF Init
  <2>2. wire \o uart.fifo = uart.fifo BY <1>2, <1>3, ConcatEmptySeq DEF Init
  <2>3. <<"firmware">> \o << >> = <<"firmware">> BY <1>3, ConcatEmptySeq
  <2> QED BY <1>2, <2>1, <2>2, <2>3 DEF LinesComeOut
<1> QED BY <1>5, <1>6, <1>7, <1>8, <1>9 DEF IInv

LEMMA NextInv == IInv /\ [Next]_vars => IInv'
<1> SUFFICES ASSUME IInv, [Next]_vars PROVE IInv'
  OBVIOUS
<1>1. CASE UNCHANGED vars
  <2> USE <1>1 DEF vars, IInv
  <2>1. TypeOK' BY DEF TypeOK
  <2>2. ProgressInv' BY DEF ProgressInv
  <2>3. RegistersInv' BY DEF RegistersInv
  <2>4. TextInv' BY DEF TextInv
  <2>5. LinesComeOut' BY DEF LinesComeOut, Printed
  <2> QED BY <2>1, <2>2, <2>3, <2>4, <2>5
<1> QED
  BY <1>1, KeepsInitWrite, KeepsPrintln, KeepsPutCr, KeepsPutChar, KeepsTransmit DEF Next, Program

\* The inductive invariant holds in every reachable state.
THEOREM Invariance == Spec => []IInv
BY InitInv, NextInv, PTL DEF Spec

\* Every variable keeps its type; nothing but the text of the caller is ever said.
THEOREM TypeCorrect == Spec => []TypeOK
<1>1. IInv => TypeOK BY DEF IInv
<1> QED BY <1>1, Invariance, PTL

\* When serial::init is done the line is set to 115200 8N1 with the FIFO on, whatever
\* the firmware left and whether or not the divisor latch was open; interrupts are off
\* if it was closed.
THEOREM ConfiguredAtLast == Spec => []Configured
<1>1. IInv => Configured
  <2> SUFFICES ASSUME IInv, todo = << >>, left.uart
               PROVE  /\ uart.dll = 1 /\ uart.dlm = 0 /\ uart.lcr = 3
                      /\ uart.fcr = 199 /\ uart.mcr = 11
                      /\ ~left.latch => uart.ier = 0
    BY DEF Configured
  <2>1. Len(todo) = 0 OBVIOUS
  <2> QED BY <2>1 DEF IInv, RegistersInv
<1> QED BY <1>1, Invariance, PTL

\* The lines of serial_println come out whole and in order, through a FIFO of any
\* depth and however slowly the UART sends.
THEOREM LinesAreWhole == Spec => []LinesComeOut
<1>1. IInv => LinesComeOut BY DEF IInv
<1> QED BY <1>1, Invariance, PTL
=============================================================================
