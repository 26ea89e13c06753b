---------------------------- MODULE FailedBookProofs ----------------------------
(***************************************************************************)
(* That the workbooks hold the results, for every suite workbook, any      *)
(* number of runs and a kill at any step.                                  *)
(***************************************************************************)
EXTENDS FailedBook, SequenceTheorems, NaturalsInduction, WellFoundedInduction, TLAPS

-----------------------------------------------------------------------------
(* The loops over lists                                                    *)

(* A set of numbers that has 0 and, below n, with each number the next *)
LEMMA Counting ==
    ASSUME NEW n \in Nat, NEW G, 0 \in G, \A i \in 0..(n - 1) : i \in G => i + 1 \in G
    PROVE  \A m \in 0..n : m \in G
<1> DEFINE R == {ss \in Nat \X Nat : ss[1] < ss[2]}
           Bad == {m \in 0..n : m \notin G}
<1> SUFFICES ASSUME Bad # {} PROVE FALSE
  OBVIOUS
<1>1. IsWellFoundedOn(R, Nat)
  BY NatLessThanWellFounded DEF OpToRel
<1>2. Bad \subseteq Nat
  OBVIOUS
<1>3. PICK m \in Bad : \A k \in Bad : ~(<<k, m>> \in R)
  <2> HIDE DEF Bad, R
  <2> QED BY <1>1, <1>2, WFMin
<1>4. \A k \in Bad : ~(k < m)
  BY <1>2, <1>3
<1>5. m # 0 /\ m \in 0..n
  BY <1>3
<1>6. m - 1 \notin Bad
  <2>1. m - 1 < m
    BY <1>5
  <2> QED BY <1>4, <2>1
<1>7. m - 1 \in G /\ m - 1 \in 0..(n - 1)
  BY <1>5, <1>6
<1>8. (m - 1) + 1 \in G
  BY <1>7
<1> QED BY <1>3, <1>5, <1>8

KeptUpTo(s, S, f) ==
    f = [i \in 0..Len(s) |->
            IF i = 0 THEN <<>> ELSE IF s[i] \in S THEN Append(f[i - 1], s[i]) ELSE f[i - 1]]

LEMMA KeptFunction ==
    ASSUME NEW s, NEW S, Len(s) \in Nat
    PROVE  \E f : KeptUpTo(s, S, f) /\ Kept(s, S) = f[Len(s)]
<1> DEFINE Turns(n, f) ==
             f = [i \in 0..n |-> IF i = 0 THEN <<>> ELSE IF s[i] \in S THEN Append(f[i - 1], s[i]) ELSE f[i - 1]]
           G == {n \in Nat : \E f : Turns(n, f)}
<1>1. 0 \in G
  <2> DEFINE f == [i \in 0..0 |-> <<>>]
  <2>1. Turns(0, f)
    OBVIOUS
  <2> QED BY <2>1
<1>2. ASSUME NEW n \in 0..(Len(s) - 1), n \in G PROVE n + 1 \in G
  <2>1. PICK f : Turns(n, f)
    BY <1>2
  <2> DEFINE g == [i \in 0..(n + 1) |->
                     IF i = n + 1 THEN IF s[n + 1] \in S THEN Append(f[n], s[n + 1]) ELSE f[n] ELSE f[i]]
             h == [i \in 0..(n + 1) |-> IF i = 0 THEN <<>> ELSE IF s[i] \in S THEN Append(g[i - 1], s[i]) ELSE g[i - 1]]
  <2>2. ASSUME NEW i \in 0..(n + 1) PROVE g[i] = h[i]
    <3>1. CASE i = n + 1
      <4>1. g[i - 1] = f[n] /\ i - 1 = n /\ i # 0
        BY <3>1
      <4> QED BY <3>1, <4>1
    <3>2. CASE i # n + 1
      <4>1. i \in 0..n /\ g[i] = f[i]
        BY <3>2
      <4>2. f[i] = IF i = 0 THEN <<>> ELSE IF s[i] \in S THEN Append(f[i - 1], s[i]) ELSE f[i - 1]
        BY <2>1, <4>1
      <4>3. i # 0 => g[i - 1] = f[i - 1]
        BY <3>2
      <4> QED BY <4>1, <4>2, <4>3
    <3> QED BY <3>1, <3>2
  <2>3. g = h
    <3> HIDE DEF Turns
    <3> QED BY <2>2
  <2>4. Turns(n + 1, g)
    BY <2>3
  <2>5. \E u : Turns(n + 1, u)
    <3> HIDE DEF g, Turns
    <3> QED BY <2>4
  <2> HIDE DEF Turns
  <2> QED BY <2>5
<1>3. Len(s) \in G
  <2> HIDE DEF G
  <2>1. \A i \in 0..(Len(s) - 1) : i \in G => i + 1 \in G
    BY <1>2
  <2>2. \A m \in 0..Len(s) : m \in G
    BY <1>1, <2>1, Counting
  <2> QED BY <2>2
<1>4. \E f : KeptUpTo(s, S, f)
  BY <1>3 DEF KeptUpTo
<1> DEFINE f == CHOOSE u : KeptUpTo(s, S, u)
<1>5. KeptUpTo(s, S, f)
  BY <1>4
<1>6. Kept(s, S) = f[Len(s)]
  BY DEF Kept, KeptUpTo
<1> QED BY <1>5, <1>6

(* The list at each turn of the loop *)
KeptBy(T, s, S, f) ==
    /\ f[0] = <<>>
    /\ \A i \in 0..(Len(s) - 1) : f[i + 1] = IF s[i + 1] \in S THEN Append(f[i], s[i + 1]) ELSE f[i]
    /\ \A i \in 0..Len(s) : f[i] \in Seq({e \in T \cap S : \E j \in 1..Len(s) : s[j] = e})
    /\ Kept(s, S) = f[Len(s)]

LEMMA KeptSteps ==
    ASSUME NEW T, NEW s \in Seq(T), NEW S
    PROVE  \E f : KeptBy(T, s, S, f)
<1>1. Len(s) \in Nat /\ \A i \in 1..Len(s) : s[i] \in T
  OBVIOUS
<1>2. PICK f : KeptUpTo(s, S, f) /\ Kept(s, S) = f[Len(s)]
  BY <1>1, KeptFunction
<1>3. f[0] = <<>>
  BY <1>1, <1>2 DEF KeptUpTo
<1>4. ASSUME NEW i \in 0..(Len(s) - 1)
      PROVE  f[i + 1] = IF s[i + 1] \in S THEN Append(f[i], s[i + 1]) ELSE f[i]
  <2>1. i + 1 \in 0..Len(s) /\ i + 1 # 0 /\ (i + 1) - 1 = i
    BY <1>1
  <2> QED BY <1>2, <2>1 DEF KeptUpTo
<1> DEFINE E == {e \in T \cap S : \E j \in 1..Len(s) : s[j] = e}
           G == {i \in 0..Len(s) : f[i] \in Seq(E)}
<1>5. 0 \in G
  <2> HIDE DEF E
  <2>1. <<>> \in Seq(E)
    BY EmptySeq
  <2>2. f[0] \in Seq(E)
    BY <1>3, <2>1, Zenon
  <2>3. 0 \in 0..Len(s)
    BY <1>1
  <2> QED BY <2>2, <2>3
<1>6. ASSUME NEW i \in 0..(Len(s) - 1), i \in G PROVE i + 1 \in G
  <2>1. f[i] \in Seq(E) /\ i + 1 \in 0..Len(s) /\ i + 1 \in 1..Len(s)
    BY <1>1, <1>6
  <2>2. s[i + 1] \in S => s[i + 1] \in E
    BY <1>1, <2>1
  <2> HIDE DEF E
  <2>3. s[i + 1] \in S => Append(f[i], s[i + 1]) \in Seq(E)
    BY <2>1, <2>2
  <2> QED BY <1>4, <2>1, <2>3
<1>7. \A i \in 0..Len(s) : i \in G
  <2> HIDE DEF G
  <2> QED BY <1>1, <1>5, <1>6, Counting
<1>8. KeptBy(T, s, S, f)
  BY <1>2, <1>3, <1>4, <1>7 DEF KeptBy
<1> QED BY <1>8

(* What is kept *)
LEMMA KeptIn ==
    ASSUME NEW T, NEW s \in Seq(T), NEW S
    PROVE  Kept(s, S) \in Seq({e \in T \cap S : \E j \in 1..Len(s) : s[j] = e})
<1>1. Len(s) \in 0..Len(s)
  OBVIOUS
<1> QED BY <1>1, KeptSteps DEF KeptBy

LEMMA KeptAll ==
    ASSUME NEW T, NEW s \in Seq(T), NEW S, \A i \in 1..Len(s) : s[i] \in S
    PROVE  Kept(s, S) = s
<1>1. Len(s) \in Nat
  OBVIOUS
<1>2. PICK f : KeptBy(T, s, S, f)
  BY KeptSteps
<1> DEFINE G == {m \in 0..Len(s) : f[m] \in Seq(T) /\ Len(f[m]) = m /\ \A i \in 1..m : f[m][i] = s[i]}
<1>3. 0 \in G
  <2>1. <<>> \in Seq(T) /\ Len(<<>>) = 0 /\ \A i \in 1..0 : FALSE
    OBVIOUS
  <2>2. f[0] = <<>>
    BY <1>2 DEF KeptBy
  <2>3. f[0] \in Seq(T) /\ Len(f[0]) = 0
    BY <2>1, <2>2, Zenon
  <2>4. 0 \in 0..Len(s)
    BY <1>1
  <2> QED BY <2>1, <2>3, <2>4
<1>4. ASSUME NEW m \in 0..(Len(s) - 1), m \in G PROVE m + 1 \in G
  <2>1. f[m] \in Seq(T) /\ Len(f[m]) = m /\ \A i \in 1..m : f[m][i] = s[i]
    BY <1>4
  <2>2. m + 1 \in 1..Len(s) /\ s[m + 1] \in T /\ m + 1 \in 0..Len(s)
    BY <1>1
  <2>3. f[m + 1] = Append(f[m], s[m + 1])
    BY <1>2, <2>2 DEF KeptBy
  <2>4. \A t \in Seq(T), e \in T :
            /\ Append(t, e) \in Seq(T) /\ Len(Append(t, e)) = Len(t) + 1
            /\ \A i \in 1..Len(t) : Append(t, e)[i] = t[i]
            /\ Append(t, e)[Len(t) + 1] = e
    OBVIOUS
  <2>5. \A i \in 1..(m + 1) : i \in 1..m \/ i = m + 1
    OBVIOUS
  <2>6. /\ f[m + 1] \in Seq(T) /\ Len(f[m + 1]) = m + 1 /\ f[m + 1][m + 1] = s[m + 1]
        /\ \A i \in 1..m : f[m + 1][i] = s[i]
    BY <2>1, <2>2, <2>3, <2>4
  <2> QED BY <2>2, <2>5, <2>6
<1>5. Len(s) \in G
  <2> HIDE DEF G
  <2>1. \A m \in 0..Len(s) : m \in G
    BY <1>1, <1>3, <1>4, Counting
  <2> QED BY <1>1, <2>1
<1>6. Kept(s, S) \in Seq(T) /\ Len(Kept(s, S)) = Len(s) /\ \A i \in 1..Len(s) : Kept(s, S)[i] = s[i]
  BY <1>2, <1>5 DEF KeptBy
<1> QED BY <1>6, SeqEqual

LEMMA KeptNone ==
    ASSUME NEW T, NEW s \in Seq(T), NEW S, \A i \in 1..Len(s) : s[i] \notin S
    PROVE  Kept(s, S) = <<>>
<1>1. Kept(s, S) \in Seq({e \in T \cap S : \E j \in 1..Len(s) : s[j] = e})
  BY KeptIn
<1>2. {e \in T \cap S : \E j \in 1..Len(s) : s[j] = e} = {}
  OBVIOUS
<1>3. \A t \in Seq({}) : t = <<>>
  OBVIOUS
<1> QED BY <1>1, <1>2, <1>3

LEMMA KeptConcat ==
    ASSUME NEW T, NEW s \in Seq(T), NEW t \in Seq(T), NEW S
    PROVE  Kept(s \o t, S) = Kept(s, S) \o Kept(t, S)
<1> DEFINE u == s \o t
<1>1. /\ Len(s) \in Nat /\ Len(t) \in Nat /\ u \in Seq(T) /\ Len(u) = Len(s) + Len(t)
      /\ \A i \in 1..Len(s) : u[i] = s[i]
      /\ \A i \in 1..Len(t) : u[Len(s) + i] = t[i]
  OBVIOUS
<1> HIDE DEF u
<1>2. PICK f : KeptBy(T, u, S, f)
  BY <1>1, KeptSteps
<1>3. PICK g : KeptBy(T, s, S, g)
  BY KeptSteps
<1>4. PICK h : KeptBy(T, t, S, h)
  BY KeptSteps
<1>5. \A m \in 0..Len(s) : f[m] = g[m]
  <2> DEFINE G == {m \in 0..Len(s) : f[m] = g[m]}
  <2>1. 0 \in G
    BY <1>1, <1>2, <1>3 DEF KeptBy
  <2>2. ASSUME NEW m \in 0..(Len(s) - 1), m \in G PROVE m + 1 \in G
    <3>1. f[m] = g[m] /\ m + 1 \in 0..Len(s) /\ u[m + 1] = s[m + 1] /\ m \in 0..(Len(u) - 1)
      BY <1>1, <2>2
    <3> QED BY <1>2, <1>3, <3>1 DEF KeptBy
  <2>3. \A m \in 0..Len(s) : m \in G
    <3> HIDE DEF G
    <3> QED BY <1>1, <2>1, <2>2, Counting
  <2> QED BY <2>3
<1>6. Kept(s, S) \in Seq(T) /\ \A m \in 0..Len(t) : h[m] \in Seq(T)
  <2>1. \A A \in SUBSET T : \A a \in Seq(A) : a \in Seq(T)
    OBVIOUS
  <2>2. Len(s) \in 0..Len(s)
    BY <1>1
  <2>3. \A v \in Seq(T) : {e \in T \cap S : \E j \in 1..Len(v) : v[j] = e} \in SUBSET T
    OBVIOUS
  <2> QED BY <1>3, <1>4, <2>1, <2>2, <2>3 DEF KeptBy
<1>7. \A m \in 0..Len(t) : f[Len(s) + m] = Kept(s, S) \o h[m]
  <2> DEFINE G == {m \in 0..Len(t) : f[Len(s) + m] = Kept(s, S) \o h[m]}
  <2>1. 0 \in G
    <3>1. f[Len(s) + 0] = Kept(s, S) /\ h[0] = <<>> /\ 0 \in 0..Len(t)
      BY <1>1, <1>3, <1>4, <1>5 DEF KeptBy
    <3>2. Kept(s, S) \o <<>> = Kept(s, S)
      BY <1>6, ConcatEmptySeq
    <3> QED BY <3>1, <3>2
  <2>2. ASSUME NEW m \in 0..(Len(t) - 1), m \in G PROVE m + 1 \in G
    <3>0. m + 1 \in 0..Len(t) /\ m \in 0..Len(t) /\ m + 1 \in 1..Len(t)
          /\ Len(s) + m \in 0..(Len(u) - 1) /\ Len(s) + (m + 1) = (Len(s) + m) + 1
      BY <1>1
    <3>1. /\ f[Len(s) + m] = Kept(s, S) \o h[m] /\ m + 1 \in 0..Len(t) /\ m \in 0..Len(t) /\ m + 1 \in 1..Len(t)
          /\ Len(s) + m \in 0..(Len(u) - 1) /\ Len(s) + (m + 1) = (Len(s) + m) + 1
          /\ t[m + 1] \in T
      BY <2>2, <3>0
    <3>2. u[(Len(s) + m) + 1] = t[m + 1]
      BY <1>1, <3>1
    <3>3. Append(Kept(s, S) \o h[m], t[m + 1]) = Kept(s, S) \o Append(h[m], t[m + 1])
      <4>1. Kept(s, S) \in Seq(T) /\ h[m] \in Seq(T) /\ t[m + 1] \in T
        BY <1>6, <3>1
      <4> DEFINE a == Kept(s, S)
                 b == h[m]
                 e == t[m + 1]
      <4> HIDE DEF a, b, e
      <4>2. a \in Seq(T) /\ b \in Seq(T) /\ e \in T
        BY <4>1 DEF a, b, e
      <4>3. /\ Append(a \o b, e) \in Seq(T) /\ a \o Append(b, e) \in Seq(T)
            /\ Len(Append(a \o b, e)) = Len(a) + Len(b) + 1 /\ Len(a \o Append(b, e)) = Len(a) + Len(b) + 1
            /\ Len(a) \in Nat /\ Len(b) \in Nat
        BY <4>2
      <4>4. ASSUME NEW i \in 1..(Len(a) + Len(b) + 1) PROVE Append(a \o b, e)[i] = (a \o Append(b, e))[i]
        <5>1. i \in 1..Len(a) \/ i \in (Len(a) + 1)..(Len(a) + Len(b)) \/ i = Len(a) + Len(b) + 1
          BY <4>3
        <5> QED BY <4>2, <4>3, <5>1
      <4>5. Append(a \o b, e) = a \o Append(b, e)
        BY <4>3, <4>4, SeqEqual
      <4> QED BY <4>5 DEF a, b, e
    <3>4. f[(Len(s) + m) + 1] = IF t[m + 1] \in S THEN Append(f[Len(s) + m], t[m + 1]) ELSE f[Len(s) + m]
      BY <1>2, <3>1, <3>2 DEF KeptBy
    <3>5. h[m + 1] = IF t[m + 1] \in S THEN Append(h[m], t[m + 1]) ELSE h[m]
      BY <1>4 DEF KeptBy
    <3> QED BY <3>1, <3>3, <3>4, <3>5
  <2>3. \A m \in 0..Len(t) : m \in G
    <3> HIDE DEF G
    <3> QED BY <1>1, <2>1, <2>2, Counting
  <2> QED BY <2>3
<1>8. Len(t) \in 0..Len(t) /\ Len(u) = Len(s) + Len(t)
  BY <1>1
<1> QED BY <1>2, <1>4, <1>7, <1>8 DEF u, KeptBy

(* The set counts only where the list has elements of it *)
LEMMA KeptSame ==
    ASSUME NEW T, NEW s \in Seq(T), NEW S, NEW R, \A i \in 1..Len(s) : s[i] \in S <=> s[i] \in R
    PROVE  Kept(s, S) = Kept(s, R)
<1>1. Len(s) \in Nat
  OBVIOUS
<1>2. PICK f : KeptBy(T, s, S, f)
  BY KeptSteps
<1>3. PICK g : KeptBy(T, s, R, g)
  BY KeptSteps
<1> DEFINE G == {m \in 0..Len(s) : f[m] = g[m]}
<1>4. 0 \in G
  BY <1>1, <1>2, <1>3 DEF KeptBy
<1>5. ASSUME NEW m \in 0..(Len(s) - 1), m \in G PROVE m + 1 \in G
  <2>1. f[m] = g[m] /\ m + 1 \in 0..Len(s) /\ m + 1 \in 1..Len(s)
    BY <1>1, <1>5
  <2> QED BY <1>2, <1>3, <2>1 DEF KeptBy
<1>6. \A m \in 0..Len(s) : m \in G
  <2> HIDE DEF G
  <2> QED BY <1>1, <1>4, <1>5, Counting
<1> QED BY <1>1, <1>2, <1>3, <1>6 DEF KeptBy

-----------------------------------------------------------------------------
(* What is queued                                                          *)

SuiteNames == Titles \cup Modes

Sheets == [name : SuiteNames, rows : Seq(Row)]

Suite(sheet) == IF mode = "normal" THEN sheet.name ELSE mode

Queued(sheet) ==
    {e \in SuiteNames \X Row :
        /\ e[1] = Suite(sheet)
        /\ e[2] \in (IF mode = "blank" THEN IsMarked ELSE HasCase)
        /\ \E n \in 1..Len(sheet.rows) : sheet.rows[n] = e[2]}

LEMMA TaggedIn ==
    ASSUME NEW A, NEW rows \in Seq(A), NEW suite
    PROVE  /\ Tagged(suite, rows) \in Seq({suite} \X A)
           /\ Len(Tagged(suite, rows)) = Len(rows)
           /\ \A i \in 1..Len(rows) : Tagged(suite, rows)[i] = <<suite, rows[i]>>
<1>1. Len(rows) \in Nat /\ DOMAIN rows = 1..Len(rows) /\ \A i \in 1..Len(rows) : rows[i] \in A
  OBVIOUS
<1>2. Tagged(suite, rows) = [i \in 1..Len(rows) |-> <<suite, rows[i]>>]
  BY <1>1 DEF Tagged
<1>3. \A i \in 1..Len(rows) : <<suite, rows[i]>> \in {suite} \X A
  BY <1>1
<1>4. [i \in 1..Len(rows) |-> <<suite, rows[i]>>] \in [1..Len(rows) -> {suite} \X A]
  BY <1>3
<1>5. Tagged(suite, rows) \in [1..Len(rows) -> {suite} \X A]
  BY <1>2, <1>4
<1>6. Tagged(suite, rows) \in Seq({suite} \X A)
  BY <1>1, <1>5, SeqDef
<1>7. DOMAIN Tagged(suite, rows) = 1..Len(rows)
  BY <1>2
<1>8. Len(Tagged(suite, rows)) = Len(rows)
  BY <1>1, <1>6, <1>7, LenProperties
<1> QED BY <1>2, <1>6, <1>8

LEMMA UptoIn ==
    ASSUME NEW rows \in Seq(Row), limit \in Nat
    PROVE  /\ Upto(rows) \in Seq({r \in Row : \E n \in 1..Len(rows) : rows[n] = r})
           /\ limit = 0 => Upto(rows) = rows
<1> DEFINE m == IF limit = 0 \/ limit > Len(rows) THEN Len(rows) ELSE limit
           A == {r \in Row : \E n \in 1..Len(rows) : rows[n] = r}
<1>1. Len(rows) \in Nat /\ \A n \in 1..Len(rows) : rows[n] \in Row
  OBVIOUS
<1>2. m \in 0..Len(rows)
  BY <1>1
<1>3. \A i \in 1..m : rows[i] \in A
  BY <1>1, <1>2
<1>4. Upto(rows) = SubSeq(rows, 1, m)
  BY DEF Upto
<1>5. limit = 0 => m = Len(rows)
  OBVIOUS
<1> HIDE DEF m, A
<1>6. SubSeq(rows, 1, m) \in Seq(A)
  <2>1. 1 \in Int /\ m \in Int
    BY <1>1, <1>2
  <2> QED BY <1>3, <2>1, SubSeqProperties
<1>7. SubSeq(rows, 1, Len(rows)) = rows
  BY SubSeqFull
<1> QED BY <1>4, <1>5, <1>6, <1>7 DEF A

LEMMA QueueOfIn ==
    ASSUME NEW sheet \in Sheets, mode \in Modes, limit \in Nat
    PROVE  QueueOf(sheet) \in Seq(Queued(sheet))
<1> DEFINE rows == sheet.rows
           A == {r \in Row : \E n \in 1..Len(rows) : rows[n] = r}
           S == IF mode = "blank" THEN IsMarked ELSE HasCase
           from == IF mode = "normal" THEN Upto(rows) ELSE rows
           K == {e \in A \cap S : \E j \in 1..Len(from) : from[j] = e}
<1>1. sheet.name \in SuiteNames /\ rows \in Seq(Row)
  BY DEF Sheets
<1>2. Suite(sheet) \in SuiteNames
  BY <1>1 DEF Suite, SuiteNames
<1>3. rows \in Seq(A)
  <2>1. Len(rows) \in Nat /\ rows \in [1..Len(rows) -> Row]
    BY <1>1, LenProperties
  <2>2. rows \in [1..Len(rows) -> A]
    BY <2>1
  <2> QED BY <2>1, <2>2, SeqDef
<1>4. from \in Seq(A)
  BY <1>1, <1>3, UptoIn
<1>5. QueueOf(sheet) = Tagged(Suite(sheet), Kept(from, S))
  BY DEF QueueOf, Suite, Modes
<1>6. Kept(from, S) \in Seq(K)
  <2> HIDE DEF from, S, A
  <2> QED BY <1>4, KeptIn
<1>7. QueueOf(sheet) \in Seq({Suite(sheet)} \X K)
  <2> HIDE DEF from, S, K
  <2> QED BY <1>5, <1>6, TaggedIn
<1>8. {Suite(sheet)} \X K \subseteq Queued(sheet)
  BY <1>2 DEF Queued
<1> QED
  <2> HIDE DEF K
  <2> QED BY <1>7, <1>8, SeqMonotonic

QueueUpTo(sheets, f) ==
    f = [i \in 0..Len(sheets) |-> IF i = 0 THEN <<>> ELSE f[i - 1] \o QueueOf(sheets[i])]

LEMMA QueueFunction ==
    ASSUME NEW sheets, Len(sheets) \in Nat
    PROVE  \E f : QueueUpTo(sheets, f) /\ Queue(sheets) = f[Len(sheets)]
<1> DEFINE Turns(n, f) == f = [i \in 0..n |-> IF i = 0 THEN <<>> ELSE f[i - 1] \o QueueOf(sheets[i])]
           G == {n \in Nat : \E f : Turns(n, f)}
<1>1. 0 \in G
  <2> DEFINE f == [i \in 0..0 |-> <<>>]
  <2>1. Turns(0, f)
    OBVIOUS
  <2> QED BY <2>1
<1>2. ASSUME NEW n \in 0..(Len(sheets) - 1), n \in G PROVE n + 1 \in G
  <2>1. PICK f : Turns(n, f)
    BY <1>2
  <2> DEFINE g == [i \in 0..(n + 1) |-> IF i = n + 1 THEN f[n] \o QueueOf(sheets[n + 1]) ELSE f[i]]
             h == [i \in 0..(n + 1) |-> IF i = 0 THEN <<>> ELSE g[i - 1] \o QueueOf(sheets[i])]
  <2>2. ASSUME NEW i \in 0..(n + 1) PROVE g[i] = h[i]
    <3>1. CASE i = n + 1
      <4>1. g[i - 1] = f[n] /\ i - 1 = n /\ i # 0
        BY <3>1
      <4> QED BY <3>1, <4>1
    <3>2. CASE i # n + 1
      <4>1. i \in 0..n /\ g[i] = f[i]
        BY <3>2
      <4>2. f[i] = IF i = 0 THEN <<>> ELSE f[i - 1] \o QueueOf(sheets[i])
        BY <2>1, <4>1
      <4>3. i # 0 => g[i - 1] = f[i - 1]
        BY <3>2
      <4> QED BY <4>1, <4>2, <4>3
    <3> QED BY <3>1, <3>2
  <2>3. g = h
    <3> HIDE DEF Turns
    <3> QED BY <2>2
  <2>4. Turns(n + 1, g)
    BY <2>3
  <2>5. \E u : Turns(n + 1, u)
    <3> HIDE DEF g, Turns
    <3> QED BY <2>4
  <2> HIDE DEF Turns
  <2> QED BY <2>5
<1>3. Len(sheets) \in G
  <2> HIDE DEF G
  <2>1. \A i \in 0..(Len(sheets) - 1) : i \in G => i + 1 \in G
    BY <1>2
  <2>2. \A m \in 0..Len(sheets) : m \in G
    BY <1>1, <2>1, Counting
  <2> QED BY <2>2
<1>4. \E f : QueueUpTo(sheets, f)
  BY <1>3 DEF QueueUpTo
<1> DEFINE f == CHOOSE u : QueueUpTo(sheets, u)
<1>5. QueueUpTo(sheets, f)
  BY <1>4
<1>6. Queue(sheets) = f[Len(sheets)]
  BY DEF Queue, QueueUpTo
<1> QED BY <1>5, <1>6

QueuedIn(sheets) == {e \in SuiteNames \X Row : \E i \in 1..Len(sheets) : e \in Queued(sheets[i])}

QueueBy(sheets, f) ==
    /\ f[0] = <<>>
    /\ \A i \in 0..(Len(sheets) - 1) : f[i + 1] = f[i] \o QueueOf(sheets[i + 1])
    /\ \A i \in 0..Len(sheets) : f[i] \in Seq(QueuedIn(sheets))
    /\ Queue(sheets) = f[Len(sheets)]

LEMMA QueueSteps ==
    ASSUME NEW sheets \in Seq(Sheets), mode \in Modes, limit \in Nat
    PROVE  \E f : QueueBy(sheets, f)
<1>1. Len(sheets) \in Nat /\ \A i \in 1..Len(sheets) : sheets[i] \in Sheets
  OBVIOUS
<1>2. PICK f : QueueUpTo(sheets, f) /\ Queue(sheets) = f[Len(sheets)]
  BY <1>1, QueueFunction
<1>3. f[0] = <<>>
  BY <1>1, <1>2 DEF QueueUpTo
<1>4. ASSUME NEW i \in 0..(Len(sheets) - 1)
      PROVE  f[i + 1] = f[i] \o QueueOf(sheets[i + 1])
  <2>1. i + 1 \in 0..Len(sheets) /\ i + 1 # 0 /\ (i + 1) - 1 = i
    BY <1>1
  <2> QED BY <1>2, <2>1 DEF QueueUpTo
<1> DEFINE E == QueuedIn(sheets)
           G == {i \in 0..Len(sheets) : f[i] \in Seq(E)}
<1>5. 0 \in G
  <2> HIDE DEF E
  <2>1. <<>> \in Seq(E)
    BY EmptySeq
  <2>2. f[0] \in Seq(E)
    BY <1>3, <2>1, Zenon
  <2>3. 0 \in 0..Len(sheets)
    BY <1>1
  <2> QED BY <2>2, <2>3
<1>6. ASSUME NEW i \in 0..(Len(sheets) - 1), i \in G PROVE i + 1 \in G
  <2>1. f[i] \in Seq(E) /\ i + 1 \in 0..Len(sheets) /\ i + 1 \in 1..Len(sheets) /\ sheets[i + 1] \in Sheets
    BY <1>1, <1>6
  <2>2. QueueOf(sheets[i + 1]) \in Seq(Queued(sheets[i + 1]))
    BY <2>1, QueueOfIn
  <2>3. Queued(sheets[i + 1]) \subseteq E
    BY <2>1 DEF QueuedIn, Queued
  <2> HIDE DEF E
  <2>4. QueueOf(sheets[i + 1]) \in Seq(E)
    BY <2>2, <2>3, SeqMonotonic
  <2>5. f[i] \o QueueOf(sheets[i + 1]) \in Seq(E)
    BY <2>1, <2>4, ConcatProperties
  <2> QED BY <1>4, <2>1, <2>5
<1>7. \A i \in 0..Len(sheets) : i \in G
  <2> HIDE DEF G
  <2> QED BY <1>1, <1>5, <1>6, Counting
<1>8. QueueBy(sheets, f)
  BY <1>2, <1>3, <1>4, <1>7 DEF QueueBy
<1> QED BY <1>8

LEMMA QueueIn ==
    ASSUME NEW sheets \in Seq(Sheets), mode \in Modes, limit \in Nat
    PROVE  Queue(sheets) \in Seq(QueuedIn(sheets))
<1>1. Len(sheets) \in 0..Len(sheets)
  OBVIOUS
<1> QED BY <1>1, QueueSteps DEF QueueBy

-----------------------------------------------------------------------------
(* The inductive invariant.  PrefixOnly and ResultsSaved speak of the names *)
(* a workbook queues; what onFinish keeps is the sheets themselves: which   *)
(* keys of the map have one (ShownKeys), and the rows in each (RowsOf).  It *)
(* holds of a workbook from its creation on (Created); of what an earlier   *)
(* run or a kill has left, only that the cases in it are blamed.            *)

FailedBookType ==
    /\ mode \in Modes /\ limit \in Nat /\ runs \in Nat
    /\ todo \in Seq(SuiteNames \X Row)
    /\ DOMAIN maps = Books
    /\ \A b \in Books : DOMAIN maps[b] \subseteq SuiteNames /\ \A s \in DOMAIN maps[b] : maps[b][s] \in Seq(blamed)
    /\ file \in [Books -> Seq(Sheets)]
    /\ pc \in PCs \ {"thrown"} /\ book \in Books
    /\ blamed \subseteq Cases

(* A queued row has a test case, and in a later run one that was blamed *)
RowIsCase(e) ==
    /\ e[1] # Default
    /\ mode # "normal" => e[1] = mode
    /\ HasArguments(e[2]) => CaseOf(e[2]) \in Cases
    /\ runs > 1 => e[2][2] \in blamed /\ mode # "blank"

TodoIsCases == \A i \in 1..Len(todo) : RowIsCase(todo[i])

MapsOfSuites ==
    \A b \in Books : Default \notin DOMAIN maps[b] /\ (mode # "normal" => DOMAIN maps[b] \subseteq {mode})

(* Whatever is left of a workbook queues only what was blamed *)
SheetIsBlamed(sheet) ==
    /\ sheet.name = Default => sheet.rows = <<>>
    /\ \A n \in 1..Len(sheet.rows) : sheet.rows[n] \in HasCase => sheet.rows[n][2] \in blamed

FilesAreBlamed == \A b \in Books : \A i \in 1..Len(file[b]) : SheetIsBlamed(file[b][i])

Filling == pc \in {"sheets", "entries", "names"}

\* its turn in this loop of onFinish is over
Past(b) == b = "failed" /\ book = "skipped"

InHand(b) == pc \in {"entries", "names"} /\ book = b

Gone(b) == (pc = "deleting" /\ Past(b)) \/ (pc = "creating" /\ ~Past(b))

Created(b) == Filling \/ pc \in {"dropping", "done"} \/ (pc = "creating" /\ Past(b))

\* the keys whose sheets are complete
Complete(b) ==
    IF pc \in {"dropping", "done"} \/ (Filling /\ Past(b)) THEN DOMAIN maps[b]
    ELSE IF Filling /\ book = b THEN DOMAIN maps[b] \ left ELSE {}

HasDefault(b) == DOMAIN maps[b] = {} \/ ~(pc = "done" \/ (pc = "dropping" /\ Past(b)))

ShownKeys(b) ==
    Complete(b) \cup {k \in {key} : InHand(b)} \cup {k \in {Default} : HasDefault(b)}

Line(c) == <<Path, c, Null>>

Lines(list, n) == [i \in 1..n |-> Line(list[i])]

RowsOf(b, k) ==
    IF k = Default THEN <<>>
    ELSE IF ~(InHand(b) /\ k = key) THEN Lines(maps[b][k], Len(maps[b][k]))
    ELSE IF pc = "entries" THEN Lines(maps[b][k], entry - 1)
    ELSE Append(Lines(maps[b][k], entry - 1), Line(Null))

SheetsAre(b) ==
    /\ \A i, j \in 1..Len(file[b]) : file[b][i].name = file[b][j].name => i = j
    /\ {file[b][i].name : i \in 1..Len(file[b])} = ShownKeys(b)
    /\ HasDefault(b) => file[b] # <<>> /\ file[b][1].name = Default
    /\ \A i \in 1..Len(file[b]) : file[b][i].rows = RowsOf(b, file[b][i].name)

BookIs(b) ==
    /\ Gone(b) => file[b] = NoFile
    /\ Created(b) => SheetsAre(b)

KeyIs ==
    /\ pc = "testing" => book = "failed"
    /\ Filling => left \subseteq DOMAIN maps[book]
    /\ pc \in {"entries", "names"} =>
          /\ key \in left
          /\ entry \in 1..(Len(maps[book][key]) + 1)
          /\ pc = "names" => entry <= Len(maps[book][key])

BooksAre == \A b \in Books : BookIs(b)

BooksInv == FailedBookType /\ TodoIsCases /\ MapsOfSuites /\ FilesAreBlamed /\ KeyIs /\ BooksAre

(* No suite has the name of the sheet that createExcel puts into a workbook: *)
(* with one, POI refuses the second Sheet1 and onFinish ends there          *)
SheetOneIsFree == \A s \in Sources : \A i \in DOMAIN s.sheets : s.sheets[i].name # Default

LEMMA BooksInit ==
    ASSUME SheetOneIsFree, Init
    PROVE  BooksInv
<1>1. PICK s \in Sources : mode = s.mode /\ source = s.sheets
  BY DEF Init
<1>2. /\ s \in [mode : Modes, sheets : Seq([name : Titles, rows : Seq(Row)])]
      /\ Limits \subseteq Nat /\ Default \notin Modes
      /\ \A i \in DOMAIN s.sheets : \A n \in DOMAIN s.sheets[i].rows : NamesItsCase(s.mode, s.sheets[i].rows[n])
  BY FailedBookAssumption
<1>3. mode \in Modes /\ limit \in Nat /\ runs = 1
  BY <1>1, <1>2 DEF Init
<1>4. source \in Seq(Sheets)
  <2>1. [name : Titles, rows : Seq(Row)] \subseteq Sheets
    BY DEF Sheets, SuiteNames
  <2>2. source \in Seq([name : Titles, rows : Seq(Row)])
    BY <1>1, <1>2
  <2> QED BY <2>1, <2>2, SeqMonotonic
<1>5. todo \in Seq(QueuedIn(source))
  BY <1>3, <1>4, QueueIn DEF Init
<1>6. ASSUME NEW e \in QueuedIn(source) PROVE RowIsCase(e)
  <2>1. PICK i \in 1..Len(source) : e \in Queued(source[i])
    BY <1>6 DEF QueuedIn
  <2>2. source[i] \in Sheets /\ i \in DOMAIN s.sheets /\ source[i].rows \in Seq(Row)
    <3>1. source[i] \in Sheets /\ DOMAIN source = 1..Len(source)
      BY <1>4, <2>1
    <3>2. source[i].rows \in Seq(Row)
      BY <3>1 DEF Sheets
    <3> QED BY <1>1, <2>1, <3>1, <3>2
  <2>3. PICK n \in 1..Len(source[i].rows) : source[i].rows[n] = e[2]
    BY <2>1 DEF Queued
  <2>4. NamesItsCase(mode, e[2])
    <3>1. n \in DOMAIN source[i].rows
      BY <2>2, <2>3
    <3> QED BY <1>1, <1>2, <2>2, <2>3, <3>1
  <2>5. e[1] = Suite(source[i]) /\ e[2] \in (IF mode = "blank" THEN IsMarked ELSE HasCase)
    BY <2>1 DEF Queued
  <2>6. e[1] # Default /\ (mode # "normal" => e[1] = mode)
    BY <1>1, <1>2, <1>3, <2>2, <2>5 DEF Suite, SheetOneIsFree
  <2>7. HasArguments(e[2]) => CaseOf(e[2]) \in Cases
    BY <2>4, <2>5 DEF NamesItsCase, CaseOf, IsMarked, HasCase
  <2> QED BY <1>3, <2>6, <2>7 DEF RowIsCase
<1>7. TodoIsCases
  <2>1. \A i \in 1..Len(todo) : todo[i] \in QueuedIn(source)
    BY <1>5
  <2> QED BY <1>6, <2>1 DEF TodoIsCases
<1>8. todo \in Seq(SuiteNames \X Row)
  <2>1. QueuedIn(source) \subseteq SuiteNames \X Row
    BY DEF QueuedIn
  <2> QED BY <1>5, <2>1, SeqMonotonic
<1>9. \A b \in Books : DOMAIN maps[b] = {} /\ file[b] = <<>>
  BY DEF Init, NoFile
<1>10. FailedBookType
  <2>1. DOMAIN maps = Books /\ blamed = {} /\ pc = "testing" /\ book = "failed"
    BY DEF Init
  <2>2. <<>> \in Seq(Sheets)
    BY EmptySeq
  <2>3. file \in [Books -> Seq(Sheets)]
    BY <2>2 DEF Init, NoFile
  <2>4. "testing" \in PCs \ {"thrown"} /\ "failed" \in Books
    BY DEF PCs, Books
  <2> QED BY <1>3, <1>8, <1>9, <2>1, <2>3, <2>4 DEF FailedBookType
<1>11. MapsOfSuites /\ FilesAreBlamed
  <2>1. Len(<<>>) = 0 /\ \A i \in 1..0 : FALSE
    OBVIOUS
  <2> QED BY <1>9, <2>1 DEF MapsOfSuites, FilesAreBlamed
<1>12. KeyIs /\ BooksAre
  <2>1. pc = "testing" /\ book = "failed"
    BY DEF Init
  <2> QED BY <2>1 DEF KeyIs, BooksAre, BookIs, Gone, Created, Filling
<1> QED BY <1>7, <1>10, <1>11, <1>12 DEF BooksInv

(* A row is recorded *)
LEMMA RecordedMaps ==
    ASSUME NEW D, NEW B, NEW suite \in SuiteNames, suite # Default, mode # "normal" => suite = mode,
           NEW list \in Seq(B), blamed \subseteq B,
           DOMAIN D \subseteq SuiteNames, \A s \in DOMAIN D : D[s] \in Seq(blamed),
           Default \notin DOMAIN D, mode # "normal" => DOMAIN D \subseteq {mode}
    PROVE  /\ DOMAIN Added(D, suite, list) \subseteq SuiteNames
           /\ \A s \in DOMAIN Added(D, suite, list) : Added(D, suite, list)[s] \in Seq(B)
           /\ Default \notin DOMAIN Added(D, suite, list)
           /\ mode # "normal" => DOMAIN Added(D, suite, list) \subseteq {mode}
<1>1. DOMAIN Added(D, suite, list) = DOMAIN D \cup {suite}
  BY DEF Added
<1>2. \A s \in DOMAIN D : D[s] \in Seq(B)
  BY SeqMonotonic
<1>3. ASSUME NEW s \in DOMAIN D \cup {suite} PROVE Added(D, suite, list)[s] \in Seq(B)
  <2>1. Added(D, suite, list)[s] = IF s # suite THEN D[s] ELSE IF s \in DOMAIN D THEN D[s] \o list ELSE list
    BY DEF Added
  <2>2. s \in DOMAIN D => D[s] \o list \in Seq(B)
    BY <1>2, ConcatProperties
  <2> QED BY <1>2, <2>1, <2>2
<1> QED BY <1>1, <1>3

LEMMA BooksRunRow ==
    ASSUME BooksInv, RunRow
    PROVE  BooksInv'
<1> DEFINE suite == todo[1][1]
           c == CaseOf(todo[1][2])
<1>1. FailedBookType /\ TodoIsCases /\ MapsOfSuites /\ FilesAreBlamed
  BY DEF BooksInv
<1>2. /\ pc = "testing" /\ pc' = pc /\ book' = book /\ file' = file
      /\ mode' = mode /\ limit' = limit /\ runs' = runs
      /\ todo # <<>>
  BY DEF RunRow
<1>3. /\ todo \in Seq(SuiteNames \X Row) /\ Len(todo) \in Nat \ {0}
      /\ Head(todo) = todo[1] /\ Tail(todo) \in Seq(SuiteNames \X Row)
      /\ \A i \in 1..Len(Tail(todo)) : i + 1 \in 1..Len(todo) /\ Tail(todo)[i] = todo[i + 1]
      /\ todo[1] \in SuiteNames \X Row
  BY <1>1, <1>2 DEF FailedBookType
<1>4. RowIsCase(todo[1])
  BY <1>1, <1>3 DEF TodoIsCases
<1>5. suite \in SuiteNames /\ suite # Default /\ (mode # "normal" => suite = mode)
  BY <1>3, <1>4 DEF RowIsCase
<1>6. todo' = <<>> \/ todo' = Tail(todo)
  BY DEF RunRow
<1>7. todo' \in Seq(SuiteNames \X Row) /\ \A i \in 1..Len(todo') : \E j \in 1..Len(todo) : todo'[i] = todo[j]
  <2>1. <<>> \in Seq(SuiteNames \X Row) /\ Len(<<>>) = 0 /\ \A i \in 1..0 : FALSE
    OBVIOUS
  <2>2. CASE todo' = <<>>
    BY <2>1, <2>2
  <2>3. CASE todo' = Tail(todo)
    BY <1>3, <2>3
  <2> QED BY <1>6, <2>2, <2>3
<1>8. /\ blamed \subseteq blamed' /\ blamed' \subseteq Cases
      /\ DOMAIN maps' = Books
      /\ \A b \in Books :
            /\ DOMAIN maps'[b] \subseteq SuiteNames /\ Default \notin DOMAIN maps'[b]
            /\ \A s \in DOMAIN maps'[b] : maps'[b][s] \in Seq(blamed')
            /\ mode # "normal" => DOMAIN maps'[b] \subseteq {mode}
  <2>1. CASE HasArguments(todo[1][2])
    <3>1. PICK status \in {"PASS", "FAIL", "SKIP"} :
             maps' = Recorded(suite, c, status) /\ blamed' = IF status = "PASS" THEN blamed ELSE blamed \cup {c}
      BY <1>3, <2>1 DEF RunRow
    <3>2. c \in Cases
      BY <1>4, <2>1 DEF RowIsCase
    <3>3. blamed \subseteq blamed' /\ blamed' \subseteq Cases /\ (status # "PASS" => c \in blamed')
      BY <1>1, <3>1, <3>2 DEF FailedBookType
    <3>4. \E b \in Books, list \in Seq(blamed') : maps' = [maps EXCEPT ![b] = Added(@, suite, list)]
      <4>1. <<>> \in Seq(blamed') /\ (status # "PASS" => <<c>> \in Seq(blamed'))
        BY <3>3
      <4>2. "failed" \in Books /\ "skipped" \in Books
        BY DEF Books
      <4> HIDE DEF suite, c
      <4>3. CASE status = "PASS"
        BY <3>1, <4>1, <4>2, <4>3 DEF Recorded
      <4>4. CASE status = "FAIL"
        BY <3>1, <4>1, <4>2, <4>4 DEF Recorded
      <4>5. CASE status = "SKIP"
        BY <3>1, <4>1, <4>2, <4>5 DEF Recorded
      <4> QED BY <4>3, <4>4, <4>5
    <3>5. PICK b \in Books, list \in Seq(blamed') : maps' = [maps EXCEPT ![b] = Added(@, suite, list)]
      BY <3>4
    <3> HIDE DEF suite, c
    <3>6. DOMAIN maps = Books
      BY <1>1 DEF FailedBookType
    <3>7. DOMAIN maps' = Books /\ maps'[b] = Added(maps[b], suite, list) /\ \A d \in Books \ {b} : maps'[d] = maps[d]
      BY <3>5, <3>6
    <3>8. \A d \in Books : /\ DOMAIN maps[d] \subseteq SuiteNames /\ \A s \in DOMAIN maps[d] : maps[d][s] \in Seq(blamed)
                           /\ Default \notin DOMAIN maps[d]
                           /\ mode # "normal" => DOMAIN maps[d] \subseteq {mode}
      BY <1>1 DEF FailedBookType, MapsOfSuites
    <3>9. \A d \in Books : \A s \in DOMAIN maps[d] : maps[d][s] \in Seq(blamed')
      BY <3>3, <3>8, SeqMonotonic
    <3>10. /\ DOMAIN maps'[b] \subseteq SuiteNames
           /\ \A s \in DOMAIN maps'[b] : maps'[b][s] \in Seq(blamed')
           /\ Default \notin DOMAIN maps'[b]
           /\ mode # "normal" => DOMAIN maps'[b] \subseteq {mode}
      BY <1>5, <3>3, <3>7, <3>8, RecordedMaps
    <3> QED BY <3>3, <3>7, <3>8, <3>9, <3>10
  <2>2. CASE ~HasArguments(todo[1][2])
    <3>1. maps' = maps /\ blamed' = blamed
      BY <1>3, <2>2 DEF RunRow
    <3> QED BY <1>1, <3>1 DEF FailedBookType, MapsOfSuites
  <2> QED BY <2>1, <2>2
<1>9. FailedBookType'
  BY <1>1, <1>2, <1>7, <1>8 DEF FailedBookType
<1>10. TodoIsCases'
  <2>1. \A j \in 1..Len(todo) : RowIsCase(todo[j])
    BY <1>1 DEF TodoIsCases
  <2>2. \A e : RowIsCase(e) => RowIsCase(e)'
    BY <1>2, <1>8 DEF RowIsCase, HasArguments, CaseOf
  <2> QED BY <1>7, <2>1, <2>2 DEF TodoIsCases, RowIsCase, HasArguments, CaseOf
<1>11. MapsOfSuites' /\ FilesAreBlamed'
  BY <1>1, <1>2, <1>8 DEF MapsOfSuites, FilesAreBlamed, SheetIsBlamed
<1>12. KeyIs' /\ BooksAre'
  BY <1>2 DEF BooksInv, KeyIs, BooksAre, BookIs, Gone, Created, Filling
<1> QED BY <1>9, <1>10, <1>11, <1>12 DEF BooksInv

-----------------------------------------------------------------------------
(* The steps of onFinish                                                   *)

(* What is in a workbook of this run has been blamed *)
CreatedAreBlamed ==
    FailedBookType /\ MapsOfSuites /\ KeyIs /\ BooksAre =>
        \A b \in Books : Created(b) => \A i \in 1..Len(file[b]) : SheetIsBlamed(file[b][i])

LEMMA LineIsRow ==
    /\ \A c \in Cases : Line(c) \in HasCase /\ Line(c)[2] = c
    /\ \A c \in Cases \cup {Null} : Line(c) \in Row
    /\ Line(Null) \notin HasCase
<1>1. Null \notin Cases /\ Null # Path
  BY FailedBookAssumption
<1>2. \A c \in Cases \cup {Null} : Line(c) \in Row /\ Line(c)[1] = Path /\ Line(c)[2] = c
  BY DEF Row, Cells, Line
<1> QED BY <1>1, <1>2 DEF HasCase

LEMMA LinesIn ==
    ASSUME NEW list \in Seq(Cases), NEW n \in 0..Len(list)
    PROVE  /\ Lines(list, n) \in Seq(Row) /\ Len(Lines(list, n)) = n
           /\ \A i \in 1..n : Lines(list, n)[i] = Line(list[i])
<1>1. Len(list) \in Nat /\ \A i \in 1..n : i \in 1..Len(list) /\ list[i] \in Cases
  OBVIOUS
<1>2. \A i \in 1..n : Line(list[i]) \in Row
  BY <1>1, LineIsRow
<1>3. Lines(list, n) \in [1..n -> Row]
  BY <1>2 DEF Lines
<1>4. Lines(list, n) \in Seq(Row)
  BY <1>1, <1>3, SeqDef
<1>5. Len(Lines(list, n)) = n
  BY <1>1, <1>3, <1>4, LenProperties
<1> QED BY <1>4, <1>5 DEF Lines

LEMMA CreatedBlamed == CreatedAreBlamed
<1> SUFFICES ASSUME FailedBookType, MapsOfSuites, KeyIs, BooksAre, NEW b \in Books, Created(b),
                    NEW i \in 1..Len(file[b])
             PROVE  SheetIsBlamed(file[b][i])
  BY DEF CreatedAreBlamed
<1> DEFINE k == file[b][i].name
           list == maps[b][k]
<1>1. SheetsAre(b)
  BY DEF BooksAre, BookIs
<1>2. k \in ShownKeys(b) /\ file[b][i].rows = RowsOf(b, k)
  BY <1>1 DEF SheetsAre
<1>3. CASE k = Default
  <2>1. file[b][i].rows = <<>> /\ Len(<<>>) = 0 /\ \A n \in 1..0 : FALSE
    BY <1>2, <1>3 DEF RowsOf
  <2> QED BY <2>1 DEF SheetIsBlamed
<1>4. CASE k # Default
  <2>1. k \in DOMAIN maps[b]
    BY <1>2, <1>4 DEF ShownKeys, Complete, InHand, KeyIs, Filling
  <2>2. list \in Seq(blamed) /\ blamed \subseteq Cases /\ Len(list) \in Nat
    BY <2>1 DEF FailedBookType
  <2>3. InHand(b) /\ k = key => entry \in 1..(Len(list) + 1)
    BY DEF InHand, KeyIs
  <2> HIDE DEF list, k
  <2>4. PICK n \in 0..Len(list) :
           file[b][i].rows = Lines(list, n) \/ file[b][i].rows = Append(Lines(list, n), Line(Null))
    <3>1. Len(list) \in 0..Len(list)
      BY <2>2
    <3>2. InHand(b) /\ k = key => entry - 1 \in 0..Len(list)
      BY <2>2, <2>3
    <3> QED BY <1>2, <1>4, <3>1, <3>2 DEF RowsOf, list, k
  <2> DEFINE rows == file[b][i].rows
             last == Line(Null)
  <2>5. /\ Lines(list, n) \in Seq(Row) /\ Len(Lines(list, n)) = n /\ n \in Nat
        /\ \A j \in 1..n : Lines(list, n)[j][2] \in blamed
        /\ last \in Row \ HasCase
    <3>1. list \in Seq(Cases) /\ \A j \in 1..n : list[j] \in blamed /\ list[j] \in Cases
      BY <2>2
    <3>2. /\ Lines(list, n) \in Seq(Row) /\ Len(Lines(list, n)) = n
          /\ \A j \in 1..n : Lines(list, n)[j] = Line(list[j])
      BY <3>1, LinesIn
    <3> QED BY <3>1, <3>2, LineIsRow
  <2> HIDE DEF last
  <2>6. ASSUME NEW j \in 1..Len(rows), rows[j] \in HasCase PROVE rows[j][2] \in blamed
    <3>1. CASE rows = Lines(list, n)
      BY <2>5, <2>6, <3>1
    <3>2. CASE rows = Append(Lines(list, n), last)
      <4>1. Len(rows) = n + 1 /\ rows[n + 1] = last /\ \A m \in 1..n : rows[m] = Lines(list, n)[m]
        BY <2>5, <3>2
      <4>2. j \in 1..n \/ j = n + 1
        BY <2>5, <4>1
      <4> QED BY <2>5, <2>6, <4>1, <4>2
    <3> QED BY <2>4, <3>1, <3>2 DEF last
  <2> QED BY <1>4, <2>6 DEF SheetIsBlamed, k
<1> QED BY <1>3, <1>4

(* A step that leaves the run and its maps alone *)
LEMMA BooksStep ==
    ASSUME BooksInv, UNCHANGED <<mode, limit, runs, blamed, todo, maps>>,
           file' \in [Books -> Seq(Sheets)], pc' \in PCs \ {"thrown"}, book' \in Books,
           KeyIs', BooksAre',
           \A b \in Books : Created(b)' \/ file'[b] = file[b] \/ file'[b] = NoFile
    PROVE  BooksInv'
<1>1. FailedBookType'
  BY DEF BooksInv, FailedBookType
<1>2. TodoIsCases' /\ MapsOfSuites'
  BY DEF BooksInv, TodoIsCases, MapsOfSuites, RowIsCase, HasArguments, CaseOf
<1>3. CreatedAreBlamed'
  BY CreatedBlamed, PTL
<1>4. ASSUME NEW b \in Books, NEW i \in 1..Len(file'[b]) PROVE SheetIsBlamed(file[b][i])'
  <2>1. CASE Created(b)'
    BY <1>1, <1>2, <1>3, <1>4, <2>1 DEF CreatedAreBlamed
  <2>2. CASE file'[b] = file[b]
    BY <1>4, <2>2 DEF BooksInv, FilesAreBlamed, SheetIsBlamed
  <2>3. CASE file'[b] = NoFile
    <3>1. Len(NoFile) = 0
      BY DEF NoFile
    <3> QED BY <1>4, <2>3, <3>1
  <2> QED BY <2>1, <2>2, <2>3
<1> QED BY <1>1, <1>2, <1>4 DEF BooksInv, FilesAreBlamed

LEMMA BooksStart ==
    ASSUME BooksInv, StartFinish
    PROVE  BooksInv'
<1>1. /\ pc = "testing" /\ pc' = "deleting" /\ book = "failed"
      /\ UNCHANGED <<todo, maps, file, book, mode, limit, runs, blamed>>
  BY DEF StartFinish, runVars, BooksInv, KeyIs
<1>2. file' \in [Books -> Seq(Sheets)] /\ pc' \in PCs \ {"thrown"} /\ book' \in Books
  BY <1>1 DEF BooksInv, FailedBookType, PCs
<1>3. KeyIs' /\ BooksAre'
  BY <1>1 DEF KeyIs, BooksAre, BookIs, Gone, Created, Filling, Past
<1> QED BY <1>1, <1>2, <1>3, BooksStep

LEMMA BooksDelete ==
    ASSUME BooksInv, DeleteOld
    PROVE  BooksInv'
<1>1. /\ pc = "deleting" /\ UNCHANGED <<todo, maps, mode, limit, runs, blamed>>
      /\ file' = [file EXCEPT ![book] = NoFile]
      /\ book = "failed" => book' = "skipped" /\ pc' = "deleting"
      /\ book # "failed" => book' = "failed" /\ pc' = "creating"
  BY DEF DeleteOld, NextBook, runVars
<1>2. file \in [Books -> Seq(Sheets)] /\ book \in Books /\ NoFile \in Seq(Sheets)
  BY DEF BooksInv, FailedBookType, NoFile
<1>3. file' \in [Books -> Seq(Sheets)] /\ pc' \in PCs \ {"thrown"} /\ book' \in Books
  BY <1>1, <1>2 DEF PCs, Books
<1>4. file'[book] = NoFile /\ \A b \in Books \ {book} : file'[b] = file[b]
  BY <1>1, <1>2
<1>5. BooksAre'
  <2>1. book = "skipped" => file["failed"] = NoFile
    BY <1>1 DEF BooksInv, BooksAre, BookIs, Gone, Past, Books
  <2> QED BY <1>1, <1>2, <1>4, <2>1 DEF BooksAre, BookIs, Gone, Created, Filling, Past, Books
<1>6. KeyIs'
  BY <1>1 DEF KeyIs, Filling
<1> QED BY <1>1, <1>3, <1>4, <1>5, <1>6, BooksStep

LEMMA BooksKill ==
    ASSUME BooksInv, Kill
    PROVE  BooksInv'
<1>1. /\ pc' = "killed" /\ UNCHANGED <<todo, maps, mode, limit, runs, blamed, book>>
      /\ file' = file \/ file' = [file EXCEPT ![book] = NoFile]
  BY DEF Kill, runVars
<1>2. file \in [Books -> Seq(Sheets)] /\ book \in Books /\ NoFile \in Seq(Sheets)
  BY DEF BooksInv, FailedBookType, NoFile
<1>3. /\ file' \in [Books -> Seq(Sheets)] /\ pc' \in PCs \ {"thrown"} /\ book' \in Books
      /\ \A b \in Books : file'[b] = file[b] \/ file'[b] = NoFile
  BY <1>1, <1>2 DEF PCs
<1>4. BooksAre' /\ KeyIs'
  BY <1>1 DEF BooksAre, BookIs, Gone, Created, Filling, KeyIs
<1> QED BY <1>1, <1>3, <1>4, BooksStep

(* A workbook that the step does not write *)
LEMMA SheetsStay ==
    ASSUME NEW b \in Books, SheetsAre(b), file'[b] = file[b], maps' = maps, ~InHand(b), ~InHand(b)',
           Complete(b)' = Complete(b), HasDefault(b)' <=> HasDefault(b)
    PROVE  SheetsAre(b)'
<1>1. ShownKeys(b)' = ShownKeys(b)
  BY DEF ShownKeys
<1>2. \A k : RowsOf(b, k)' = RowsOf(b, k)
  BY DEF RowsOf
<1> QED BY <1>1, <1>2 DEF SheetsAre

LEMMA BooksCreate ==
    ASSUME BooksInv, CreateBook
    PROVE  BooksInv'
<1>1. /\ pc = "creating" /\ UNCHANGED <<todo, maps, mode, limit, runs, blamed>>
      /\ left' = DOMAIN maps[book']
      /\ file' = [file EXCEPT ![book] = IF @ = NoFile THEN <<Sheet(Default)>> ELSE Append(Others(@), Sheet(Default))]
      /\ book = "failed" => book' = "skipped" /\ pc' = "creating"
      /\ book # "failed" => book' = "failed" /\ pc' = "sheets"
  BY DEF CreateBook, NextBook, runVars
<1>2. file \in [Books -> Seq(Sheets)] /\ book \in Books /\ DOMAIN maps = Books
  BY DEF BooksInv, FailedBookType
<1>3. file[book] = NoFile
  BY <1>1, <1>2 DEF BooksInv, BooksAre, BookIs, Gone, Past
<1>4. file'[book] = <<Sheet(Default)>> /\ \A b \in Books \ {book} : file'[b] = file[b]
  BY <1>1, <1>2, <1>3
<1>5. Sheet(Default) \in Sheets /\ Sheet(Default).name = Default /\ Sheet(Default).rows = <<>>
  <2>1. <<>> \in Seq(Row)
    BY EmptySeq
  <2>2. Default \in SuiteNames
    BY FailedBookAssumption DEF SuiteNames
  <2> QED BY <2>1, <2>2 DEF Sheet, Sheets
<1>6. /\ <<Sheet(Default)>> \in Seq(Sheets) /\ Len(<<Sheet(Default)>>) = 1
      /\ <<Sheet(Default)>>[1] = Sheet(Default) /\ <<Sheet(Default)>> # <<>>
  <2> HIDE DEF Sheet
  <2> QED BY <1>5
<1>7. file' \in [Books -> Seq(Sheets)]
  BY <1>1, <1>2, <1>3, <1>6
<1>8. pc' \in PCs \ {"thrown"} /\ book' \in Books
  BY <1>1 DEF PCs, Books
<1>9. ASSUME NEW b \in Books, b = book PROVE SheetsAre(b)'
  <2>1. /\ Len(file'[b]) = 1 /\ file'[b] # <<>>
        /\ file'[b][1].name = Default /\ file'[b][1].rows = <<>>
    BY <1>4, <1>5, <1>6, <1>9
  <2>2. ShownKeys(b)' = {Default}
    BY <1>1, <1>2, <1>9 DEF ShownKeys, Complete, HasDefault, InHand, Filling, Past, Books
  <2>3. RowsOf(b, Default)' = <<>>
    BY DEF RowsOf
  <2>4. 1..Len(file'[b]) = {1}
    BY <2>1
  <2>5. {file'[b][i].name : i \in 1..Len(file'[b])} = {Default}
    BY <2>1, <2>4
  <2> QED BY <2>1, <2>2, <2>3, <2>4, <2>5 DEF SheetsAre
<1>10. ASSUME NEW b \in Books, b # book, Created(b)' PROVE SheetsAre(b)'
  <2>1. b = "failed" /\ book = "skipped" /\ book' = "failed" /\ pc' = "sheets"
    BY <1>1, <1>2, <1>10 DEF Books, Created, Filling, Past
  <2>2. SheetsAre(b)
    BY <1>1, <2>1 DEF BooksInv, BooksAre, BookIs, Created, Past
  <2>3. ~InHand(b) /\ ~InHand(b)' /\ HasDefault(b) /\ HasDefault(b)'
    BY <1>1, <2>1 DEF InHand, HasDefault
  <2>4. Complete(b)' = Complete(b)
    BY <1>1, <2>1 DEF Complete, Filling, Past
  <2> QED BY <1>1, <1>4, <1>10, <2>2, <2>3, <2>4, SheetsStay
<1>11. BooksAre'
  <2>1. \A b \in Books : ~Gone(b)' \/ (b # book /\ Gone(b))
    BY <1>1, <1>2 DEF Gone, Past, Books
  <2>2. \A b \in Books : b # book /\ Gone(b) => file'[b] = NoFile
    BY <1>4 DEF BooksInv, BooksAre, BookIs
  <2>3. ASSUME NEW b \in Books PROVE BookIs(b)'
    <3>1. Gone(b)' => file'[b] = NoFile
      BY <2>1, <2>2
    <3>2. Created(b)' => SheetsAre(b)'
      BY <1>9, <1>10
    <3> QED BY <3>1, <3>2 DEF BookIs
  <2> QED BY <2>3 DEF BooksAre
<1>12. KeyIs'
  BY <1>1 DEF KeyIs, Filling
<1>13. \A b \in Books : Created(b)' \/ file'[b] = file[b]
  BY <1>1, <1>2, <1>4 DEF Created, Filling, Past, Books
<1> QED BY <1>1, <1>7, <1>8, <1>11, <1>12, <1>13, BooksStep

(* While the workbooks are filled, both are there *)
LEMMA BooksFilled ==
    ASSUME BooksInv, Filling \/ pc = "dropping"
    PROVE  /\ \A b \in Books : SheetsAre(b) /\ Created(b)
           /\ file \in [Books -> Seq(Sheets)] /\ book \in Books /\ DOMAIN maps = Books
           /\ \A b \in Books : DOMAIN maps[b] \subseteq SuiteNames \ {Default}
           /\ \A b \in Books : \A s \in DOMAIN maps[b] : maps[b][s] \in Seq(Cases) /\ Len(maps[b][s]) \in Nat
           /\ \A b \in Books : Len(file[b]) \in Nat /\ \A i \in 1..Len(file[b]) : file[b][i] \in Sheets
<1>1. \A b \in Books : SheetsAre(b) /\ Created(b)
  BY DEF BooksInv, BooksAre, BookIs, Created
<1>2. \A b \in Books : \A s \in DOMAIN maps[b] : maps[b][s] \in Seq(blamed) /\ blamed \subseteq Cases
  BY DEF BooksInv, FailedBookType
<1>3. \A b \in Books : \A s \in DOMAIN maps[b] : maps[b][s] \in Seq(Cases) /\ Len(maps[b][s]) \in Nat
  <2>1. \A A \in SUBSET Cases : \A a \in Seq(A) : a \in Seq(Cases) /\ Len(a) \in Nat
    OBVIOUS
  <2> QED BY <1>2, <2>1
<1>4. \A b \in Books : Len(file[b]) \in Nat /\ \A i \in 1..Len(file[b]) : file[b][i] \in Sheets
  BY DEF BooksInv, FailedBookType
<1> QED BY <1>1, <1>3, <1>4 DEF BooksInv, FailedBookType, MapsOfSuites

LEMMA BooksEndSheet ==
    ASSUME BooksInv, EndSheet
    PROVE  BooksInv'
<1>1. /\ pc = "entries" /\ pc' = "sheets" /\ left' = left \ {key}
      /\ entry > Len(maps[book][key])
      /\ UNCHANGED <<todo, maps, mode, limit, runs, blamed, file, book, key, entry>>
  BY DEF EndSheet, runVars
<1>2. Filling /\ Filling'
  BY <1>1 DEF Filling
<1>3. /\ \A b \in Books : SheetsAre(b)
      /\ book \in Books /\ file \in [Books -> Seq(Sheets)]
  BY <1>2, BooksFilled
<1>4. /\ left \subseteq DOMAIN maps[book] /\ key \in left
      /\ entry \in 1..(Len(maps[book][key]) + 1)
  BY <1>1, <1>2 DEF BooksInv, KeyIs
<1>5. SheetsAre(book)'
  <2>1. /\ Complete(book) = DOMAIN maps[book] \ left /\ Complete(book)' = DOMAIN maps[book] \ (left \ {key})
        /\ HasDefault(book) /\ HasDefault(book)' /\ InHand(book) /\ ~InHand(book)'
    BY <1>1, <1>2 DEF Complete, HasDefault, InHand, Past
  <2>2. ShownKeys(book)' = ShownKeys(book)
    BY <1>1, <1>4, <2>1 DEF ShownKeys
  <2>3. Len(maps[book][key]) \in Nat
    BY <1>2, <1>4, BooksFilled
  <2>4. entry - 1 = Len(maps[book][key])
    BY <1>1, <1>4, <2>3
  <2>5. \A k : RowsOf(book, k)' = RowsOf(book, k)
    BY <1>1, <2>1, <2>4 DEF RowsOf
  <2> QED BY <1>1, <1>3, <2>1, <2>2, <2>5 DEF SheetsAre
<1>6. ASSUME NEW b \in Books, b # book PROVE SheetsAre(b)'
  <2>1. ~InHand(b) /\ ~InHand(b)' /\ HasDefault(b) /\ HasDefault(b)'
    BY <1>1, <1>6 DEF InHand, HasDefault
  <2>2. Complete(b)' = Complete(b)
    BY <1>1, <1>2, <1>6 DEF Complete, Past
  <2> QED BY <1>1, <1>3, <2>1, <2>2, SheetsStay
<1>7. BooksAre'
  BY <1>1, <1>5, <1>6 DEF BooksAre, BookIs, Gone
<1>8. KeyIs'
  BY <1>1, <1>2, <1>4 DEF KeyIs
<1>9. pc' \in PCs \ {"thrown"}
  BY <1>1 DEF PCs
<1> QED BY <1>1, <1>3, <1>7, <1>8, <1>9, BooksStep

LEMMA BooksEndBook ==
    ASSUME BooksInv, EndBook
    PROVE  BooksInv'
<1>1. /\ pc = "sheets" /\ left = {} /\ left' = DOMAIN maps[book']
      /\ book = "failed" => book' = "skipped" /\ pc' = "sheets"
      /\ book # "failed" => book' = "failed" /\ pc' = "dropping"
      /\ UNCHANGED <<todo, maps, mode, limit, runs, blamed, file, key, entry>>
  BY DEF EndBook, NextBook, runVars
<1>2. Filling
  BY <1>1 DEF Filling
<1>3. /\ \A b \in Books : SheetsAre(b)
      /\ book \in Books /\ file \in [Books -> Seq(Sheets)]
  BY <1>2, BooksFilled
<1>4. ASSUME NEW b \in Books PROVE SheetsAre(b)'
  <2>1. ~InHand(b) /\ ~InHand(b)' /\ HasDefault(b) /\ HasDefault(b)'
    BY <1>1 DEF InHand, HasDefault, Past
  <2>2. Complete(b)' = Complete(b)
    BY <1>1, <1>3 DEF Complete, Past, Filling, Books
  <2> QED BY <1>1, <1>3, <2>1, <2>2, SheetsStay
<1>5. BooksAre'
  BY <1>1, <1>4 DEF BooksAre, BookIs, Gone
<1>6. KeyIs'
  BY <1>1 DEF KeyIs
<1>7. pc' \in PCs \ {"thrown"} /\ book' \in Books
  BY <1>1 DEF PCs, Books
<1> QED BY <1>1, <1>3, <1>5, <1>6, <1>7, BooksStep

LEMMA BooksCreateSheet ==
    ASSUME BooksInv, CreateSheet
    PROVE  BooksInv'
<1>1. pc = "sheets" /\ UNCHANGED <<todo, maps, mode, limit, runs, blamed, book, left>> /\ entry' = 1 /\ Filling
  BY DEF CreateSheet, runVars, Filling
<1>2. PICK k \in left :
         /\ key' = k
         /\ IF \E i \in DOMAIN file[book] : file[book][i].name = k
            THEN pc' = "thrown" /\ UNCHANGED file
            ELSE pc' = "entries" /\ file' = [file EXCEPT ![book] = Append(@, Sheet(k))]
  BY DEF CreateSheet
<1>3. /\ \A b \in Books : SheetsAre(b)
      /\ book \in Books /\ file \in [Books -> Seq(Sheets)]
      /\ DOMAIN maps[book] \subseteq SuiteNames \ {Default}
      /\ Len(file[book]) \in Nat /\ file[book] \in Seq(Sheets)
  BY <1>1, BooksFilled
<1>4. left \subseteq DOMAIN maps[book] /\ k \in DOMAIN maps[book] /\ k \in SuiteNames /\ k # Default
  BY <1>1, <1>2, <1>3 DEF BooksInv, KeyIs
<1>5. ~InHand(book) /\ Complete(book) = DOMAIN maps[book] \ left /\ HasDefault(book)
  BY <1>1 DEF InHand, Complete, HasDefault, Past
<1>6. k \notin ShownKeys(book)
  BY <1>4, <1>5 DEF ShownKeys
<1>7. \A i \in 1..Len(file[book]) : file[book][i].name # k
  BY <1>3, <1>6 DEF SheetsAre
<1>8. pc' = "entries" /\ file' = [file EXCEPT ![book] = Append(@, Sheet(k))]
  <2>1. DOMAIN file[book] = 1..Len(file[book])
    BY <1>3
  <2> QED BY <1>2, <1>7, <2>1
<1> DEFINE n == Len(file[book])
<1>9. Sheet(k) \in Sheets /\ Sheet(k).name = k /\ Sheet(k).rows = <<>>
  <2>1. <<>> \in Seq(Row)
    BY EmptySeq
  <2> QED BY <1>4, <2>1 DEF Sheet, Sheets
<1>10. /\ file'[book] \in Seq(Sheets) /\ Len(file'[book]) = n + 1 /\ file'[book] # <<>>
       /\ file'[book][n + 1] = Sheet(k)
       /\ \A i \in 1..n : file'[book][i] = file[book][i]
       /\ \A b \in Books \ {book} : file'[b] = file[b]
       /\ \A i \in 1..(n + 1) : i \in 1..n \/ i = n + 1
  <2>1. file'[book] = Append(file[book], Sheet(k)) /\ \A b \in Books \ {book} : file'[b] = file[b]
    BY <1>3, <1>8
  <2>2. /\ file'[book] \in Seq(Sheets) /\ Len(file'[book]) = Len(file[book]) + 1
        /\ file'[book][Len(file[book]) + 1] = Sheet(k)
        /\ \A i \in 1..Len(file[book]) : file'[book][i] = file[book][i]
    BY <1>3, <1>9, <2>1, AppendProperties
  <2>3. file'[book] # <<>> /\ \A i \in 1..(n + 1) : i \in 1..n \/ i = n + 1
    BY <1>3, <2>2
  <2> QED BY <2>1, <2>2, <2>3
<1>11. file' \in [Books -> Seq(Sheets)]
  BY <1>3, <1>8, <1>10
<1>12. /\ ShownKeys(book)' = ShownKeys(book) \cup {k}
       /\ InHand(book)' /\ HasDefault(book)' /\ Filling'
  <2>1. Complete(book)' = Complete(book) /\ InHand(book)' /\ HasDefault(book)' /\ Filling'
    BY <1>1, <1>5, <1>8 DEF Complete, InHand, HasDefault, Filling, Past
  <2> QED BY <1>2, <1>5, <2>1 DEF ShownKeys
<1>13. RowsOf(book, k)' = <<>>
  <2>1. \A list : Lines(list, 0) = <<>>
    BY DEF Lines
  <2>2. entry' - 1 = 0
    BY <1>1
  <2> QED BY <1>2, <1>4, <1>8, <1>12, <2>1, <2>2 DEF RowsOf
<1>14. \A s \in ShownKeys(book) : RowsOf(book, s)' = RowsOf(book, s)
  BY <1>1, <1>2, <1>5, <1>6 DEF RowsOf
<1>15. SheetsAre(book)'
  <2>1. \A i \in 1..n : file[book][i].name \in ShownKeys(book) /\ file[book][i].rows = RowsOf(book, file[book][i].name)
    BY <1>3 DEF SheetsAre
  <2>2. \A i, j \in 1..n : file[book][i].name = file[book][j].name => i = j
    BY <1>3 DEF SheetsAre
  <2>3. \A i, j \in 1..(n + 1) : file'[book][i].name = file'[book][j].name => i = j
    <3>1. ASSUME NEW i \in 1..(n + 1), NEW j \in 1..(n + 1), file'[book][i].name = file'[book][j].name
          PROVE  i = j
      <4>1. i \in 1..n => file'[book][i].name = file[book][i].name /\ file[book][i].name # k
        BY <1>7, <1>10
      <4>2. j \in 1..n => file'[book][j].name = file[book][j].name /\ file[book][j].name # k
        BY <1>7, <1>10
      <4>3. file'[book][n + 1].name = k
        BY <1>9, <1>10
      <4> QED BY <1>10, <2>2, <3>1, <4>1, <4>2, <4>3
    <3> QED BY <3>1
  <2>4. {file'[book][i].name : i \in 1..(n + 1)} = ShownKeys(book) \cup {k}
    <3>1. {file[book][i].name : i \in 1..n} = ShownKeys(book)
      BY <1>3 DEF SheetsAre
    <3>2. n + 1 \in 1..(n + 1) /\ 1..n \subseteq 1..(n + 1)
      BY <1>3
    <3> QED BY <1>9, <1>10, <3>1, <3>2
  <2>5. file'[book][1].name = Default
    <3>1. file[book] # <<>> /\ file[book][1].name = Default
      BY <1>3, <1>5 DEF SheetsAre
    <3>2. 1 \in 1..n
      BY <1>3, <3>1
    <3> QED BY <1>10, <3>1, <3>2
  <2>6. ASSUME NEW i \in 1..(n + 1), NEW s, s = file'[book][i].name PROVE file'[book][i].rows = RowsOf(book, s)'
    <3>1. CASE i \in 1..n
      BY <1>10, <1>14, <2>1, <2>6, <3>1
    <3>2. CASE i = n + 1
      BY <1>9, <1>10, <1>13, <2>6, <3>2
    <3> QED BY <1>10, <3>1, <3>2
  <2>7. book' = book /\ Len(file'[book]) = n + 1
    BY <1>1, <1>10
  <2> HIDE DEF n
  <2>8. \A i, j \in 1..Len(file'[book']) : file'[book'][i].name = file'[book'][j].name => i = j
    BY <2>3, <2>7
  <2>9. {file'[book'][i].name : i \in 1..Len(file'[book'])} = ShownKeys(book)'
    BY <1>12, <2>4, <2>7
  <2>10. HasDefault(book)' => file'[book'] # <<>> /\ file'[book'][1].name = Default
    BY <1>10, <2>5, <2>7
  <2>11. \A i \in 1..Len(file'[book']) : file'[book'][i].rows = RowsOf(book, file[book][i].name)'
    BY <2>6, <2>7
  <2> QED BY <2>8, <2>9, <2>10, <2>11 DEF SheetsAre
<1>16. ASSUME NEW b \in Books, b # book PROVE SheetsAre(b)'
  <2>1. ~InHand(b) /\ ~InHand(b)' /\ HasDefault(b) /\ HasDefault(b)'
    BY <1>1, <1>8, <1>16 DEF InHand, HasDefault
  <2>2. Complete(b)' = Complete(b)
    BY <1>1, <1>8, <1>12, <1>16 DEF Complete, Past
  <2> QED BY <1>1, <1>3, <1>10, <1>16, <2>1, <2>2, SheetsStay
<1>17. BooksAre'
  BY <1>1, <1>8, <1>15, <1>16 DEF BooksAre, BookIs, Gone
<1>18. KeyIs'
  <2>1. Len(maps[book][k]) \in Nat
    BY <1>1, <1>4, BooksFilled, <1>3
  <2> QED BY <1>1, <1>2, <1>4, <1>8, <2>1 DEF KeyIs
<1>19. pc' \in PCs \ {"thrown"} /\ \A b \in Books : Created(b)'
  BY <1>8, <1>12 DEF PCs, Created
<1> QED BY <1>1, <1>3, <1>11, <1>17, <1>18, <1>19, BooksStep

LEMMA Replaced ==
    ASSUME NEW S, NEW old \in Seq(S), NEW p \in 1..Len(old), NEW e \in S, NEW new, new = [old EXCEPT ![p] = e]
    PROVE  /\ new \in Seq(S) /\ Len(new) = Len(old) /\ new[p] = e
           /\ \A i \in 1..Len(old) : i # p => new[i] = old[i]
<1>1. Len(old) \in Nat /\ old \in [1..Len(old) -> S]
  BY LenProperties
<1>2. new \in [1..Len(old) -> S] /\ new[p] = e /\ \A i \in 1..Len(old) : i # p => new[i] = old[i]
  BY <1>1
<1>3. new \in Seq(S)
  BY <1>1, <1>2, SeqDef
<1>4. Len(new) = Len(old)
  BY <1>1, <1>2, <1>3, LenProperties
<1> QED BY <1>2, <1>3, <1>4

(* A cell of the sheet in hand is written *)
LEMMA PlaceIs ==
    ASSUME BooksInv, pc \in {"entries", "names"}
    PROVE  /\ Place(book) \in 1..Len(file[book]) /\ file[book][Place(book)].name = key
           /\ \A i \in 1..Len(file[book]) : file[book][i].name = key => i = Place(book)
           /\ file[book][Place(book)].rows = RowsOf(book, key)
           /\ key \in DOMAIN maps[book] /\ key # Default
<1>1. Filling /\ InHand(book)
  BY DEF Filling, InHand
<1>2. /\ SheetsAre(book) /\ Len(file[book]) \in Nat /\ file[book] \in Seq(Sheets)
      /\ DOMAIN maps[book] \subseteq SuiteNames \ {Default}
  BY <1>1, BooksFilled
<1>3. key \in ShownKeys(book)
  BY <1>1 DEF ShownKeys
<1>4. PICK i \in 1..Len(file[book]) : file[book][i].name = key
  BY <1>2, <1>3 DEF SheetsAre
<1>5. DOMAIN file[book] = 1..Len(file[book])
  BY <1>2
<1>6. Place(book) \in 1..Len(file[book]) /\ file[book][Place(book)].name = key
  BY <1>4, <1>5 DEF Place
<1>7. key \in DOMAIN maps[book]
  BY <1>1 DEF BooksInv, KeyIs
<1> QED BY <1>2, <1>6, <1>7 DEF SheetsAre

LEMMA BooksWrite ==
    ASSUME BooksInv, pc \in {"entries", "names"}, pc' \in {"entries", "names"},
           UNCHANGED <<todo, maps, mode, limit, runs, blamed, book, left, key>>,
           NEW rows \in Seq(Row), file' = [file EXCEPT ![book][Place(book)].rows = rows],
           RowsOf(book, key)' = rows, KeyIs'
    PROVE  BooksInv'
<1> DEFINE p == Place(book)
           sheet == file[book][p]
           n == Len(file[book])
<1>1. Filling /\ Filling' /\ InHand(book) /\ InHand(book)'
  BY DEF Filling, InHand
<1>2. /\ \A b \in Books : SheetsAre(b)
      /\ book \in Books /\ file \in [Books -> Seq(Sheets)] /\ n \in Nat
      /\ \A i \in 1..n : file[book][i] \in Sheets
  BY <1>1, BooksFilled
<1>3. /\ p \in 1..n /\ sheet.name = key
      /\ \A i \in 1..n : file[book][i].name = key => i = p
      /\ key # Default
  BY PlaceIs
<1>4. /\ file'[book] = [file[book] EXCEPT ![p] = [sheet EXCEPT !.rows = rows]]
      /\ \A b \in Books \ {book} : file'[b] = file[b]
  <2> HIDE DEF p
  <2> QED BY <1>2 DEF p
<1>5. sheet \in Sheets
  BY <1>2, <1>3
<1>6. /\ [sheet EXCEPT !.rows = rows] \in Sheets
      /\ [sheet EXCEPT !.rows = rows].name = key /\ [sheet EXCEPT !.rows = rows].rows = rows
  <2> HIDE DEF sheet
  <2> QED BY <1>3, <1>5 DEF Sheets
<1> DEFINE new == [sheet EXCEPT !.rows = rows]
<1> HIDE DEF new, p, sheet
<1>7. /\ file'[book] \in Seq(Sheets) /\ Len(file'[book]) = n
      /\ file'[book][p] = new /\ \A i \in 1..n : i # p => file'[book][i] = file[book][i]
  <2>1. file[book] \in Seq(Sheets) /\ file'[book] = [file[book] EXCEPT ![p] = new] /\ new \in Sheets
    BY <1>2, <1>4, <1>6 DEF new
  <2> DEFINE old == file[book]
             next == file'[book]
  <2>2. old \in Seq(Sheets) /\ p \in 1..Len(old) /\ new \in Sheets /\ next = [old EXCEPT ![p] = new]
    BY <1>3, <2>1
  <2> HIDE DEF old, next
  <2>3. /\ next \in Seq(Sheets) /\ Len(next) = Len(old) /\ next[p] = new
        /\ \A i \in 1..Len(old) : i # p => next[i] = old[i]
    BY <2>2, Replaced
  <2> QED BY <2>3 DEF old, next
<1>8. /\ \A i \in 1..n : file'[book][i].name = file[book][i].name
      /\ \A i \in 1..n : i # p => file'[book][i].rows = file[book][i].rows /\ file[book][i].name # key
      /\ file'[book][p].rows = rows /\ file'[book][p].name = key /\ file'[book] # <<>>
  <2>1. new.name = key /\ new.rows = rows
    BY <1>6 DEF new
  <2>2. sheet = file[book][p]
    BY DEF sheet
  <2>3. file'[book] # <<>>
    <3>1. Len(<<>>) = 0
      OBVIOUS
    <3> QED BY <1>2, <1>3, <1>7, <3>1
  <2> QED BY <1>3, <1>7, <2>1, <2>2, <2>3
<1>9. file' \in [Books -> Seq(Sheets)]
  <2>1. \A b \in Books : file'[b] \in Seq(Sheets)
    BY <1>2, <1>4, <1>7
  <2>2. file' = [b \in Books |-> file'[b]]
    BY <1>2
  <2> QED BY <2>1, <2>2
<1>10. Complete(book)' = Complete(book) /\ HasDefault(book) /\ HasDefault(book)'
  BY <1>1 DEF Complete, HasDefault, Filling, Past
<1>11. ShownKeys(book)' = ShownKeys(book)
  BY <1>1, <1>10 DEF ShownKeys
<1>12. \A s : s # key => RowsOf(book, s)' = RowsOf(book, s)
  BY DEF RowsOf
<1>13. SheetsAre(book)'
  <2>1. {file'[book][i].name : i \in 1..n} = ShownKeys(book)
    <3>1. {file[book][i].name : i \in 1..n} = ShownKeys(book)
      BY <1>2 DEF SheetsAre
    <3> QED BY <1>8, <3>1
  <2>2. \A i, j \in 1..n : file'[book][i].name = file'[book][j].name => i = j
    BY <1>2, <1>8 DEF SheetsAre
  <2>3. file'[book][1].name = Default
    <3>1. file[book] # <<>> /\ file[book][1].name = Default
      BY <1>2, <1>10 DEF SheetsAre
    <3>2. 1 \in 1..n
      BY <1>3
    <3> QED BY <1>8, <3>1, <3>2
  <2>4. ASSUME NEW i \in 1..n, NEW s, s = file'[book][i].name PROVE file'[book][i].rows = RowsOf(book, s)'
    <3>1. CASE i = p
      BY <1>8, <2>4, <3>1
    <3>2. CASE i # p
      <4>1. file[book][i].rows = RowsOf(book, s) /\ s # key
        BY <1>2, <1>8, <2>4, <3>2 DEF SheetsAre
      <4> QED BY <1>8, <1>12, <3>2, <4>1
    <3> QED BY <3>1, <3>2
  <2> HIDE DEF n
  <2> QED BY <1>7, <1>8, <1>11, <2>1, <2>2, <2>3, <2>4 DEF SheetsAre
<1>14. ASSUME NEW b \in Books, b # book PROVE SheetsAre(b)'
  <2>1. ~InHand(b) /\ ~InHand(b)' /\ HasDefault(b) /\ HasDefault(b)'
    BY <1>14 DEF InHand, HasDefault
  <2>2. Complete(b)' = Complete(b)
    BY <1>1, <1>14 DEF Complete, Past
  <2> QED BY <1>2, <1>4, <1>14, <2>1, <2>2, SheetsStay
<1>15. BooksAre'
  BY <1>13, <1>14 DEF BooksAre, BookIs, Gone
<1>16. pc' \in PCs \ {"thrown"} /\ \A b \in Books : Created(b)'
  BY <1>1 DEF PCs, Created
<1> QED BY <1>2, <1>9, <1>15, <1>16, BooksStep

LEMMA BooksWritePath ==
    ASSUME BooksInv, WritePath
    PROVE  BooksInv'
<1> DEFINE list == maps[book][key]
           rows == Append(Lines(list, entry - 1), Line(Null))
<1>1. /\ pc = "entries" /\ pc' = "names" /\ entry <= Len(list)
      /\ file' = [file EXCEPT ![book][Place(book)].rows = Append(@, Line(Null))]
      /\ UNCHANGED <<todo, maps, mode, limit, runs, blamed, book, left, key, entry>>
  BY DEF WritePath, runVars, writeVars, Line
<1>2. /\ key \in DOMAIN maps[book] /\ key # Default
      /\ file[book][Place(book)].rows = RowsOf(book, key)
      /\ Place(book) \in 1..Len(file[book])
  BY <1>1, PlaceIs
<1>3. list \in Seq(Cases) /\ Len(list) \in Nat /\ book \in Books /\ file \in [Books -> Seq(Sheets)]
  BY <1>1, <1>2, BooksFilled DEF Filling
<1>4. entry \in 1..(Len(list) + 1)
  BY <1>1 DEF BooksInv, KeyIs
<1>5. RowsOf(book, key) = Lines(list, entry - 1) /\ RowsOf(book, key)' = rows
  BY <1>1, <1>2 DEF RowsOf, InHand
<1> HIDE DEF list
<1>6. rows \in Seq(Row)
  <2>1. entry - 1 \in 0..Len(list)
    BY <1>3, <1>4
  <2>2. Lines(list, entry - 1) \in Seq(Row)
    BY <1>3, <2>1, LinesIn
  <2> QED BY <2>2, LineIsRow
<1>7. file' = [file EXCEPT ![book][Place(book)].rows = rows]
  BY <1>1, <1>2, <1>3, <1>5
<1>8. KeyIs'
  BY <1>1, <1>4 DEF BooksInv, KeyIs, Filling, list
<1> HIDE DEF rows
<1> QED BY <1>1, <1>5, <1>6, <1>7, <1>8, BooksWrite

LEMMA BooksWriteName ==
    ASSUME BooksInv, WriteName
    PROVE  BooksInv'
<1> DEFINE list == maps[book][key]
           half == Append(Lines(list, entry - 1), Line(Null))
           rows == Lines(list, entry)
<1>1. /\ pc = "names" /\ pc' = "entries" /\ entry' = entry + 1
      /\ file' = [file EXCEPT ![book][Place(book)].rows[entry][2] = list[entry]]
      /\ UNCHANGED <<todo, maps, mode, limit, runs, blamed, book, left, key>>
  BY DEF WriteName, runVars
<1>2. /\ key \in DOMAIN maps[book] /\ key # Default
      /\ file[book][Place(book)].rows = RowsOf(book, key)
      /\ Place(book) \in 1..Len(file[book])
  BY <1>1, PlaceIs
<1>3. list \in Seq(Cases) /\ Len(list) \in Nat /\ book \in Books /\ file \in [Books -> Seq(Sheets)]
  BY <1>1, <1>2, BooksFilled DEF Filling
<1>4. entry \in 1..Len(list)
  BY <1>1 DEF BooksInv, KeyIs
<1>5. (entry + 1) - 1 = entry
  BY <1>4
<1>6. RowsOf(book, key) = half /\ RowsOf(book, key)' = rows
  BY <1>1, <1>2, <1>5 DEF RowsOf, InHand
<1>7. KeyIs'
  BY <1>1, <1>3, <1>4 DEF BooksInv, KeyIs, Filling
<1> HIDE DEF list
<1>8. /\ Lines(list, entry - 1) \in Seq(Row) /\ Len(Lines(list, entry - 1)) = entry - 1
      /\ \A i \in 1..(entry - 1) : Lines(list, entry - 1)[i] = Line(list[i])
      /\ rows \in Seq(Row) /\ Len(rows) = entry /\ \A i \in 1..entry : rows[i] = Line(list[i])
      /\ Line(Null) \in Row
  <2>1. entry - 1 \in 0..Len(list) /\ entry \in 0..Len(list)
    BY <1>3, <1>4
  <2> QED BY <1>3, <2>1, LinesIn, LineIsRow
<1>9. [half EXCEPT ![entry][2] = list[entry]] = rows
  <2> DEFINE done == [half EXCEPT ![entry][2] = list[entry]]
  <2>1. /\ half \in Seq(Row) /\ Len(half) = entry /\ half[entry] = Line(Null)
        /\ \A i \in 1..(entry - 1) : half[i] = Line(list[i])
    BY <1>4, <1>8, AppendProperties
  <2>2. [Line(Null) EXCEPT ![2] = list[entry]] = Line(list[entry])
    BY DEF Line
  <2> HIDE DEF half, rows
  <2>3. done = [half EXCEPT ![entry] = Line(list[entry])]
    BY <2>1, <2>2
  <2>4. Line(list[entry]) \in Row
    BY <1>3, <1>4, LineIsRow
  <2>5. /\ done \in Seq(Row) /\ Len(done) = entry
        /\ done[entry] = Line(list[entry]) /\ \A i \in 1..entry : i # entry => done[i] = half[i]
    <3> HIDE DEF done
    <3> QED BY <1>4, <2>1, <2>3, <2>4, Replaced
  <2>6. \A i \in 1..entry : done[i] = Line(list[i])
    <3>1. \A i \in 1..entry : i \in 1..(entry - 1) \/ i = entry
      BY <1>4
    <3>2. done[entry] = Line(list[entry]) /\ \A i \in 1..(entry - 1) : done[i] = half[i]
      BY <1>4, <2>5
    <3> QED BY <2>1, <3>1, <3>2
  <2> HIDE DEF done
  <2>7. done = rows
    BY <1>8, <2>5, <2>6, SeqEqual
  <2> QED BY <2>7 DEF done
<1>10. file' = [file EXCEPT ![book][Place(book)].rows = rows]
  <2>1. file[book][Place(book)].rows = half
    BY <1>2, <1>6
  <2> HIDE DEF half, rows
  <2>2. file' = [file EXCEPT ![book][Place(book)].rows = [@ EXCEPT ![entry][2] = list[entry]]]
    BY <1>1
  <2> QED BY <1>2, <1>3, <1>9, <2>1, <2>2
<1> HIDE DEF rows
<1> QED BY <1>1, <1>6, <1>7, <1>8, <1>10, BooksWrite

LEMMA OthersAreTail ==
    ASSUME NEW sheets \in Seq(Sheets), sheets # <<>>, sheets[1].name = Default,
           \A i \in 1..Len(sheets) : i # 1 => sheets[i].name # Default
    PROVE  Others(sheets) = Tail(sheets)
<1> DEFINE S == {sheets[i] : i \in {j \in DOMAIN sheets : sheets[j].name # Default}}
           a == <<sheets[1]>>
           b == Tail(sheets)
<1>1. /\ Len(sheets) \in Nat \ {0} /\ DOMAIN sheets = 1..Len(sheets)
      /\ b \in Seq(Sheets) /\ Len(b) = Len(sheets) - 1
      /\ \A i \in 1..Len(b) : b[i] = sheets[i + 1] /\ i + 1 \in 1..Len(sheets) /\ i + 1 # 1
  OBVIOUS
<1>2. a \in Seq(Sheets) /\ Len(a) = 1 /\ a[1] = sheets[1]
  BY <1>1
<1>3. \A i \in 1..Len(a) : a[i] \notin S
  BY <1>2
<1>4. \A i \in 1..Len(b) : b[i] \in S
  BY <1>1
<1>5. a \o b = sheets
  <2> HIDE DEF a, b
  <2>1. /\ a \o b \in Seq(Sheets) /\ Len(a \o b) = Len(a) + Len(b)
        /\ \A i \in 1..(Len(a) + Len(b)) : (a \o b)[i] = IF i <= Len(a) THEN a[i] ELSE b[i - Len(a)]
    <3>1. a \in Seq(Sheets) /\ b \in Seq(Sheets)
      BY <1>1, <1>2
    <3> QED BY <3>1
  <2>2. \A i \in 1..Len(sheets) : (a \o b)[i] = sheets[i]
    <3>1. \A i \in 1..Len(sheets) : (a \o b)[i] = IF i <= Len(a) THEN a[i] ELSE b[i - Len(a)]
      BY <1>1, <1>2, <2>1
    <3>2. \A i \in 1..Len(sheets) : i = 1 \/ (i - 1 \in 1..Len(b) /\ (i - 1) + 1 = i /\ ~(i <= 1))
      BY <1>1
    <3>3. Len(a) = 1 /\ a[1] = sheets[1] /\ \A i \in 1..Len(b) : b[i] = sheets[i + 1]
      BY <1>1, <1>2
    <3>4. ASSUME NEW i \in 1..Len(sheets) PROVE (a \o b)[i] = sheets[i]
      <4>1. CASE i = 1
        <5>1. i <= Len(a) /\ a[i] = sheets[i]
          BY <3>3, <4>1
        <5>2. (a \o b)[i] = a[i]
          BY <3>1, <5>1
        <5> QED BY <5>1, <5>2
      <4>2. CASE i # 1
        BY <3>1, <3>2, <3>3, <4>2
      <4> QED BY <4>1, <4>2
    <3> QED BY <3>4
  <2>3. Len(a \o b) = Len(sheets)
    BY <1>1, <1>2, <2>1
  <2> QED BY <2>1, <2>2, <2>3, SeqEqual
<1> HIDE DEF a, b, S
<1>6. Kept(a \o b, S) = Kept(a, S) \o Kept(b, S)
  BY <1>1, <1>2, KeptConcat
<1>7. Kept(a, S) = <<>> /\ Kept(b, S) = b
  <2>1. Kept(a, S) = <<>>
    BY <1>2, <1>3, KeptNone
  <2>2. Kept(b, S) = b
    BY <1>1, <1>4, KeptAll
  <2> QED BY <2>1, <2>2
<1>8. <<>> \o b = b
  BY <1>1, ConcatEmptySeq
<1>9. Others(sheets) = Kept(sheets, S)
  BY DEF Others, S
<1>10. Kept(sheets, S) = <<>> \o b
  BY <1>5, <1>6, <1>7
<1> QED BY <1>8, <1>9, <1>10 DEF b

LEMMA BooksDrop ==
    ASSUME BooksInv, DropDefault
    PROVE  BooksInv'
<1>1. /\ pc = "dropping"
      /\ book = "failed" => book' = "skipped" /\ pc' = "dropping"
      /\ book # "failed" => book' = "failed" /\ pc' = "done"
      /\ file' = [file EXCEPT ![book] = IF DOMAIN maps[book] = {} THEN @ ELSE Others(@)]
      /\ UNCHANGED <<todo, maps, mode, limit, runs, blamed>>
  BY DEF DropDefault, NextBook, runVars
<1>2. /\ \A b \in Books : SheetsAre(b)
      /\ book \in Books /\ file \in [Books -> Seq(Sheets)]
      /\ \A b \in Books : Default \notin DOMAIN maps[b]
  BY <1>1, BooksFilled
<1>3. /\ file'[book] = IF DOMAIN maps[book] = {} THEN file[book] ELSE Others(file[book])
      /\ \A b \in Books \ {book} : file'[b] = file[b]
  BY <1>1, <1>2
<1>4. /\ \A b \in Books : ~InHand(b) /\ ~InHand(b)' /\ Complete(b) = DOMAIN maps[b] /\ Complete(b)' = DOMAIN maps[b]
      /\ \A b \in Books : b # book => (HasDefault(b)' <=> HasDefault(b))
      /\ HasDefault(book) /\ (\A b \in Books : b = book => (HasDefault(b)' <=> DOMAIN maps[b] = {}))
  BY <1>1, <1>2 DEF InHand, Complete, HasDefault, Past, Books
<1>5. ASSUME NEW b \in Books, b # book \/ DOMAIN maps[b] = {} PROVE SheetsAre(b)' /\ file'[b] \in Seq(Sheets)
  <2>1. file'[b] = file[b] /\ (HasDefault(b)' <=> HasDefault(b))
    BY <1>3, <1>4, <1>5
  <2> QED BY <1>1, <1>2, <1>4, <2>1, SheetsStay
<1>6. ASSUME NEW b \in Books, b = book, DOMAIN maps[b] # {} PROVE SheetsAre(b)' /\ file'[b] \in Seq(Sheets)
  <2> DEFINE old == file[b]
             n == Len(file'[b])
  <2>1. /\ old \in Seq(Sheets) /\ old # <<>> /\ old[1].name = Default
        /\ \A i, j \in 1..Len(old) : old[i].name = old[j].name => i = j
        /\ {old[i].name : i \in 1..Len(old)} = DOMAIN maps[b] \cup {Default}
        /\ \A i \in 1..Len(old) : old[i].rows = RowsOf(b, old[i].name)
    BY <1>2, <1>4, <1>6 DEF SheetsAre, ShownKeys
  <2>2. file'[b] = Others(old)
    BY <1>3, <1>6
  <2> HIDE DEF old
  <2>3. file'[b] = Tail(old)
    <3>1. 1 \in 1..Len(old)
      BY <2>1
    <3>2. \A i \in 1..Len(old) : i # 1 => old[i].name # Default
      BY <2>1, <3>1
    <3> QED BY <2>1, <2>2, <3>2, OthersAreTail
  <2>4. /\ file'[b] \in Seq(Sheets) /\ n = Len(old) - 1 /\ n \in Nat /\ 1 \in 1..Len(old)
        /\ \A i \in 1..n : file'[b][i] = old[i + 1] /\ i + 1 \in 1..Len(old) /\ i + 1 # 1
        /\ \A i \in 1..Len(old) : i = 1 \/ (i - 1 \in 1..n /\ (i - 1) + 1 = i)
    BY <2>1, <2>3
  <2>5. ShownKeys(b)' = DOMAIN maps[b] /\ ~HasDefault(b)'
    BY <1>1, <1>2, <1>4, <1>6 DEF ShownKeys
  <2>6. \A s : RowsOf(b, s)' = RowsOf(b, s)
    BY <1>1, <1>4 DEF RowsOf
  <2>7. \A i, j \in 1..n : file'[b][i].name = file'[b][j].name => i = j
    <3>1. ASSUME NEW i \in 1..n, NEW j \in 1..n, file'[b][i].name = file'[b][j].name PROVE i = j
      <4>1. i + 1 \in 1..Len(old) /\ j + 1 \in 1..Len(old) /\ old[i + 1].name = old[j + 1].name
        BY <2>4, <3>1
      <4>2. i + 1 = j + 1
        BY <2>1, <4>1
      <4> QED BY <4>2
    <3> QED BY <3>1
  <2>8. {file'[b][i].name : i \in 1..n} = DOMAIN maps[b]
    <3>1. ASSUME NEW k \in DOMAIN maps[b] PROVE \E i \in 1..n : file'[b][i].name = k
      <4>1. PICK i \in 1..Len(old) : old[i].name = k
        BY <2>1
      <4>2. i # 1
        BY <1>2, <2>1, <4>1
      <4>3. i - 1 \in 1..n /\ file'[b][i - 1].name = k
        BY <2>4, <4>1, <4>2
      <4> QED BY <4>3
    <3>2. ASSUME NEW i \in 1..n PROVE file'[b][i].name \in DOMAIN maps[b]
      <4>1. old[i + 1].name # Default /\ old[i + 1].name \in DOMAIN maps[b] \cup {Default}
        BY <2>1, <2>4
      <4> QED BY <2>4, <4>1
    <3> QED BY <3>1, <3>2
  <2>9. ASSUME NEW i \in 1..n, NEW s, s = file'[b][i].name PROVE file'[b][i].rows = RowsOf(b, s)'
    BY <2>1, <2>4, <2>6, <2>9
  <2> HIDE DEF n
  <2> QED BY <2>4, <2>5, <2>7, <2>8, <2>9 DEF SheetsAre, n
<1>7. \A b \in Books : SheetsAre(b)' /\ file'[b] \in Seq(Sheets)
  BY <1>5, <1>6
<1>8. file' \in [Books -> Seq(Sheets)]
  <2>1. file' = [b \in Books |-> file'[b]]
    BY <1>1, <1>2
  <2> QED BY <1>7, <2>1
<1>9. BooksAre'
  BY <1>1, <1>7 DEF BooksAre, BookIs, Gone
<1>10. KeyIs'
  BY <1>1 DEF KeyIs, Filling
<1>11. pc' \in PCs \ {"thrown"} /\ book' \in Books /\ \A b \in Books : Created(b)'
  BY <1>1 DEF PCs, Books, Created
<1> QED BY <1>1, <1>8, <1>9, <1>10, <1>11, BooksStep

-----------------------------------------------------------------------------
(* A rerun                                                                 *)

LEMMA BooksRunAgain ==
    ASSUME BooksInv, RunAgain
    PROVE  BooksInv'
<1>1. /\ pc' = "testing" /\ book' = "failed" /\ runs' = runs + 1 /\ mode # "blank"
      /\ maps' = [b \in Books |-> <<>>]
      /\ UNCHANGED <<mode, limit, file, blamed>>
  BY DEF RunAgain
<1>2. PICK b \in Books : source' = file[b] /\ todo' = Queue(source')
  BY DEF RunAgain
<1>3. /\ mode \in Modes /\ limit \in Nat /\ runs \in Nat /\ blamed \subseteq Cases
      /\ file \in [Books -> Seq(Sheets)] /\ file[b] \in Seq(Sheets) /\ Default \notin Modes
  BY FailedBookAssumption DEF BooksInv, FailedBookType
<1>4. todo' \in Seq(QueuedIn(file[b]))
  BY <1>2, <1>3, QueueIn
<1>5. ASSUME NEW e \in QueuedIn(file[b]) PROVE RowIsCase(e)'
  <2>1. PICK i \in 1..Len(file[b]) : e \in Queued(file[b][i])
    BY <1>5 DEF QueuedIn
  <2>2. PICK n \in 1..Len(file[b][i].rows) : file[b][i].rows[n] = e[2]
    BY <2>1 DEF Queued
  <2>3. e[1] = Suite(file[b][i]) /\ e[2] \in HasCase
    BY <1>1, <2>1 DEF Queued
  <2>4. SheetIsBlamed(file[b][i])
    BY <1>2, <2>1 DEF BooksInv, FilesAreBlamed
  <2>5. e[2][2] \in blamed
    BY <2>2, <2>3, <2>4 DEF SheetIsBlamed
  <2>6. file[b][i].name # Default
    <3>1. Len(<<>>) = 0 /\ \A m \in 1..0 : FALSE
      OBVIOUS
    <3> QED BY <2>2, <2>4, <3>1 DEF SheetIsBlamed
  <2>7. e[1] # Default /\ (mode # "normal" => e[1] = mode)
    BY <1>3, <2>3, <2>6 DEF Suite
  <2> QED BY <1>1, <1>3, <2>5, <2>7 DEF RowIsCase, CaseOf
<1>6. TodoIsCases'
  <2>1. \A i \in 1..Len(todo') : todo'[i] \in QueuedIn(file[b])
    BY <1>4
  <2> QED BY <1>5, <2>1 DEF TodoIsCases
<1>7. todo' \in Seq(SuiteNames \X Row)
  <2>1. QueuedIn(file[b]) \subseteq SuiteNames \X Row
    BY DEF QueuedIn
  <2> QED BY <1>4, <2>1, SeqMonotonic
<1>8. \A d \in Books : DOMAIN maps'[d] = {}
  BY <1>1
<1>9. FailedBookType'
  <2>1. DOMAIN maps' = Books /\ runs' \in Nat
    BY <1>1, <1>3
  <2>2. "testing" \in PCs \ {"thrown"} /\ "failed" \in Books
    BY DEF PCs, Books
  <2> QED BY <1>1, <1>3, <1>7, <1>8, <2>1, <2>2 DEF FailedBookType
<1>10. MapsOfSuites' /\ FilesAreBlamed'
  BY <1>1, <1>8 DEF MapsOfSuites, BooksInv, FilesAreBlamed, SheetIsBlamed
<1>11. KeyIs' /\ BooksAre'
  BY <1>1 DEF KeyIs, BooksAre, BookIs, Gone, Created, Filling
<1> QED BY <1>6, <1>9, <1>10, <1>11 DEF BooksInv

LEMMA BooksInvariant ==
    ASSUME SheetOneIsFree
    PROVE  Spec => []BooksInv
<1>1. Init => BooksInv
  BY BooksInit
<1>2. BooksInv /\ [Next]_vars => BooksInv'
  <2> SUFFICES ASSUME BooksInv, [Next]_vars PROVE BooksInv'
    OBVIOUS
  <2>1. CASE Next
    <3>1. CASE WriteBooks
      BY <3>1, BooksDelete, BooksCreate, BooksCreateSheet, BooksWritePath, BooksWriteName, BooksEndSheet,
         BooksEndBook, BooksDrop DEF WriteBooks
    <3>2. CASE RunRow \/ StartFinish \/ Kill
      BY <3>2, BooksRunRow, BooksStart, BooksKill
    <3>3. CASE RunAgain
      BY <3>3, BooksRunAgain
    <3> QED BY <2>1, <3>1, <3>2, <3>3 DEF Next
  <2>2. CASE UNCHANGED vars
    <3>1. UNCHANGED <<mode, limit, runs, blamed, todo, maps, file, pc, book, left, key, entry>>
      BY <2>2 DEF vars
    <3>2. file' \in [Books -> Seq(Sheets)] /\ pc' \in PCs \ {"thrown"} /\ book' \in Books
      BY <3>1 DEF BooksInv, FailedBookType
    <3>3. KeyIs'
      BY <3>1 DEF BooksInv, KeyIs, Filling
    <3>4. ASSUME NEW b \in Books PROVE BookIs(b)'
      <4>1. /\ Gone(b)' <=> Gone(b)
            /\ Created(b)' <=> Created(b)
        BY <3>1 DEF Gone, Created, Filling, Past
      <4>2. /\ ShownKeys(b)' = ShownKeys(b) /\ (HasDefault(b)' <=> HasDefault(b))
            /\ \A s : RowsOf(b, s)' = RowsOf(b, s)
        BY <3>1 DEF ShownKeys, Complete, HasDefault, InHand, RowsOf, Filling, Past
      <4>3. SheetsAre(b) => SheetsAre(b)'
        BY <3>1, <4>2 DEF SheetsAre
      <4> QED BY <3>1, <4>1, <4>3 DEF BooksInv, BooksAre, BookIs
    <3> QED BY <3>1, <3>2, <3>3, <3>4, BooksStep DEF BooksAre
  <2> QED BY <2>1, <2>2
<1> QED BY <1>1, <1>2, PTL DEF Spec

-----------------------------------------------------------------------------
(* What the workbooks would queue                                          *)

LEMMA KeptLines ==
    ASSUME NEW list \in Seq(Cases), NEW n \in 0..Len(list)
    PROVE  /\ Kept(Lines(list, n), HasCase) = Lines(list, n)
           /\ Kept(Append(Lines(list, n), Line(Null)), HasCase) = Lines(list, n)
<1> DEFINE s == Lines(list, n)
           e == Line(Null)
           t == <<e>>
<1>1. s \in Seq(Row) /\ \A i \in 1..Len(s) : s[i] \in HasCase
  <2>1. Len(list) \in Nat /\ \A i \in 1..n : i \in 1..Len(list) /\ list[i] \in Cases
    OBVIOUS
  <2>2. /\ Lines(list, n) \in Seq(Row) /\ Len(Lines(list, n)) = n
        /\ \A i \in 1..n : Lines(list, n)[i] = Line(list[i])
    BY LinesIn
  <2> QED BY <2>1, <2>2, LineIsRow
<1>2. e \in Row /\ e \notin HasCase
  BY LineIsRow
<1> HIDE DEF s, e
<1>3. Kept(s, HasCase) = s
  BY <1>1, KeptAll
<1>4. t \in Seq(Row) /\ \A i \in 1..Len(t) : t[i] \notin HasCase
  BY <1>2
<1>5. Append(s, e) = s \o t
  BY <1>1, <1>2
<1> HIDE DEF t
<1>6. Kept(t, HasCase) = <<>>
  BY <1>4, KeptNone
<1>7. Kept(s \o t, HasCase) = Kept(s, HasCase) \o Kept(t, HasCase)
  BY <1>1, <1>4, KeptConcat
<1>8. s \o <<>> = s
  BY <1>1, ConcatEmptySeq
<1> QED BY <1>3, <1>5, <1>6, <1>7, <1>8 DEF s, e

LEMMA NamesAre ==
    ASSUME BooksInv, NEW b \in Books, Created(b), NEW i \in 1..Len(file[b]), NEW s, file[b][i].name = s
    PROVE  /\ ListFor(b, s) \in Seq(Cases) /\ Len(ListFor(b, s)) \in Nat
           /\ \E n \in 0..Len(ListFor(b, s)) :
                 /\ Names(b, s) = [j \in 1..n |-> ListFor(b, s)[j]]
                 /\ ~InHand(b) => n = Len(ListFor(b, s))
<1> DEFINE list == ListFor(b, s)
           rows == RowsOf(b, s)
           full == Kept(rows, HasCase)
<1>1. SheetsAre(b) /\ file \in [Books -> Seq(Sheets)] /\ Default \notin DOMAIN maps[b]
  BY DEF BooksInv, BooksAre, BookIs, FailedBookType, MapsOfSuites
<1>2. file[b][i].rows = rows /\ \A j \in 1..Len(file[b]) : file[b][j].name = s => j = i
  BY <1>1 DEF SheetsAre
<1>3. DOMAIN file[b] = 1..Len(file[b])
  BY <1>1
<1>4. Names(b, s) = [j \in DOMAIN full |-> full[j][2]]
  <2> DEFINE R == {file[b][j].rows : j \in {m \in DOMAIN file[b] : file[b][m].name = s}}
  <2> HIDE DEF rows
  <2>1. R = {rows}
    BY <1>2, <1>3
  <2>2. R # {} /\ (CHOOSE r \in R : TRUE) = rows
    BY <2>1
  <2> QED BY <2>2 DEF Names
<1>5. CASE s = Default
  <2>1. list = <<>> /\ rows = <<>>
    BY <1>1, <1>5 DEF ListFor, RowsOf
  <2>2. full = <<>>
    <3>1. <<>> \in Seq(Row) /\ Len(<<>>) = 0 /\ \A j \in 1..0 : <<>>[j] \notin HasCase
      OBVIOUS
    <3> HIDE DEF rows
    <3> QED BY <2>1, <3>1, KeptNone
  <2>3. <<>> \in Seq(Cases) /\ Len(<<>>) = 0 /\ 0 \in 0..0
    OBVIOUS
  <2>4. Names(b, s) = [j \in 1..0 |-> list[j]]
    <3> HIDE DEF full, list
    <3> QED BY <1>4, <2>2
  <2> QED BY <2>1, <2>3, <2>4
<1>6. CASE s # Default
  <2>1. s \in DOMAIN maps[b]
    <3>1. s \in ShownKeys(b)
      BY <1>1 DEF SheetsAre
    <3> QED BY <1>6, <3>1 DEF ShownKeys, Complete, InHand, BooksInv, KeyIs, Filling
  <2>2. list = maps[b][s]
    BY <2>1 DEF ListFor
  <2>3. list \in Seq(Cases) /\ Len(list) \in Nat
    <3>1. maps[b][s] \in Seq(blamed) /\ blamed \subseteq Cases
      BY <2>1 DEF BooksInv, FailedBookType
    <3> QED BY <2>2, <3>1
  <2>4. InHand(b) /\ s = key => entry \in 1..(Len(maps[b][s]) + 1)
    BY DEF InHand, BooksInv, KeyIs
  <2> HIDE DEF list, rows
  <2>5. PICK n \in 0..Len(list) :
           /\ rows = Lines(list, n) \/ rows = Append(Lines(list, n), Line(Null))
           /\ ~InHand(b) => n = Len(list)
    <3>1. Len(list) \in 0..Len(list)
      BY <2>3
    <3>2. InHand(b) /\ s = key => entry - 1 \in 0..Len(list)
      BY <2>2, <2>3, <2>4
    <3>3. CASE InHand(b) /\ s = key
      BY <1>6, <2>2, <3>2, <3>3 DEF RowsOf, rows
    <3>4. CASE ~(InHand(b) /\ s = key)
      BY <1>6, <2>2, <3>1, <3>4 DEF RowsOf, rows
    <3> QED BY <3>3, <3>4
  <2>6. full = Lines(list, n)
    BY <2>3, <2>5, KeptLines
  <2>7. DOMAIN full = 1..n /\ \A j \in 1..n : full[j][2] = list[j]
    <3>1. \A j \in 1..n : list[j] \in Cases
      BY <2>3
    <3>2. DOMAIN Lines(list, n) = 1..n /\ \A j \in 1..n : Lines(list, n)[j] = Line(list[j])
      BY DEF Lines
    <3> QED BY <2>6, <3>1, <3>2, LineIsRow
  <2> HIDE DEF full
  <2>8. Names(b, s) = [j \in 1..n |-> list[j]]
    BY <1>4, <2>7
  <2> QED BY <2>3, <2>5, <2>8 DEF list
<1> QED BY <1>5, <1>6

LEMMA PrefixesOnly ==
    ASSUME BooksInv
    PROVE  PrefixOnly
<1> SUFFICES ASSUME pc \in {"sheets", "entries", "names", "dropping", "done"}, NEW b \in Books,
                    NEW i \in DOMAIN file[b]
             PROVE  IsPrefixOf(Names(b, file[b][i].name), ListFor(b, file[b][i].name))
  BY DEF PrefixOnly
<1> DEFINE s == file[b][i].name
           list == ListFor(b, s)
<1>1. Created(b)
  BY DEF Created, Filling
<1>2. i \in 1..Len(file[b])
  BY DEF BooksInv, FailedBookType
<1>3. PICK n \in 0..Len(list) : Names(b, s) = [j \in 1..n |-> list[j]]
  BY <1>1, <1>2, NamesAre
<1>4. list \in Seq(Cases) /\ Len(list) \in Nat
  BY <1>1, <1>2, NamesAre
<1> HIDE DEF s, list
<1>5. Names(b, s) \in Seq(Cases) /\ Len(Names(b, s)) = n
  <2>1. \A j \in 1..n : list[j] \in Cases
    BY <1>4
  <2>2. Names(b, s) \in [1..n -> Cases] /\ n \in Nat
    BY <1>3, <1>4, <2>1
  <2>3. Names(b, s) \in Seq(Cases)
    BY <2>2, SeqDef
  <2> QED BY <2>2, <2>3, LenProperties
<1>6. DOMAIN Names(b, s) = 1..n /\ \A j \in 1..n : Names(b, s)[j] = list[j]
  BY <1>3
<1>7. IsPrefixOf(Names(b, s), list)
  BY <1>4, <1>5, <1>6 DEF IsPrefixOf
<1> QED BY <1>7 DEF s, list

LEMMA AllSaved ==
    ASSUME BooksInv
    PROVE  ResultsSaved
<1> SUFFICES ASSUME pc \in {"done", "thrown"}, NEW b \in Books, NEW s \in Suites \cup {Default}
             PROVE  Names(b, s) = ListFor(b, s)
  BY DEF ResultsSaved
<1>1. pc = "done" /\ Created(b) /\ ~InHand(b) /\ SheetsAre(b) /\ file \in [Books -> Seq(Sheets)]
  BY DEF BooksInv, FailedBookType, Created, InHand, BooksAre, BookIs
<1>2. CASE \E i \in 1..Len(file[b]) : file[b][i].name = s
  <2>1. PICK i \in 1..Len(file[b]) : file[b][i].name = s
    BY <1>2
  <2>2. /\ ListFor(b, s) \in Seq(Cases)
        /\ Names(b, s) = [j \in 1..Len(ListFor(b, s)) |-> ListFor(b, s)[j]]
    BY <1>1, <2>1, NamesAre
  <2>3. \A t \in Seq(Cases) : t = [j \in 1..Len(t) |-> t[j]]
    OBVIOUS
  <2> QED BY <2>2, <2>3
<1>3. CASE ~\E i \in 1..Len(file[b]) : file[b][i].name = s
  <2>1. s \notin DOMAIN maps[b]
    <3>1. s \notin ShownKeys(b)
      BY <1>1, <1>3 DEF SheetsAre
    <3> QED BY <1>1, <3>1 DEF ShownKeys, Complete
  <2>2. DOMAIN file[b] = 1..Len(file[b])
    BY <1>1
  <2>3. {file[b][j].rows : j \in {m \in DOMAIN file[b] : file[b][m].name = s}} = {}
    BY <1>3, <2>2
  <2> QED BY <2>1, <2>3 DEF Names, ListFor
<1> QED BY <1>2, <1>3

(***************************************************************************)
(* For every suite workbook without a sheet named Sheet1, any number of    *)
(* reruns and a kill at any step: at any time onFinish has written a       *)
(* prefix of what is to be written, all of it when it has returned, and a  *)
(* rerun takes no test case from the workbooks that had not failed.        *)
(***************************************************************************)
THEOREM WorkbooksHoldResults ==
    ASSUME SheetOneIsFree
    PROVE  Spec => []BooksHoldResults
<1>1. BooksInv => BooksHoldResults
  <2> SUFFICES ASSUME BooksInv PROVE BooksHoldResults
    OBVIOUS
  <2>1. RerunInventsNothing
    <3>1. DOMAIN todo = 1..Len(todo)
      BY DEF BooksInv, FailedBookType
    <3> QED BY <3>1 DEF BooksInv, TodoIsCases, RowIsCase, RerunInventsNothing
  <2> QED BY <2>1, PrefixesOnly, AllSaved DEF BooksHoldResults
<1> QED BY <1>1, BooksInvariant, PTL

-----------------------------------------------------------------------------
(* What a rerun queues                                                     *)

LEMMA SheetQueues ==
    ASSUME BooksInv, pc = "done", limit = 0, mode # "blank", NEW b \in Books, NEW i \in 1..Len(file[b])
    PROVE  /\ file[b][i] \in Sheets
           /\ QueueOf(file[b][i]) = Tagged(file[b][i].name, RowsOf(b, file[b][i].name))
           /\ RowsOf(b, file[b][i].name) \in Seq(Row)
<1> DEFINE k == file[b][i].name
           rows == file[b][i].rows
<1>1. SheetsAre(b) /\ ~InHand(b) /\ file[b][i] \in Sheets
  BY DEF BooksInv, BooksAre, BookIs, FailedBookType, Created, InHand
<1>2. rows = RowsOf(b, k) /\ rows \in Seq(Row)
  BY <1>1 DEF SheetsAre, Sheets
<1>3. limit \in Nat /\ mode \in {"normal", "Runall"}
  BY DEF BooksInv, FailedBookType, Modes
<1>4. Upto(rows) = rows
  <2> HIDE DEF rows
  <2> QED BY <1>2, <1>3, UptoIn
<1>5. QueueOf(file[b][i]) = Tagged(Suite(file[b][i]), Kept(rows, HasCase))
  BY <1>3, <1>4 DEF QueueOf, Suite
<1>6. CASE k = Default
  <2>1. rows = <<>>
    BY <1>2, <1>6 DEF RowsOf
  <2>2. Kept(rows, HasCase) = <<>>
    <3>1. <<>> \in Seq(Row) /\ Len(<<>>) = 0 /\ \A j \in 1..0 : <<>>[j] \notin HasCase
      OBVIOUS
    <3> HIDE DEF rows
    <3> QED BY <2>1, <3>1, KeptNone
  <2>3. \A x, y : Tagged(x, <<>>) = Tagged(y, <<>>)
    BY DEF Tagged
  <2> HIDE DEF rows, k
  <2>4. QueueOf(file[b][i]) = Tagged(k, rows)
    BY <1>5, <2>1, <2>2, <2>3
  <2> QED BY <1>1, <1>2, <2>4 DEF k
<1>7. CASE k # Default
  <2>1. k \in DOMAIN maps[b]
    <3>1. k \in ShownKeys(b)
      BY <1>1 DEF SheetsAre
    <3> QED BY <1>1, <1>7, <3>1 DEF ShownKeys, Complete
  <2>2. Suite(file[b][i]) = k
    BY <2>1 DEF Suite, BooksInv, MapsOfSuites
  <2>3. rows = Lines(maps[b][k], Len(maps[b][k]))
    BY <1>1, <1>2, <1>7 DEF RowsOf
  <2>4. maps[b][k] \in Seq(Cases) /\ Len(maps[b][k]) \in 0..Len(maps[b][k])
    <3>1. maps[b][k] \in Seq(blamed) /\ blamed \subseteq Cases
      BY <2>1 DEF BooksInv, FailedBookType
    <3> HIDE DEF k
    <3> QED BY <3>1
  <2> HIDE DEF rows, k
  <2>5. Kept(rows, HasCase) = rows
    BY <2>3, <2>4, KeptLines
  <2> QED BY <1>1, <1>2, <1>5, <2>2, <2>5 DEF k
<1> QED BY <1>6, <1>7

At(s) == {e \in SuiteNames \X Row : e[1] = s}

LEMMA TaggedAt ==
    ASSUME NEW k \in SuiteNames, NEW rows \in Seq(Row), NEW s
    PROVE  /\ Tagged(k, rows) \in Seq(SuiteNames \X Row)
           /\ Kept(Tagged(k, rows), At(s)) = IF k = s THEN Tagged(s, rows) ELSE <<>>
<1> DEFINE t == Tagged(k, rows)
<1>1. t \in Seq({k} \X Row)
  BY TaggedIn
<1>2. t \in Seq(SuiteNames \X Row) /\ \A i \in 1..Len(t) : t[i] \in SuiteNames \X Row /\ t[i][1] = k
  <2> HIDE DEF t
  <2> QED BY <1>1
<1>3. CASE k = s
  <2>1. \A i \in 1..Len(t) : t[i] \in At(s)
    BY <1>2, <1>3 DEF At
  <2> HIDE DEF t
  <2>2. Kept(t, At(s)) = t
    BY <1>2, <2>1, KeptAll
  <2> QED BY <1>2, <1>3, <2>2 DEF t
<1>4. CASE k # s
  <2>1. \A i \in 1..Len(t) : t[i] \notin At(s)
    BY <1>2, <1>4 DEF At
  <2> HIDE DEF t
  <2>2. Kept(t, At(s)) = <<>>
    BY <1>2, <2>1, KeptNone
  <2> QED BY <1>2, <1>4, <2>2 DEF t
<1> QED BY <1>3, <1>4

(* The rows queued under a name are the rows of the sheet of that name *)
LEMMA QueueUnder ==
    ASSUME BooksInv, pc = "done", limit = 0, mode # "blank", NEW b \in Books, NEW s
    PROVE  Under(s, Queue(file[b])) =
              IF \E i \in 1..Len(file[b]) : file[b][i].name = s THEN Tagged(s, RowsOf(b, s)) ELSE <<>>
<1> DEFINE sheets == file[b]
           n == Len(sheets)
           E == SuiteNames \X Row
           rows == Tagged(s, RowsOf(b, s))
           Shown(m) == \E i \in 1..m : sheets[i].name = s
<1>1. /\ sheets \in Seq(Sheets) /\ n \in Nat /\ mode \in Modes /\ limit \in Nat
      /\ \A i, j \in 1..n : sheets[i].name = sheets[j].name => i = j
  BY DEF BooksInv, FailedBookType, BooksAre, BookIs, Created, SheetsAre
<1>2. \A i \in 1..n : /\ sheets[i] \in Sheets
                      /\ QueueOf(sheets[i]) = Tagged(sheets[i].name, RowsOf(b, sheets[i].name))
                      /\ RowsOf(b, sheets[i].name) \in Seq(Row)
  BY SheetQueues
<1> HIDE DEF sheets
<1>3. PICK f : QueueBy(sheets, f)
  BY <1>1, QueueSteps
<1>4. \A i \in 0..n : f[i] \in Seq(E)
  <2>1. QueuedIn(sheets) \subseteq E
    BY DEF QueuedIn
  <2>2. \A i \in 0..n : f[i] \in Seq(QueuedIn(sheets))
    BY <1>3 DEF QueueBy
  <2> HIDE DEF E
  <2> QED BY <2>1, <2>2, SeqMonotonic
<1> DEFINE G == {m \in 0..n : Kept(f[m], At(s)) = IF Shown(m) THEN rows ELSE <<>>}
<1>5. 0 \in G
  <2>1. f[0] = <<>> /\ ~Shown(0) /\ 0 \in 0..n
    BY <1>1, <1>3 DEF QueueBy
  <2>2. Kept(f[0], At(s)) = <<>>
    <3>1. <<>> \in Seq(E) /\ Len(<<>>) = 0 /\ \A j \in 1..0 : <<>>[j] \notin At(s)
      OBVIOUS
    <3> HIDE DEF E
    <3> QED BY <2>1, <3>1, KeptNone
  <2> QED BY <2>1, <2>2
<1>6. ASSUME NEW m \in 0..(n - 1), m \in G PROVE m + 1 \in G
  <2> DEFINE k == sheets[m + 1].name
             t == Tagged(k, RowsOf(b, k))
  <2>1. /\ m \in 0..n /\ m + 1 \in 0..n /\ m + 1 \in 1..n
        /\ Kept(f[m], At(s)) = IF Shown(m) THEN rows ELSE <<>>
    BY <1>1, <1>6
  <2>2. f[m + 1] = f[m] \o t
    BY <1>2, <1>3, <2>1 DEF QueueBy
  <2>3. k \in SuiteNames /\ RowsOf(b, k) \in Seq(Row)
    BY <1>2, <2>1 DEF Sheets
  <2> HIDE DEF k
  <2>4. t \in Seq(E) /\ Kept(t, At(s)) = IF k = s THEN rows ELSE <<>>
    BY <2>3, TaggedAt
  <2>5. f[m] \in Seq(E) /\ (k = s => rows \in Seq(E))
    BY <1>4, <2>1, <2>4
  <2>6. k = s => ~Shown(m)
    BY <1>1, <2>1 DEF k
  <2>7. Shown(m + 1) <=> Shown(m) \/ k = s
    <3>1. \A i \in 1..(m + 1) : i \in 1..m \/ i = m + 1
      OBVIOUS
    <3>2. \A i \in 1..m : i \in 1..(m + 1)
      OBVIOUS
    <3> QED BY <2>1, <3>1, <3>2 DEF k
  <2>8. Kept(f[m] \o t, At(s)) = Kept(f[m], At(s)) \o Kept(t, At(s))
    <3> DEFINE a == f[m]
    <3>1. a \in Seq(E) /\ t \in Seq(E)
      BY <2>4, <2>5
    <3> HIDE DEF E, t, a
    <3>2. Kept(a \o t, At(s)) = Kept(a, At(s)) \o Kept(t, At(s))
      BY <3>1, KeptConcat
    <3> QED BY <3>2 DEF a
  <2>9. Kept(f[m], At(s)) \o Kept(t, At(s)) = IF Shown(m + 1) THEN rows ELSE <<>>
    <3>1. \A a \in Seq(E) : a \o <<>> = a /\ <<>> \o a = a
      OBVIOUS
    <3>2. <<>> \in Seq(E)
      OBVIOUS
    <3>3. Kept(f[m], At(s)) \in Seq(E)
      <4> HIDE DEF E
      <4>1. Kept(f[m], At(s)) \in Seq({e \in E \cap At(s) : \E j \in 1..Len(f[m]) : f[m][j] = e})
        BY <1>4, <2>1, KeptIn
      <4>2. {e \in E \cap At(s) : \E j \in 1..Len(f[m]) : f[m][j] = e} \subseteq E
        OBVIOUS
      <4> QED BY <4>1, <4>2, SeqMonotonic
    <3> HIDE DEF E, t, Shown, rows
    <3>4. CASE k = s
      <4>1. Kept(t, At(s)) = rows /\ Kept(f[m], At(s)) = <<>> /\ rows \in Seq(E) /\ Shown(m + 1)
        BY <2>1, <2>4, <2>5, <2>6, <2>7, <3>4
      <4> QED BY <3>1, <4>1
    <3>5. CASE k # s
      <4>1. Kept(t, At(s)) = <<>> /\ (Shown(m + 1) <=> Shown(m))
        BY <2>4, <2>7, <3>5
      <4>2. Kept(f[m], At(s)) \o Kept(t, At(s)) = Kept(f[m], At(s))
        BY <3>1, <3>3, <4>1
      <4> QED BY <2>1, <4>1, <4>2
    <3> QED BY <3>4, <3>5
  <2>10. Kept(f[m + 1], At(s)) = IF Shown(m + 1) THEN rows ELSE <<>>
    <3> HIDE DEF E, t, Shown, rows
    <3> QED BY <2>2, <2>8, <2>9
  <2> HIDE DEF Shown, rows
  <2> QED BY <2>1, <2>10
<1>7. Kept(f[n], At(s)) = IF Shown(n) THEN rows ELSE <<>>
  <2> HIDE DEF G
  <2>1. \A m \in 0..n : m \in G
    BY <1>1, <1>5, <1>6, Counting
  <2>2. n \in 0..n
    BY <1>1
  <2> QED BY <2>1, <2>2 DEF G
<1> DEFINE q == Queue(sheets)
           Own == {q[i] : i \in {j \in DOMAIN q : q[j][1] = s}}
<1>8. q = f[n] /\ q \in Seq(E)
  <2>1. n \in 0..n
    BY <1>1
  <2> HIDE DEF E
  <2> QED BY <1>3, <1>4, <2>1 DEF QueueBy
<1>9. Kept(q, Own) = Kept(q, At(s))
  <2> HIDE DEF q
  <2>1. DOMAIN q = 1..Len(q) /\ \A i \in 1..Len(q) : q[i] \in E
    BY <1>8
  <2>2. \A i \in 1..Len(q) : q[i] \in Own <=> q[i] \in At(s)
    BY <2>1 DEF At
  <2> HIDE DEF E, Own
  <2> QED BY <1>8, <2>2, KeptSame
<1>10. Under(s, q) = Kept(q, Own)
  BY DEF Under
<1> QED
  <2> HIDE DEF q, Own, rows
  <2>1. Under(s, q) = IF Shown(n) THEN rows ELSE <<>>
    BY <1>7, <1>8, <1>9, <1>10
  <2> QED BY <2>1 DEF q, rows, sheets

LEMMA RerunStep ==
    ASSUME BooksInv, pc = "done", RunAgain
    PROVE  \E b \in Books : source' = file[b] /\ \A s \in Suites :
              LET of == Under(s, todo')
              IN /\ [i \in DOMAIN of |-> of[i][2][2]] = ListFor(b, s)
                 /\ \A i \in DOMAIN todo' : todo'[i][1] \in Suites
<1>1. PICK b \in Books : source' = file[b] /\ todo' = Queue(file[b])
  BY DEF RunAgain
<1>2. limit = 0 /\ mode # "blank" /\ limit \in Nat /\ mode \in Modes
  BY DEF RunAgain, BooksInv, FailedBookType
<1>3. /\ SheetsAre(b) /\ ~InHand(b) /\ Complete(b) = DOMAIN maps[b]
      /\ file \in [Books -> Seq(Sheets)] /\ Default \notin Suites
      /\ DOMAIN maps[b] \subseteq Suites
  <2>1. Books = {"failed", "skipped"}
    BY DEF Books
  <2>2. DOMAIN maps[b] \subseteq Suites
    BY <2>1 DEF Suites
  <2> QED BY <2>1, <2>2 DEF BooksInv, FailedBookType, MapsOfSuites, BooksAre, BookIs, Created, InHand, Complete, Suites
<1>4. ASSUME NEW s \in Suites
      PROVE  [i \in DOMAIN Under(s, todo') |-> Under(s, todo')[i][2][2]] = ListFor(b, s)
  <2> DEFINE of == Under(s, todo')
             list == maps[b][s]
             rows == RowsOf(b, s)
  <2>1. of = IF \E i \in 1..Len(file[b]) : file[b][i].name = s THEN Tagged(s, rows) ELSE <<>>
    BY <1>1, <1>2, QueueUnder
  <2>2. (\E i \in 1..Len(file[b]) : file[b][i].name = s) <=> s \in DOMAIN maps[b]
    BY <1>3, <1>4 DEF SheetsAre, ShownKeys
  <2>3. CASE s \in DOMAIN maps[b]
    <3>1. rows = Lines(list, Len(list))
      BY <1>3, <1>4 DEF RowsOf
    <3>2. list \in Seq(Cases) /\ Len(list) \in 0..Len(list) /\ list = [i \in 1..Len(list) |-> list[i]]
      <4>1. maps[b][s] \in Seq(blamed) /\ blamed \subseteq Cases
        BY <2>3 DEF BooksInv, FailedBookType
      <4> QED BY <4>1
    <3> HIDE DEF list, rows
    <3>3. rows \in Seq(Row) /\ Len(rows) = Len(list) /\ \A i \in 1..Len(list) : rows[i] = Line(list[i])
      BY <3>1, <3>2, LinesIn
    <3>4. \A i \in 1..Len(list) : rows[i][2] = list[i]
      <4>1. \A i \in 1..Len(list) : list[i] \in Cases
        BY <3>2
      <4> QED BY <3>3, <4>1, LineIsRow
    <3>5. of = Tagged(s, rows)
      BY <2>1, <2>2, <2>3
    <3>6. DOMAIN of = 1..Len(list) /\ \A i \in 1..Len(list) : of[i] = <<s, rows[i]>>
      <4>1. DOMAIN rows = 1..Len(list)
        BY <3>3
      <4> QED BY <3>5, <4>1 DEF Tagged
    <3> HIDE DEF of
    <3>7. [i \in DOMAIN of |-> of[i][2][2]] = [i \in 1..Len(list) |-> list[i]]
      BY <3>4, <3>6
    <3>8. ListFor(b, s) = list
      BY <2>3 DEF ListFor, list
    <3> QED BY <3>2, <3>7, <3>8 DEF of
  <2>4. CASE s \notin DOMAIN maps[b]
    <3>1. of = <<>> /\ ListFor(b, s) = <<>>
      BY <2>1, <2>2, <2>4 DEF ListFor
    <3> HIDE DEF of
    <3>2. [i \in DOMAIN of |-> of[i][2][2]] = <<>>
      BY <3>1
    <3> QED BY <3>1, <3>2 DEF of
  <2> QED BY <2>3, <2>4
<1>5. ASSUME NEW j \in DOMAIN todo' PROVE todo'[j][1] \in Suites
  <2>1. file[b] \in Seq(Sheets)
    BY <1>3
  <2>2. todo' \in Seq(QueuedIn(file[b]))
    BY <1>1, <1>2, <2>1, QueueIn
  <2>3. todo'[j] \in QueuedIn(file[b])
    BY <2>2
  <2>4. PICK i \in 1..Len(file[b]) : todo'[j] \in Queued(file[b][i])
    BY <2>3 DEF QueuedIn
  <2> DEFINE k == file[b][i].name
  <2>5. todo'[j][1] = Suite(file[b][i]) /\ file[b][i].rows # <<>>
    <3>1. Len(<<>>) = 0 /\ \A m \in 1..0 : FALSE
      OBVIOUS
    <3> QED BY <2>4, <3>1 DEF Queued
  <2>6. k # Default /\ k \in DOMAIN maps[b]
    <3>1. file[b][i].rows = RowsOf(b, k) /\ k \in ShownKeys(b)
      BY <1>3, <2>4 DEF SheetsAre
    <3>2. k # Default
      BY <2>5, <3>1 DEF RowsOf
    <3> QED BY <1>3, <3>1, <3>2 DEF ShownKeys
  <2>7. Suite(file[b][i]) = k
    BY <2>6 DEF Suite, BooksInv, MapsOfSuites
  <2> QED BY <1>3, <2>5, <2>6, <2>7
<1> QED BY <1>1, <1>4, <1>5

(***************************************************************************)
(* For the same workbooks: a rerun after a run that was not killed queues  *)
(* the rows that failed, or those that were skipped, in their order, under *)
(* their suites, and no others.                                            *)
(***************************************************************************)
THEOREM RerunsRunWhatFailed ==
    ASSUME SheetOneIsFree
    PROVE  Spec => RerunIsWhatFailed
<1>1. BooksInv /\ [Next]_vars =>
        [(pc = "done" /\ pc' = "testing") =>
          \E b \in Books : source' = file[b] /\ \A s \in Suites :
              LET of == Under(s, todo')
              IN /\ [i \in DOMAIN of |-> of[i][2][2]] = ListFor(b, s)
                 /\ \A i \in DOMAIN todo' : todo'[i][1] \in Suites]_vars
  <2>1. ASSUME Next, pc = "done", pc' = "testing" PROVE RunAgain
    BY <2>1 DEF Next, RunRow, StartFinish, WriteBooks, DeleteOld, CreateBook, CreateSheet, WritePath, WriteName,
                EndSheet, EndBook, DropDefault, NextBook, Kill
  <2> QED BY <2>1, RerunStep
<1> QED BY <1>1, BooksInvariant, PTL DEF Spec, RerunIsWhatFailed
=============================================================================
