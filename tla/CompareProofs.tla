----------------------------- MODULE CompareProofs -----------------------------
(***************************************************************************)
(* Proofs about ExcelCompare, for any directories and any workbooks of     *)
(* finitely many rows and cells, and about SnapCompare, for any suites and *)
(* baselines of finitely many files.                                       *)
(***************************************************************************)
EXTENDS ExcelCompare, SnapCompare, FiniteSetTheorems, SequenceTheorems, WellFoundedInduction, TLAPS

-----------------------------------------------------------------------------
(* The first and the last of finitely many numbers                         *)

LEMMA NatMin ==
    ASSUME NEW S \in SUBSET Nat, S # {}
    PROVE  \E n \in S : \A m \in S : n <= m
<1> DEFINE R == {ss \in Nat \X Nat : ss[1] < ss[2]}
<1>1. IsWellFoundedOn(R, Nat)
  BY NatLessThanWellFounded DEF OpToRel
<1>2. PICK x \in S : \A y \in S : ~(<<y, x>> \in R)
  BY <1>1, WFMin
<1>3. \A y \in S : ~(y < x)
  BY <1>2
<1> QED BY <1>3

\* The number with the fewest above it has none above it
LEMMA NatMax ==
    ASSUME NEW S \in SUBSET Nat, S # {}, IsFiniteSet(S)
    PROVE  \E n \in S : \A m \in S : n >= m
<1> DEFINE Higher(n) == {m \in S : m > n}
           C == {Cardinality(Higher(n)) : n \in S}
<1>1. \A n \in S : IsFiniteSet(Higher(n)) /\ Cardinality(Higher(n)) \in Nat
  BY FS_Subset, FS_CardinalityType
<1>2. C \in SUBSET Nat /\ C # {}
  BY <1>1
<1>3. PICK k \in C : \A j \in C : k <= j
  BY <1>2, NatMin
<1>4. PICK n \in S : k = Cardinality(Higher(n))
  BY <1>3
<1>5. ASSUME NEW m \in S, m > n PROVE FALSE
  <2>1. Higher(m) \subseteq Higher(n) /\ m \in Higher(n) /\ m \notin Higher(m)
    <3>1. \A j \in S : j \in Nat
      OBVIOUS
    <3>2. \A j \in S : j > m => j > n
      BY <3>1, <1>5
    <3>3. ~(m > m)
      BY <3>1
    <3> QED BY <3>2, <3>3, <1>5
  <2>2. Cardinality(Higher(m)) <= Cardinality(Higher(n))
        /\ Cardinality(Higher(m)) # Cardinality(Higher(n))
    BY <2>1, <1>1, FS_Subset
  <2>3. Cardinality(Higher(m)) \in C
    BY <1>5
  <2>4. Cardinality(Higher(n)) <= Cardinality(Higher(m))
    BY <2>3, <1>3, <1>4
  <2> QED BY <1>1, <2>2, <2>4, <1>5
<1>6. \A m \in S : ~(m > n)
  BY <1>5
<1> QED BY <1>6

LEMMA MinIs ==
    ASSUME NEW S \in SUBSET Nat, S # {}
    PROVE  Min(S) \in S /\ \A n \in S : Min(S) <= n
BY NatMin DEF Min

LEMMA MaxIs ==
    ASSUME NEW S \in SUBSET Nat, S # {}, IsFiniteSet(S)
    PROVE  Max(S) \in S /\ \A n \in S : Max(S) >= n
BY NatMax DEF Max

-----------------------------------------------------------------------------
(* Two workbooks                                                           *)

LEMMA BookShape ==
    ASSUME NEW b \in Books
    PROVE  /\ Len(b) \in Nat /\ DOMAIN b = 1 .. Len(b)
           /\ \A i \in DOMAIN b : Numbered(b[i]) /\ \A r \in DOMAIN b[i] : Numbered(b[i][r])
<1>1. PICK V : b \in Seq(V)
  BY ExcelCompareAssumption
<1>2. Len(b) \in Nat /\ DOMAIN b = 1 .. Len(b)
  BY <1>1
<1> QED BY <1>2, ExcelCompareAssumption

\* What is numbered lies between the first and the last number
LEMMA Between ==
    ASSUME NEW f, Numbered(f), NEW n \in DOMAIN f
    PROVE  n \in Min(DOMAIN f) .. Max(DOMAIN f) /\ n \in Min(DOMAIN f) .. (Max(DOMAIN f) + 1)
<1> DEFINE D == DOMAIN f
<1>1. D \in SUBSET Nat /\ D # {} /\ IsFiniteSet(D) /\ n \in D
  BY DEF Numbered
<1>2. Min(D) \in Nat /\ Min(D) <= n
  BY <1>1, MinIs
<1>3. Max(D) \in Nat /\ Max(D) >= n
  BY <1>1, MaxIs
<1> QED BY <1>1, <1>2, <1>3

(***************************************************************************)
(* compareSnapshots returns PASS only if each value of the first workbook  *)
(* is at the same place of the second.                                     *)
(***************************************************************************)
LEMMA PassAgrees ==
    ASSUME NEW w1 \in Books, NEW w2 \in Books, Compared(w1, w2) = "PASS"
    PROVE  \A p \in Places(w1) : SameAt(w1, w2, p)
<1>1. Len(w1) <= Len(w2) /\ \A i \in DOMAIN w1 : SheetsAgree(w1[i], w2[i])
  BY BookShape DEF Compared, None
<1>2. SUFFICES ASSUME NEW i \in DOMAIN w1, NEW r \in DOMAIN w1[i], NEW k \in DOMAIN w1[i][r]
               PROVE  SameAt(w1, w2, <<i, r, k>>)
  BY DEF Places
<1>3. i \in DOMAIN w2 /\ Numbered(w1[i]) /\ Numbered(w1[i][r])
  BY <1>1, BookShape
<1>4. r \in RowNumbers(w1[i])
  BY <1>3, Between DEF RowNumbers
<1>5. r \in DOMAIN w2[i] /\ RowsAgree(w1[i][r], w2[i][r])
  BY <1>1, <1>4 DEF SheetsAgree
<1>6. CellsAgree(w1[i][r], w2[i][r], k)
  BY <1>3, <1>5, Between DEF RowsAgree
<1>7. /\ k \in DOMAIN w2[i][r]
      /\ w1[i][r][k] = w2[i][r][k] \/ {w1[i][r][k], w2[i][r][k]} \subseteq Spaces
  BY <1>6 DEF CellsAgree
<1>8. Value(w1, <<i, r, k>>) = {w1[i][r][k]} /\ Value(w2, <<i, r, k>>) = {w2[i][r][k]}
  BY <1>3, <1>5, <1>7 DEF Value
<1> QED BY <1>7, <1>8 DEF SameAt

(***************************************************************************)
(* It returns FAIL only if they differ at a place, or in the rows there    *)
(* are.                                                                    *)
(***************************************************************************)
LEMMA FailDiffers ==
    ASSUME NEW w1 \in Books, NEW w2 \in Books, Compared(w1, w2) = "FAIL"
    PROVE  \/ \E p \in Places(w1) \cup Places(w2) : ~SameAt(w1, w2, p)
           \/ \E i \in DOMAIN w1 : DOMAIN w1[i] # DOMAIN w2[i]
<1>1. Len(w1) <= Len(w2) /\ ~\A i \in DOMAIN w1 : SheetsAgree(w1[i], w2[i])
  BY BookShape DEF Compared, None
<1>2. PICK i \in DOMAIN w1 : ~SheetsAgree(w1[i], w2[i])
  BY <1>1
<1>3. i \in DOMAIN w2
  BY <1>1, BookShape
<1>4. SUFFICES ASSUME DOMAIN w1[i] = DOMAIN w2[i]
               PROVE  \E p \in Places(w1) \cup Places(w2) : ~SameAt(w1, w2, p)
  BY <1>2
<1>5. PICK r \in DOMAIN w1[i] : r \in DOMAIN w2[i] /\ ~RowsAgree(w1[i][r], w2[i][r])
  BY <1>2, <1>4 DEF SheetsAgree
<1>6. PICK k : ~CellsAgree(w1[i][r], w2[i][r], k)
  BY <1>5 DEF RowsAgree
<1> DEFINE p == <<i, r, k>>
<1>7. CASE k \in DOMAIN w1[i][r] /\ k \in DOMAIN w2[i][r]
  <2>1. Value(w1, p) = {w1[i][r][k]} /\ Value(w2, p) = {w2[i][r][k]} /\ p \in Places(w1)
    BY <1>3, <1>5, <1>7 DEF Value, Places
  <2>2. w1[i][r][k] # w2[i][r][k] /\ ~({w1[i][r][k], w2[i][r][k]} \subseteq Spaces)
    BY <1>6, <1>7 DEF CellsAgree
  <2> HIDE DEF p
  <2> QED BY <2>1, <2>2 DEF SameAt
<1>8. CASE k \in DOMAIN w1[i][r] /\ k \notin DOMAIN w2[i][r]
  <2>1. Value(w1, p) # {} /\ Value(w2, p) = {} /\ p \in Places(w1)
    BY <1>3, <1>5, <1>8 DEF Value, Places
  <2> HIDE DEF p
  <2> QED BY <2>1 DEF SameAt
<1>9. CASE k \notin DOMAIN w1[i][r] /\ k \in DOMAIN w2[i][r]
  <2>1. Value(w1, p) = {} /\ Value(w2, p) # {} /\ p \in Places(w2)
    BY <1>3, <1>5, <1>9 DEF Value, Places
  <2> HIDE DEF p
  <2> QED BY <2>1 DEF SameAt
<1> QED BY <1>6, <1>7, <1>8, <1>9 DEF CellsAgree

-----------------------------------------------------------------------------
(* The inductive invariant                                                 *)

\* Where main is, and what it has in hand there
Placed ==
    /\ pc \in {"cases", "files", "missing"} => suite \in DOMAIN source
    /\ IF pc \in {"cases", "files"} THEN cases \subseteq DOMAIN source[suite] ELSE cases = {}
    /\ pc = "files" =>
          /\ case \in DOMAIN source[suite] \ cases
          /\ Baselines(case) # {} /\ dir = Min(Baselines(case))
          /\ sourceTC # None
    /\ pc = "aborted" => sourceTC = None
    /\ pc = "done" => \A s \in DOMAIN source : s <= suite
    /\ pc \notin {"missing", "aborted"} => basecases = {}
    /\ basecases # {} => suite \in DOMAIN base /\ basecases \subseteq DOMAIN base[suite]

\* sourceTC and exportTCName are names of test cases met so far
FromSource ==
    \A c \in {sourceTC, exportTCName} :
        c # None => \E u \in DOMAIN source : u <= suite /\ c \in DOMAIN source[u]

\* While sourceTC is null no test case met so far has a baseline
NoneFound ==
    sourceTC = None => \A s \in DOMAIN source : s <= suite =>
        \A c \in DOMAIN source[s] : Baselines(c) = {} \/ (s = suite /\ c \in cases)

\* Still to be compared, as far as main has got
Ahead(e) == e.suite = suite /\ (e.case \in cases \/ (pc = "files" /\ e.case = case /\ e.file \in files))

\* A verdict is one row, alone for its workbook, which is behind
VerdictIsBehind ==
    \A e \in Rows : e.result \in Verdicts =>
        /\ e.suite \in DOMAIN source /\ e.suite <= suite /\ ~Ahead(e)
        /\ report[e] = 1
        /\ \A d \in Rows : (d.result \in Verdicts /\ d.suite = e.suite /\ d.case = e.case
                            /\ d.file = e.file) => d = e

\* The last conjunct of VerdictIsDeserved
Deserved(e) ==
    \E s \in Baselines(e.case) : e.file \in DOMAIN base[s][e.case] /\
        LET w1 == Book(e)
            w2 == base[s][e.case][e.file]
        IN IF e.result = "PASS" THEN \A p \in Places(w1) : SameAt(w1, w2, p)
           ELSE \/ \E p \in Places(w1) \cup Places(w2) : ~SameAt(w1, w2, p)
                \/ \E i \in DOMAIN w1 : DOMAIN w1[i] # DOMAIN w2[i]

AllDeserved == \A e \in Rows : e.result \in Verdicts => Deserved(e)

HasRow(s, c) == \E e \in Rows : e.suite = s /\ e.case = c

\* The workbook makes no row
Incomparable(s, c, f) ==
    LET b == base[Min(Baselines(c))][c]
    IN f \notin DOMAIN b \/ Compared(source[s][c][f], b[f]) = None

\* The workbooks of a test case that are still ahead
Left(s, c) == IF pc = "files" /\ s = suite /\ c = case THEN files ELSE {}

\* Every test case behind has a row, or no workbook that makes one
BehindIsReported ==
    \A s \in DOMAIN source : s <= suite => \A c \in DOMAIN source[s] :
        \/ s = suite /\ c \in cases
        \/ HasRow(s, c)
        \/ Baselines(c) # {} /\ \A f \in DOMAIN source[s][c] \ Left(s, c) : Incomparable(s, c, f)

\* A test case reported as missing is, and is behind
MissingIsBehind ==
    \A e \in Rows : e.result = Missing =>
        /\ e.suite <= suite
        /\ e.suite = suite => pc \notin {"cases", "files"} /\ e.case \notin basecases
        /\ e.case \notin DOMAIN source[e.suite]
        /\ e.case \in DOMAIN base[e.suite]
        /\ <<e.suite, e.case>> \notin world.passed
        /\ report[e] = 1

\* Why a test case of the baseline needs no row, or its row
Accounted(s, c) ==
    \/ c \in DOMAIN source[s] \/ DOMAIN source[s] = {} \/ <<s, c>> \in world.passed
    \/ \E u \in DOMAIN source : u < s /\ c \in DOMAIN source[u]
    \/ \E e \in Rows : e.suite = s /\ e.case = c /\ e.result = Missing

\* Every test case of the baseline of a suite behind is accounted for
BehindIsAccounted ==
    pc # "aborted" => \A s \in DOMAIN source \cap DOMAIN base : s <= suite => \A c \in DOMAIN base[s] :
        \/ s = suite /\ (pc \in {"cases", "files"} \/ c \in basecases)
        \/ Accounted(s, c)

IInv ==
    /\ world \in Worlds
    /\ TypeOK /\ Placed /\ FromSource /\ NoneFound
    /\ VerdictIsBehind /\ AllDeserved
    /\ BehindIsReported /\ MissingIsBehind /\ BehindIsAccounted

-----------------------------------------------------------------------------
(* Rows                                                                    *)

LEMMA BagAdds ==
    ASSUME NEW b, NEW c
    PROVE  /\ DOMAIN (b (+) c) = DOMAIN b \cup DOMAIN c
           /\ \A d \in DOMAIN b \ DOMAIN c : b[d] = 1 => (b (+) c)[d] = 1
           /\ \A d \in DOMAIN c \ DOMAIN b : c[d] = 1 => (b (+) c)[d] = 1
BY DEF (+)

LEMMA WriteAdds ==
    ASSUME NEW c, NEW f, NEW r, Write(c, f, r)
    PROVE  /\ Rows' = Rows \cup {Entry(c, f, r)}
           /\ \A d \in Rows : d # Entry(c, f, r) /\ report[d] = 1 => report'[d] = 1
           /\ Entry(c, f, r) \notin Rows => report'[Entry(c, f, r)] = 1
<1> DEFINE e == Entry(c, f, r)
<1>1. DOMAIN SetToBag({e}) = {e} /\ SetToBag({e})[e] = 1
  BY DEF SetToBag
<1>2. report' = report (+) SetToBag({e})
  BY DEF Write
<1> HIDE DEF e
<1> QED BY <1>1, <1>2, BagAdds DEF Rows, BagToSet, e

\* checkFiles adds no row but those of workbooks that are not found
LEMMA PairsAdd ==
    ASSUME NEW c, CheckFiles(c), pc = "missing", InSource(c)
    PROVE  /\ Rows \subseteq Rows'
           /\ \A e \in Rows' \ Rows : /\ e.result = FileMissing /\ e.suite = suite
                                       /\ e.case = c /\ e.file \in DOMAIN base[suite][c]
                                       /\ e = Entry(c, e.file, FileMissing)
           /\ \A d \in Rows : d.result # FileMissing /\ report[d] = 1 => report'[d] = 1
<1> DEFINE N == OtherPairs(c)
<1>1. \A e \in DOMAIN N : \E f \in DOMAIN base[suite][c] : e = Entry(c, f, FileMissing)
  BY DEF OtherPairs, EmptyBag, SetToBag, FileMissing
<1>2. \A e \in DOMAIN N : /\ e.result = FileMissing /\ e.suite = suite
                          /\ e.case = c /\ e.file \in DOMAIN base[suite][c]
                          /\ e = Entry(c, e.file, FileMissing)
  BY <1>1 DEF Entry
<1>3. report' = report (+) N
  BY DEF CheckFiles
<1> HIDE DEF N
<1>4. /\ Rows' = Rows \cup DOMAIN N
      /\ \A d \in Rows \ DOMAIN N : report[d] = 1 => report'[d] = 1
  BY <1>3, BagAdds DEF Rows, BagToSet
<1> QED BY <1>2, <1>4

LEMMA BaselinesHaveFirst ==
    ASSUME world \in Worlds, NEW c, Baselines(c) # {}
    PROVE  Min(Baselines(c)) \in Baselines(c)
<1>1. Baselines(c) \in SUBSET Nat
  BY ExcelCompareAssumption DEF Baselines, IsTree, base, Suites
<1> QED BY <1>1, MinIs

\* The directories in hand
LEMMA WorldShape ==
    ASSUME world \in Worlds
    PROVE  /\ DOMAIN source \subseteq Suites /\ DOMAIN base \subseteq Suites
           /\ \A s \in DOMAIN source : DOMAIN source[s] \subseteq Cases
           /\ \A s \in DOMAIN base : DOMAIN base[s] \subseteq Cases
           /\ \A s \in DOMAIN source : \A c \in DOMAIN source[s] :
                 /\ DOMAIN source[s][c] \subseteq Files
                 /\ \A f \in DOMAIN source[s][c] : source[s][c][f] \in Books
           /\ \A s \in DOMAIN base : \A c \in DOMAIN base[s] :
                 /\ DOMAIN base[s][c] \subseteq Files
                 /\ \A f \in DOMAIN base[s][c] : base[s][c][f] \in Books
BY ExcelCompareAssumption DEF IsTree, source, base

LEMMA InitIInv == Init => IInv
<1> SUFFICES ASSUME Init PROVE IInv
  OBVIOUS
<1>1. Rows = {}
  BY DEF Init, Rows, BagToSet, EmptyBag, SetToBag
<1>2. \A s \in DOMAIN source : ~(s <= suite)
  BY WorldShape, ExcelCompareAssumption DEF Init, Suites
<1>3. TypeOK
  BY <1>1, WorldShape DEF Init, TypeOK
<1>4. Placed /\ FromSource /\ NoneFound
  BY <1>2 DEF Init, Placed, FromSource, NoneFound
<1>5. VerdictIsBehind /\ AllDeserved /\ MissingIsBehind
  BY <1>1 DEF VerdictIsBehind, AllDeserved, MissingIsBehind
<1>6. BehindIsReported /\ BehindIsAccounted
  BY <1>2 DEF BehindIsReported, BehindIsAccounted
<1> QED BY <1>3, <1>4, <1>5, <1>6 DEF IInv, Init

-----------------------------------------------------------------------------
(* The steps                                                               *)

LEMMA SameWorld ==
    ASSUME world' = world
    PROVE  /\ source' = source /\ base' = base
           /\ \A c : Baselines(c)' = Baselines(c)
           /\ \A s, c, f : Incomparable(s, c, f)' = Incomparable(s, c, f)
           /\ \A e : Deserved(e)' = Deserved(e)
<1>1. source' = source /\ base' = base
  BY DEF source, base
<1>2. \A c : Baselines(c)' = Baselines(c)
  BY <1>1 DEF Baselines
<1>3. \A s, c, f : Incomparable(s, c, f)' = Incomparable(s, c, f)
  BY <1>1, <1>2 DEF Incomparable
<1>4. \A e : Deserved(e)' = Deserved(e)
  BY <1>1, <1>2 DEF Deserved, Book
<1> QED BY <1>1, <1>2, <1>3, <1>4

LEMMA WorldStep == Next => world' = world
BY DEF Next, StartSuite, EndMain, EndCase, BeginMissing, EndSuite, FoundBase, NoBase, CheckFiles,
       Abort, ReportMissing, CompareFile

LEMMA TypeStep ==
    ASSUME IInv, [Next]_vars
    PROVE  TypeOK'
<1> USE DEF IInv, TypeOK, Placed, Goto
<1>1. CASE StartSuite
  BY <1>1, SameWorld, WorldShape DEF StartSuite, Rows
<1>2. CASE EndMain \/ EndCase \/ EndSuite
  BY <1>2, SameWorld DEF EndMain, EndCase, EndSuite, Rows
<1>3. CASE BeginMissing
  <2>1. basecases' \subseteq Cases
    BY <1>3, WorldShape DEF BeginMissing
  <2> QED BY <1>3, <2>1, SameWorld DEF BeginMissing, Rows
<1>4. ASSUME NEW c \in Cases, FoundBase(c) PROVE TypeOK'
  <2>1. Rows' \subseteq Rows \cup {Entry(c, None, FileMissing)}
    BY <1>4, WriteAdds DEF FoundBase, Rows, FileMissing
  <2>2. suite \in Suites /\ dir' \in DOMAIN base /\ c \in DOMAIN base[dir'] /\ c \in DOMAIN source[suite]
    BY <1>4, WorldShape, BaselinesHaveFirst DEF FoundBase, Baselines
  <2>3. Entry(c, None, FileMissing) \in [suite : Suites, case : Cases, file : Files \cup {None}, result : Results]
    BY <2>2 DEF Entry, Results
  <2>4. files' \subseteq Files /\ files' \subseteq DOMAIN source[suite][c]
    BY <1>4, <2>2, WorldShape DEF FoundBase
  <2> HIDE DEF FileMissing
  <2> QED BY <1>4, <2>1, <2>2, <2>3, <2>4, SameWorld DEF FoundBase
<1>5. ASSUME NEW c \in Cases, NoBase(c) PROVE TypeOK'
  <2> DEFINE e == Entry(c, None, "Not found in Base directory")
  <2>1. Rows' = Rows \cup {e}
    BY <1>5, WriteAdds DEF NoBase
  <2>2. e \in [suite : Suites, case : Cases, file : Files \cup {None}, result : Results]
    BY <1>5, WorldShape DEF Entry, Results, NoBase
  <2> HIDE DEF e
  <2> QED BY <1>5, <2>1, <2>2, SameWorld DEF NoBase
<1>6. ASSUME NEW c \in Cases, CheckFiles(c) PROVE TypeOK'
  <2>1. \A e \in Rows' \ Rows :
            e \in [suite : Suites, case : Cases, file : Files \cup {None}, result : Results]
    <3> SUFFICES ASSUME NEW e \in Rows' \ Rows
                 PROVE  e \in [suite : Suites, case : Cases, file : Files \cup {None}, result : Results]
      OBVIOUS
    <3>1. /\ e.file \in DOMAIN base[suite][c] /\ e = Entry(c, e.file, FileMissing)
      BY <1>6, PairsAdd DEF CheckFiles
    <3>2. e.file \in Files /\ suite \in Suites
      BY <1>6, <3>1, WorldShape DEF CheckFiles
    <3>3. FileMissing \in Results
      BY DEF FileMissing, Results
    <3> QED BY <3>1, <3>2, <3>3 DEF Entry
  <2>2. Rows' \subseteq [suite : Suites, case : Cases, file : Files \cup {None}, result : Results]
    BY <2>1
  <2> QED BY <1>6, <2>2, SameWorld DEF CheckFiles
<1>7. ASSUME NEW c \in Cases, Abort(c) PROVE TypeOK'
  BY <1>7, SameWorld DEF Abort, Rows
<1>8. ASSUME NEW c \in Cases, ReportMissing(c) PROVE TypeOK'
  <2> DEFINE e == Entry(c, None, Missing)
  <2>1. Rows' \subseteq Rows \cup {e}
    BY <1>8, WriteAdds DEF ReportMissing, Rows, Missing
  <2>2. e \in [suite : Suites, case : Cases, file : Files \cup {None}, result : Results]
    BY <1>8, WorldShape DEF Entry, Results, ReportMissing
  <2> HIDE DEF e
  <2> QED BY <1>8, <2>1, <2>2, SameWorld DEF ReportMissing
<1>9. ASSUME NEW f \in Files, CompareFile(f) PROVE TypeOK'
  <2>1. \E r \in Verdicts : Rows' \subseteq Rows \cup {Entry(case, f, r)}
    <3> DEFINE result == IF f \in DOMAIN base[dir][case]
                         THEN Compared(source[suite][case][f], base[dir][case][f]) ELSE None
    <3>1. result \in Verdicts \cup {None}
      BY DEF Compared, Verdicts
    <3>2. IF result = None THEN report' = report ELSE Write(case, f, result)
      BY <1>9 DEF CompareFile
    <3> HIDE DEF result
    <3>3. CASE result = None
      BY <3>2, <3>3 DEF Rows, Verdicts
    <3>4. CASE result # None
      BY <3>1, <3>2, <3>4, WriteAdds
    <3> QED BY <3>3, <3>4
  <2>2. \A r \in Verdicts : Entry(case, f, r) \in [suite : Suites, case : Cases, file : Files \cup {None}, result : Results]
    <3>1. suite \in Suites /\ case \in Cases
      BY <1>9, WorldShape DEF CompareFile
    <3> QED BY <3>1 DEF Entry, Results
  <2>3. Rows' \subseteq [suite : Suites, case : Cases, file : Files \cup {None}, result : Results]
    BY <2>1, <2>2
  <2> QED BY <1>9, <2>3, SameWorld DEF CompareFile
<1>10. CASE UNCHANGED vars
  BY <1>10, SameWorld DEF vars, Rows
<1> QED BY <1>1, <1>2, <1>3, <1>4, <1>5, <1>6, <1>7, <1>8, <1>9, <1>10 DEF Next

LEMMA PlacedStep ==
    ASSUME IInv, [Next]_vars
    PROVE  Placed'
<1> USE DEF IInv, Placed, Goto
<1>1. CASE StartSuite
  BY <1>1, SameWorld DEF StartSuite
<1>2. CASE EndMain \/ EndCase \/ EndSuite
  BY <1>2, SameWorld DEF EndMain, EndCase, EndSuite
<1>3. CASE BeginMissing
  BY <1>3, SameWorld DEF BeginMissing
<1>4. ASSUME NEW c \in Cases, FoundBase(c) PROVE Placed'
  BY <1>4, SameWorld, ExcelCompareAssumption DEF FoundBase
<1>5. ASSUME NEW c \in Cases, NoBase(c) \/ CheckFiles(c) \/ Abort(c) \/ ReportMissing(c) PROVE Placed'
  BY <1>5, SameWorld DEF NoBase, CheckFiles, Abort, ReportMissing
<1>6. ASSUME NEW f \in Files, CompareFile(f) PROVE Placed'
  BY <1>6, SameWorld DEF CompareFile
<1>7. CASE UNCHANGED vars
  BY <1>7, SameWorld DEF vars
<1> QED BY <1>1, <1>2, <1>3, <1>4, <1>5, <1>6, <1>7 DEF Next

LEMMA FromSourceStep ==
    ASSUME IInv, [Next]_vars
    PROVE  FromSource'
<1> USE DEF IInv, FromSource
<1>1. CASE StartSuite
  <2>1. suite < suite' /\ suite \in Int /\ suite' \in Int
    BY <1>1, WorldShape, ExcelCompareAssumption DEF StartSuite, TypeOK, Suites
  <2>2. \A u \in DOMAIN source : u \in Int
    BY WorldShape, ExcelCompareAssumption DEF Suites
  <2> QED BY <1>1, <2>1, <2>2, SameWorld DEF StartSuite
<1>2. ASSUME NEW c \in Cases, FoundBase(c) PROVE FromSource'
  <2>1. suite \in DOMAIN source /\ c \in DOMAIN source[suite]
    BY <1>2 DEF FoundBase, Placed
  <2>2. suite <= suite
    BY <2>1, WorldShape, ExcelCompareAssumption DEF Suites
  <2> QED BY <1>2, <2>1, <2>2, SameWorld DEF FoundBase
<1>3. CASE UNCHANGED <<world, suite, sourceTC, exportTCName>>
  BY <1>3, SameWorld
<1> QED BY <1>1, <1>2, <1>3 DEF Next, EndMain, EndCase, EndSuite, BeginMissing, NoBase, CheckFiles,
                Abort, ReportMissing, CompareFile, vars

LEMMA NoneFoundStep ==
    ASSUME IInv, [Next]_vars
    PROVE  NoneFound'
<1> USE DEF IInv, NoneFound
<1>1. CASE StartSuite
  <2>1. \A s \in DOMAIN source : s <= suite' => s <= suite \/ s = suite'
    BY <1>1, WorldShape, ExcelCompareAssumption DEF StartSuite, TypeOK, Suites
  <2>2. cases' = DOMAIN source[suite'] /\ cases = {}
    BY <1>1 DEF StartSuite, Placed
  <2> QED BY <1>1, <2>1, <2>2, SameWorld DEF StartSuite
<1>2. ASSUME NEW c \in Cases, FoundBase(c) PROVE NoneFound'
  BY <1>2, ExcelCompareAssumption DEF FoundBase
<1>3. ASSUME NEW c \in Cases, NoBase(c) PROVE NoneFound'
  BY <1>3, SameWorld DEF NoBase
<1>4. CASE UNCHANGED <<world, suite, cases, sourceTC>>
  BY <1>4, SameWorld
<1> QED BY <1>1, <1>2, <1>3, <1>4 DEF Next, EndMain, EndCase, EndSuite, BeginMissing, CheckFiles,
                Abort, ReportMissing, CompareFile, vars

\* compareSnapshots makes a row with the verdict, or none
LEMMA CompareFileWrites ==
    ASSUME IInv, NEW f, CompareFile(f)
    PROVE  \/ report' = report /\ Incomparable(suite, case, f)
           \/ \E r \in Verdicts :
                 /\ Write(case, f, r)
                 /\ f \in DOMAIN base[dir][case]
                 /\ Compared(source[suite][case][f], base[dir][case][f]) = r
<1> DEFINE result == IF f \in DOMAIN base[dir][case]
                     THEN Compared(source[suite][case][f], base[dir][case][f]) ELSE None
<1>1. result \in Verdicts \cup {None}
  BY DEF Compared, Verdicts
<1>2. IF result = None THEN report' = report ELSE Write(case, f, result)
  BY DEF CompareFile
<1>3. dir = Min(Baselines(case))
  BY DEF CompareFile, IInv, Placed
<1>4. CASE result = None
  BY <1>2, <1>3, <1>4 DEF Incomparable, Verdicts
<1>5. CASE result # None
  <2>1. f \in DOMAIN base[dir][case] /\ Compared(source[suite][case][f], base[dir][case][f]) = result
    BY <1>5
  <2> HIDE DEF result
  <2> QED BY <1>1, <1>2, <1>5, <2>1
<1> QED BY <1>4, <1>5

\* No row with one of the results R is added or counted again
Keeps(R) ==
    /\ Rows \subseteq Rows'
    /\ \A e \in Rows' : e.result \in R => e \in Rows /\ (report[e] = 1 => report'[e] = 1)

LEMMA WriteKeeps ==
    ASSUME NEW R, NEW c, NEW f, NEW r, Write(c, f, r), r \notin R
    PROVE  Keeps(R)
<1>1. Entry(c, f, r).result = r
  BY DEF Entry
<1> QED BY <1>1, WriteAdds DEF Keeps

LEMMA VerdictsAreKept ==
    ASSUME IInv, [Next]_vars, ~\E f \in Files : CompareFile(f)
    PROVE  Keeps(Verdicts)
<1> USE DEF Verdicts
<1>1. CASE UNCHANGED report
  BY <1>1 DEF Keeps, Rows
<1>2. ASSUME NEW c \in Cases, FoundBase(c) PROVE Keeps(Verdicts)
  <2>1. CASE Write(c, None, FileMissing)
    BY <2>1, WriteKeeps DEF FileMissing
  <2> QED BY <1>1, <1>2, <2>1 DEF FoundBase, FileMissing
<1>3. ASSUME NEW c \in Cases, NoBase(c) PROVE Keeps(Verdicts)
  BY <1>3, WriteKeeps DEF NoBase
<1>4. ASSUME NEW c \in Cases, CheckFiles(c) PROVE Keeps(Verdicts)
  BY <1>4, PairsAdd DEF CheckFiles, Keeps, FileMissing
<1>5. ASSUME NEW c \in Cases, ReportMissing(c) PROVE Keeps(Verdicts)
  <2>1. CASE Write(c, None, Missing)
    BY <2>1, WriteKeeps DEF Missing
  <2> QED BY <1>1, <1>5, <2>1 DEF ReportMissing, Missing
<1> QED BY <1>1, <1>2, <1>3, <1>4, <1>5 DEF Next, StartSuite, EndMain, EndCase, EndSuite, BeginMissing,
                Abort, vars

LEMMA MissingAreKept ==
    ASSUME IInv, [Next]_vars, ~\E c \in Cases : ReportMissing(c)
    PROVE  Keeps({Missing})
<1>1. CASE UNCHANGED report
  BY <1>1 DEF Keeps, Rows
<1>2. ASSUME NEW c \in Cases, FoundBase(c) PROVE Keeps({Missing})
  <2>1. CASE Write(c, None, FileMissing)
    <3>1. FileMissing \notin {Missing}
      BY DEF FileMissing, Missing
    <3> QED BY <2>1, <3>1, WriteKeeps
  <2> QED BY <1>1, <1>2, <2>1 DEF FoundBase, FileMissing
<1>3. ASSUME NEW c \in Cases, NoBase(c) PROVE Keeps({Missing})
  <2>1. "Not found in Base directory" \notin {Missing}
    BY DEF Missing
  <2> QED BY <1>3, <2>1, WriteKeeps DEF NoBase
<1>4. ASSUME NEW c \in Cases, CheckFiles(c) PROVE Keeps({Missing})
  BY <1>4, PairsAdd DEF CheckFiles, Keeps, FileMissing, Missing
<1>5. ASSUME NEW f \in Files, CompareFile(f) PROVE Keeps({Missing})
  <2>1. ASSUME NEW r \in Verdicts, Write(case, f, r) PROVE Keeps({Missing})
    BY <2>1, WriteKeeps DEF Verdicts, Missing
  <2> QED BY <1>1, <1>5, <2>1, CompareFileWrites
<1> QED BY <1>1, <1>2, <1>3, <1>4, <1>5 DEF Next, StartSuite, EndMain, EndCase, EndSuite, BeginMissing,
                Abort, vars

\* What was behind stays behind
LEMMA BehindStays ==
    ASSUME IInv, [Next]_vars,
           NEW e, e.suite \in DOMAIN source, e.suite <= suite, ~Ahead(e)
    PROVE  e.suite <= suite' /\ ~Ahead(e)'
<1> USE DEF IInv, Ahead, Goto
<1>1. CASE StartSuite
  <2>1. suite \in Int /\ suite' \in Int /\ suite < suite' /\ e.suite \in Int
    BY <1>1, WorldShape, ExcelCompareAssumption DEF StartSuite, TypeOK, Suites
  <2> QED BY <1>1, <2>1 DEF StartSuite
<1>2. CASE EndMain \/ EndCase \/ EndSuite
  BY <1>2 DEF EndMain, EndCase, EndSuite
<1>3. CASE BeginMissing
  BY <1>3 DEF BeginMissing
<1>4. ASSUME NEW c \in Cases, FoundBase(c) PROVE e.suite <= suite' /\ ~Ahead(e)'
  BY <1>4 DEF FoundBase
<1>5. ASSUME NEW c \in Cases, NoBase(c) \/ CheckFiles(c) \/ Abort(c) \/ ReportMissing(c)
      PROVE e.suite <= suite' /\ ~Ahead(e)'
  BY <1>5 DEF NoBase, CheckFiles, Abort, ReportMissing
<1>6. ASSUME NEW f \in Files, CompareFile(f) PROVE e.suite <= suite' /\ ~Ahead(e)'
  BY <1>6 DEF CompareFile
<1>7. CASE UNCHANGED vars
  BY <1>7 DEF vars
<1> QED BY <1>1, <1>2, <1>3, <1>4, <1>5, <1>6, <1>7 DEF Next

LEMMA VerdictStep ==
    ASSUME IInv, [Next]_vars
    PROVE  VerdictIsBehind'
<1>1. \A e \in Rows : e.result \in Verdicts =>
        /\ e.suite \in DOMAIN source /\ e.suite <= suite /\ ~Ahead(e)
        /\ report[e] = 1
        /\ \A d \in Rows : (d.result \in Verdicts /\ d.suite = e.suite /\ d.case = e.case
                            /\ d.file = e.file) => d = e
  BY DEF IInv, VerdictIsBehind
<1>2. source' = source
  BY WorldStep, SameWorld DEF vars
<1>3. \A e \in Rows : e.result \in Verdicts => e.suite <= suite' /\ ~Ahead(e)'
  BY <1>1, BehindStays
<1>4. CASE ~\E f \in Files : CompareFile(f)
  BY <1>1, <1>2, <1>3, <1>4, VerdictsAreKept DEF VerdictIsBehind, Keeps
<1>5. ASSUME NEW f \in Files, CompareFile(f) PROVE VerdictIsBehind'
  <2>1. CASE report' = report
    BY <1>1, <1>2, <1>3, <2>1 DEF VerdictIsBehind, Rows
  <2>2. ASSUME NEW r \in Verdicts, Write(case, f, r) PROVE VerdictIsBehind'
    <3>0. PICK new : new = Entry(case, f, r)
      OBVIOUS
    <3>1. new.suite = suite /\ new.case = case /\ new.file = f /\ new.result = r
      BY <3>0 DEF Entry
    <3>2. Ahead(new) /\ suite \in DOMAIN source /\ suite' = suite
      BY <1>5, <3>1 DEF CompareFile, Ahead, IInv, Placed
    <3>3. suite <= suite /\ ~Ahead(new)'
      <4>1. suite <= suite
        BY <3>2, WorldShape, ExcelCompareAssumption DEF Suites, IInv
      <4>2. case \notin cases' /\ case' = case /\ files' = files \ {f}
        BY <1>5 DEF CompareFile, IInv, Placed
      <4> QED BY <3>1, <4>1, <4>2 DEF Ahead
    <3>4. \A d \in Rows : ~(d.result \in Verdicts /\ d.suite = suite /\ d.case = case /\ d.file = f)
      BY <1>1, <3>1, <3>2 DEF Ahead
    <3>5. new \notin Rows
      BY <3>1, <3>4
    <3>6. /\ Rows' = Rows \cup {new}
          /\ \A d \in Rows : report[d] = 1 => report'[d] = 1
          /\ report'[new] = 1
      BY <2>2, <3>0, <3>5, WriteAdds
    <3>7. ASSUME NEW e \in Rows', e.result \in Verdicts
          PROVE  /\ e.suite \in DOMAIN source /\ e.suite <= suite' /\ ~Ahead(e)'
                 /\ report'[e] = 1
                 /\ \A d \in Rows' : (d.result \in Verdicts /\ d.suite = e.suite /\ d.case = e.case
                                      /\ d.file = e.file) => d = e
      <4>1. CASE e = new
        BY <3>1, <3>2, <3>3, <3>4, <3>6, <4>1
      <4>2. CASE e \in Rows
        BY <1>1, <1>3, <3>1, <3>4, <3>6, <3>7, <4>2
      <4> QED BY <3>6, <4>1, <4>2
    <3> QED BY <1>2, <3>7 DEF VerdictIsBehind
  <2> QED BY <1>5, <2>1, <2>2, CompareFileWrites
<1> QED BY <1>4, <1>5

LEMMA DeservedStep ==
    ASSUME IInv, [Next]_vars
    PROVE  AllDeserved'
<1>1. \A e : Deserved(e)' = Deserved(e)
  BY WorldStep, SameWorld DEF vars
<1>2. \A e \in Rows : e.result \in Verdicts => Deserved(e)
  BY DEF IInv, AllDeserved
<1>3. CASE ~\E f \in Files : CompareFile(f)
  BY <1>1, <1>2, <1>3, VerdictsAreKept DEF AllDeserved, Keeps
<1>4. ASSUME NEW f \in Files, CompareFile(f) PROVE AllDeserved'
  <2>1. CASE report' = report
    BY <1>1, <1>2, <2>1 DEF AllDeserved, Rows
  <2>2. ASSUME NEW r \in Verdicts, Write(case, f, r),
               f \in DOMAIN base[dir][case],
               Compared(source[suite][case][f], base[dir][case][f]) = r
        PROVE  AllDeserved'
    <3> DEFINE new == Entry(case, f, r)
               w1 == source[suite][case][f]
               w2 == base[dir][case][f]
    <3>1. new.suite = suite /\ new.case = case /\ new.file = f /\ new.result = r
      BY DEF Entry
    <3>2. Rows' = Rows \cup {new}
      BY <2>2, WriteAdds
    <3>3. pc = "files" /\ f \in files /\ case \in DOMAIN source[suite] /\ suite \in DOMAIN source
          /\ files \subseteq DOMAIN source[suite][case]
      BY <1>4 DEF CompareFile, IInv, Placed, TypeOK
    <3>4. dir \in Baselines(case)
      BY <3>3, BaselinesHaveFirst DEF IInv, Placed
    <3>5. w1 \in Books /\ w2 \in Books
      BY <2>2, <3>3, <3>4, WorldShape DEF IInv, Baselines
    <3>6. IF r = "PASS" THEN \A p \in Places(w1) : SameAt(w1, w2, p)
          ELSE \/ \E p \in Places(w1) \cup Places(w2) : ~SameAt(w1, w2, p)
               \/ \E i \in DOMAIN w1 : DOMAIN w1[i] # DOMAIN w2[i]
      BY <2>2, <3>5, PassAgrees, FailDiffers DEF Verdicts
    <3> HIDE DEF new
    <3>7. Deserved(new)
      BY <2>2, <3>1, <3>4, <3>6 DEF Deserved, Book
    <3> QED BY <1>1, <1>2, <3>2, <3>7 DEF AllDeserved
  <2> QED BY <1>4, <2>1, <2>2, CompareFileWrites
<1> QED BY <1>3, <1>4

LEMMA RowsStay ==
    ASSUME IInv, [Next]_vars
    PROVE  Rows \subseteq Rows'
<1>1. ASSUME NEW f \in Files, CompareFile(f) PROVE Rows \subseteq Rows'
  <2>1. CASE report' = report
    BY <2>1 DEF Rows
  <2> QED BY <1>1, <2>1, CompareFileWrites, WriteAdds
<1> QED BY <1>1, VerdictsAreKept DEF Keeps

\* The suites up to the next one
LEMMA SuiteIsNext ==
    ASSUME IInv, StartSuite
    PROVE  /\ suite' \in DOMAIN source /\ suite < suite' /\ suite \in Int /\ suite' \in Int
           /\ \A s \in DOMAIN source : s \in Int /\ (s <= suite' => s <= suite \/ s = suite')
           /\ pc = "suites" /\ pc' = "cases" /\ cases = {} /\ cases' = DOMAIN source[suite']
           /\ basecases = {} /\ basecases' = {}
<1>1. /\ suite' \in DOMAIN source /\ suite < suite'
      /\ \A u \in DOMAIN source : suite < u => suite' <= u
  BY DEF StartSuite
<1>2. suite \in Int /\ \A s \in DOMAIN source : s \in Int
  BY WorldShape, ExcelCompareAssumption DEF IInv, TypeOK, Suites
<1>3. /\ pc = "suites" /\ pc' = "cases" /\ cases = {} /\ cases' = DOMAIN source[suite']
      /\ basecases = {} /\ basecases' = {}
  BY DEF StartSuite, IInv, Placed, Goto
<1> QED BY <1>1, <1>2, <1>3

LEMMA ReportedStep ==
    ASSUME IInv, [Next]_vars
    PROVE  BehindIsReported'
<1>1. ASSUME NEW s, NEW c, HasRow(s, c) PROVE HasRow(s, c)'
  BY <1>1, RowsStay DEF HasRow
<1>2. source' = source /\ (\A c : Baselines(c)' = Baselines(c))
      /\ \A s, c, f : Incomparable(s, c, f)' = Incomparable(s, c, f)
  BY WorldStep, SameWorld DEF vars
<1>3. SUFFICES ASSUME NEW s \in DOMAIN source, s <= suite', NEW c \in DOMAIN source[s]
               PROVE  \/ s = suite' /\ c \in cases'
                      \/ HasRow(s, c)'
                      \/ /\ Baselines(c) # {}
                         /\ \A f \in DOMAIN source[s][c] \ Left(s, c)' : Incomparable(s, c, f)
  BY <1>2 DEF BehindIsReported
<1> DEFINE Goal == \/ s = suite' /\ c \in cases'
                   \/ HasRow(s, c)'
                   \/ /\ Baselines(c) # {}
                      /\ \A f \in DOMAIN source[s][c] \ Left(s, c)' : Incomparable(s, c, f)
<1>4. s <= suite =>
        \/ s = suite /\ c \in cases
        \/ HasRow(s, c)
        \/ Baselines(c) # {} /\ \A f \in DOMAIN source[s][c] \ Left(s, c) : Incomparable(s, c, f)
  BY DEF IInv, BehindIsReported
<1>5. CASE StartSuite
  <2>1. Left(s, c) = Left(s, c)'
    BY <1>5, SuiteIsNext DEF Left
  <2> QED BY <1>1, <1>3, <1>4, <1>5, <2>1, SuiteIsNext
<1>6. ASSUME NEW d \in Cases, FoundBase(d) PROVE Goal
  <2>1. CASE s = suite /\ c = d
    BY <1>6, <2>1 DEF FoundBase, Left, Goto
  <2>2. CASE ~(s = suite /\ c = d)
    <3>1. Left(s, c)' = Left(s, c)
      BY <1>6, <2>2 DEF FoundBase, Left, Goto
    <3>2. suite' = suite /\ cases' = cases \ {d}
      BY <1>6 DEF FoundBase
    <3> QED BY <1>1, <1>3, <1>4, <2>2, <3>1, <3>2
  <2> QED BY <2>1, <2>2
<1>7. ASSUME NEW d \in Cases, NoBase(d) PROVE Goal
  <2>1. suite' = suite /\ cases' = cases \ {d} /\ Left(s, c)' = Left(s, c)
    BY <1>7 DEF NoBase, Left
  <2>2. CASE s = suite /\ c = d
    <3>0. Write(d, None, "Not found in Base directory")
      BY <1>7 DEF NoBase
    <3>1. Entry(d, None, "Not found in Base directory") \in Rows'
      BY <3>0, WriteAdds
    <3>2. HasRow(s, c)'
      BY <2>2, <3>1 DEF HasRow, Entry
    <3> QED BY <3>2
  <2> QED BY <1>1, <1>3, <1>4, <2>1, <2>2
<1>8. ASSUME NEW f \in Files, CompareFile(f) PROVE Goal
  <2>1. suite' = suite /\ cases' = cases /\ pc = "files" /\ pc' = pc /\ case' = case /\ files' = files \ {f}
    BY <1>8 DEF CompareFile
  <2>2. CASE s = suite /\ c = case
    <3>1. ASSUME NEW r \in Verdicts, Write(case, f, r) PROVE Goal
      <4>1. Entry(case, f, r) \in Rows'
        BY <3>1, WriteAdds
      <4>2. HasRow(s, c)'
        BY <2>2, <4>1 DEF HasRow, Entry
      <4> QED BY <4>2
    <3>2. CASE Incomparable(suite, case, f)
      <4>1. Left(s, c) = files /\ Left(s, c)' = files \ {f}
        BY <2>1, <2>2 DEF Left
      <4> QED BY <1>1, <1>3, <1>4, <2>1, <2>2, <3>2, <4>1
    <3> QED BY <1>8, <3>1, <3>2, CompareFileWrites
  <2>3. CASE ~(s = suite /\ c = case)
    <3>1. Left(s, c)' = Left(s, c)
      BY <2>1, <2>3 DEF Left
    <3> QED BY <1>1, <1>3, <1>4, <2>1, <3>1
  <2> QED BY <2>2, <2>3
<1>9. CASE EndCase
  <2>1. Left(s, c)' = {} /\ Left(s, c) = {} /\ suite' = suite /\ cases' = cases
    BY <1>9 DEF EndCase, Left, Goto
  <2> QED BY <1>1, <1>3, <1>4, <2>1
<1>10. CASE UNCHANGED <<suite, cases, case, files>> /\ (pc' = pc \/ (pc # "files" /\ pc' # "files"))
  <2>1. Left(s, c)' = Left(s, c)
    BY <1>10 DEF Left
  <2> QED BY <1>1, <1>3, <1>4, <1>10, <2>1
<1> QED BY <1>5, <1>6, <1>7, <1>8, <1>9, <1>10 DEF Next, EndMain, EndSuite, BeginMissing,
                CheckFiles, Abort, ReportMissing, vars, Goto

LEMMA MissingStep ==
    ASSUME IInv, [Next]_vars
    PROVE  MissingIsBehind'
<1>1. \A e \in Rows : e.result = Missing =>
        /\ e.suite \in Int /\ e.suite <= suite
        /\ e.suite = suite => pc \notin {"cases", "files"} /\ e.case \notin basecases
        /\ e.case \notin DOMAIN source[e.suite] /\ e.case \in DOMAIN base[e.suite]
        /\ <<e.suite, e.case>> \notin world.passed
        /\ report[e] = 1
  BY ExcelCompareAssumption DEF IInv, MissingIsBehind, TypeOK, Suites
<1>2. source' = source /\ base' = base /\ world' = world
  BY WorldStep, SameWorld DEF vars
<1>3. ASSUME NEW e \in Rows, e.result = Missing
      PROVE  /\ e.suite <= suite'
             /\ e.suite = suite' => pc' \notin {"cases", "files"} /\ e.case \notin basecases'
  <2>1. CASE StartSuite
    <3>1. e.suite \in Int /\ e.suite <= suite
      BY <1>1, <1>3
    <3>2. suite < suite' /\ suite \in Int /\ suite' \in Int
      BY <2>1, SuiteIsNext
    <3>3. e.suite <= suite' /\ e.suite # suite'
      BY <3>1, <3>2
    <3> QED BY <3>3
  <2>2. CASE EndMain \/ EndCase \/ EndSuite \/ BeginMissing
    BY <1>1, <1>3, <2>2 DEF EndMain, EndCase, EndSuite, BeginMissing, Goto
  <2>3. ASSUME NEW c \in Cases, FoundBase(c) \/ NoBase(c) \/ CheckFiles(c) \/ Abort(c) \/ ReportMissing(c)
        PROVE  /\ e.suite <= suite'
               /\ e.suite = suite' => pc' \notin {"cases", "files"} /\ e.case \notin basecases'
    BY <1>1, <1>3, <2>3 DEF FoundBase, NoBase, CheckFiles, Abort, ReportMissing, Goto
  <2>4. CASE \E f \in Files : CompareFile(f)
    BY <1>1, <1>3, <2>4 DEF CompareFile
  <2>5. CASE UNCHANGED vars
    BY <1>1, <1>3, <2>5 DEF vars
  <2> QED BY <2>1, <2>2, <2>3, <2>4, <2>5 DEF Next
<1>4. CASE ~\E c \in Cases : ReportMissing(c)
  <2>1. Keeps({Missing})
    BY <1>4, MissingAreKept
  <2> QED BY <1>1, <1>2, <1>3, <2>1 DEF MissingIsBehind, Keeps
<1>5. ASSUME NEW c \in Cases, ReportMissing(c) PROVE MissingIsBehind'
  <2>1. CASE report' = report
    BY <1>1, <1>2, <1>3, <2>1 DEF MissingIsBehind, Rows
  <2>2. CASE Write(c, None, Missing) /\ ~Known(c)
    <3>0. PICK new : new = Entry(c, None, Missing)
      OBVIOUS
    <3>1. new.suite = suite /\ new.case = c /\ new.result = Missing
      BY <3>0 DEF Entry
    <3>2. /\ pc = "missing" /\ pc' = pc /\ suite' = suite /\ c \in basecases /\ c \notin basecases'
          /\ c \notin DOMAIN source[suite] /\ c \in DOMAIN base[suite] /\ suite \in Int
      <4>1. suite \in DOMAIN source /\ c \in DOMAIN base[suite]
        BY <1>5 DEF ReportMissing, IInv, Placed
      <4>2. suite \in Int
        BY <4>1, WorldShape, ExcelCompareAssumption DEF IInv, Suites
      <4> QED BY <1>5, <4>1, <4>2 DEF ReportMissing, InSource
    <3>3. <<suite, c>> \notin world.passed
      BY <2>2 DEF Known
    <3>4. new \notin Rows
      BY <1>1, <3>1, <3>2
    <3>5. /\ Rows' = Rows \cup {new}
          /\ \A d \in Rows : report[d] = 1 => report'[d] = 1
          /\ report'[new] = 1
      BY <2>2, <3>0, <3>4, WriteAdds
    <3>6. ASSUME NEW e \in Rows', e.result = Missing
          PROVE  /\ e.suite <= suite'
                 /\ e.suite = suite' => pc' \notin {"cases", "files"} /\ e.case \notin basecases'
                 /\ e.case \notin DOMAIN source[e.suite] /\ e.case \in DOMAIN base[e.suite]
                 /\ <<e.suite, e.case>> \notin world.passed
                 /\ report'[e] = 1
      <4>1. CASE e = new
        BY <3>1, <3>2, <3>3, <3>5, <4>1
      <4>2. CASE e \in Rows
        BY <1>1, <1>3, <3>5, <3>6, <4>2
      <4> QED BY <3>5, <4>1, <4>2
    <3> QED BY <1>2, <3>6 DEF MissingIsBehind
  <2> QED BY <1>5, <2>1, <2>2 DEF ReportMissing, Missing
<1> QED BY <1>4, <1>5

LEMMA AccountedStep ==
    ASSUME IInv, [Next]_vars
    PROVE  BehindIsAccounted'
<1>1. source' = source /\ base' = base /\ world' = world
  BY WorldStep, SameWorld DEF vars
<1>2. ASSUME NEW s, NEW c, Accounted(s, c) PROVE Accounted(s, c)'
  BY <1>1, <1>2, RowsStay DEF Accounted
<1>3. SUFFICES ASSUME pc' # "aborted", NEW s \in DOMAIN source \cap DOMAIN base, s <= suite',
                      NEW c \in DOMAIN base[s]
               PROVE  \/ s = suite' /\ (pc' \in {"cases", "files"} \/ c \in basecases')
                      \/ Accounted(s, c)'
  BY <1>1 DEF BehindIsAccounted
<1> DEFINE Goal == \/ s = suite' /\ (pc' \in {"cases", "files"} \/ c \in basecases')
                   \/ Accounted(s, c)'
<1>4. (pc # "aborted" /\ s <= suite) =>
        \/ s = suite /\ (pc \in {"cases", "files"} \/ c \in basecases)
        \/ Accounted(s, c)
  BY DEF IInv, BehindIsAccounted
<1>5. CASE StartSuite
  BY <1>2, <1>3, <1>4, <1>5, SuiteIsNext
<1>6. CASE EndMain \/ EndSuite \/ EndCase
  BY <1>2, <1>3, <1>4, <1>6 DEF EndMain, EndSuite, EndCase, Goto, IInv, Placed
<1>7. CASE BeginMissing
  <2>1. DOMAIN source[suite] = {} => Accounted(suite, c)
    BY DEF Accounted
  <2> QED BY <1>2, <1>3, <1>4, <1>7, <2>1 DEF BeginMissing, Goto
<1>8. ASSUME NEW d \in Cases, FoundBase(d) \/ NoBase(d) PROVE Goal
  BY <1>2, <1>3, <1>4, <1>8 DEF FoundBase, NoBase, Goto
<1>9. ASSUME NEW d \in Cases, CheckFiles(d) PROVE Goal
  <2>1. Accounted(suite, d)
    BY <1>9 DEF CheckFiles, InSource, Accounted
  <2> QED BY <1>2, <1>3, <1>4, <1>9, <2>1 DEF CheckFiles
<1>10. ASSUME NEW d \in Cases, Abort(d) PROVE Goal
  BY <1>3, <1>10 DEF Abort, Goto
<1>11. ASSUME NEW d \in Cases, ReportMissing(d) PROVE Goal
  <2>1. ASSUME NEW t, t = suite PROVE Accounted(t, d)'
    <3>1. CASE <<t, d>> \in world.passed
      BY <1>2, <3>1 DEF Accounted
    <3>2. CASE d \in {sourceTC, exportTCName}
      <4>1. PICK u \in DOMAIN source : u <= suite /\ d \in DOMAIN source[u]
        BY <3>2, ExcelCompareAssumption DEF IInv, FromSource
      <4>2. u # suite /\ suite \in DOMAIN source
        BY <1>11, <4>1 DEF ReportMissing, InSource, IInv, Placed
      <4>3. u \in Int /\ suite \in Int
        BY <4>2, WorldShape, ExcelCompareAssumption DEF IInv, Suites
      <4>4. u < t
        BY <2>1, <4>1, <4>2, <4>3
      <4>5. Accounted(t, d)
        BY <4>1, <4>4 DEF Accounted
      <4> QED BY <1>2, <4>5
    <3>3. CASE ~Known(d)
      <4>1. Write(d, None, Missing)
        BY <1>11, <3>3 DEF ReportMissing, Missing
      <4>2. Entry(d, None, Missing) \in Rows'
        BY <4>1, WriteAdds
      <4>3. \E e \in Rows' : e.suite = t /\ e.case = d /\ e.result = Missing
        BY <2>1, <4>2 DEF Entry
      <4> QED BY <4>3 DEF Accounted
    <3> QED BY <2>1, <3>1, <3>2, <3>3 DEF Known
  <2>2. pc' = pc /\ suite' = suite /\ basecases' = basecases \ {d}
    BY <1>11 DEF ReportMissing
  <2> QED BY <1>2, <1>3, <1>4, <2>1, <2>2
<1>12. ASSUME NEW f \in Files, CompareFile(f) PROVE Goal
  BY <1>2, <1>3, <1>4, <1>12 DEF CompareFile
<1>13. CASE UNCHANGED vars
  BY <1>2, <1>3, <1>4, <1>13 DEF vars
<1> QED BY <1>5, <1>6, <1>7, <1>8, <1>9, <1>10, <1>11, <1>12, <1>13 DEF Next

LEMMA IInvStep == IInv /\ [Next]_vars => IInv'
<1> SUFFICES ASSUME IInv, [Next]_vars PROVE IInv'
  OBVIOUS
<1>1. world' \in Worlds
  BY WorldStep DEF IInv, vars
<1> QED BY <1>1, TypeStep, PlacedStep, FromSourceStep, NoneFoundStep, VerdictStep, DeservedStep,
           ReportedStep, MissingStep, AccountedStep DEF IInv

-----------------------------------------------------------------------------
(* The theorems                                                            *)

LEMMA Inductive == Spec => []IInv
<1> QED BY InitIInv, IInvStep, PTL DEF Spec

(***************************************************************************)
(* Where main is, what it has in hand and the rows of the report keep      *)
(* their types; the directory in hand has the test case in hand.           *)
(***************************************************************************)
THEOREM TypeCorrect == Spec => []TypeOK
<1>1. IInv => TypeOK
  BY DEF IInv
<1> QED BY <1>1, Inductive, PTL

(***************************************************************************)
(* A workbook has at most one verdict, PASS only if each of its values is  *)
(* the baseline's, and FAIL only if it differs from it.                    *)
(***************************************************************************)
THEOREM VerdictsDeserved == Spec => []VerdictIsDeserved
<1>1. IInv => VerdictIsDeserved
  <2> SUFFICES ASSUME IInv, NEW e \in Rows, e.result \in Verdicts
               PROVE  /\ report[e] = 1
                      /\ \A d \in Rows : (d.result \in Verdicts /\ d.suite = e.suite /\ d.case = e.case
                                          /\ d.file = e.file) => d = e
                      /\ Deserved(e)
    BY DEF VerdictIsDeserved, Deserved
  <2> QED BY DEF IInv, VerdictIsBehind, AllDeserved
<1> QED BY <1>1, Inductive, PTL

LEMMA ReportedAtEnd == IInv => CasesAreReported
<1> SUFFICES ASSUME IInv, pc = "done", NEW s \in DOMAIN source, NEW c \in DOMAIN source[s]
             PROVE  \/ \E e \in Rows : e.suite = s /\ e.case = c
                    \/ /\ Baselines(c) # {}
                       /\ \A f \in DOMAIN source[s][c] : Incomparable(s, c, f)
  BY DEF CasesAreReported, Incomparable
<1>1. s <= suite /\ cases = {} /\ Left(s, c) = {}
  BY DEF IInv, Placed, Left
<1> QED BY <1>1 DEF IInv, BehindIsReported, HasRow

LEMMA MissingAtEnd == IInv => MissingIsReported
<1> SUFFICES ASSUME IInv, pc = "done", NEW s \in DOMAIN source \cap DOMAIN base, NEW c \in DOMAIN base[s]
             PROVE  Accounted(s, c)
  BY DEF MissingIsReported, Accounted
<1>1. s <= suite /\ basecases = {}
  BY DEF IInv, Placed
<1> QED BY <1>1 DEF IInv, BehindIsAccounted

(***************************************************************************)
(* Every test case of either side is accounted for when main ends, what is *)
(* reported as missing is, and main gives up only if nothing had a         *)
(* baseline.                                                               *)
(***************************************************************************)
THEOREM CasesAccounted == Spec => []CasesAreAccounted
<1>1. IInv => MissingIsMissing
  BY DEF IInv, MissingIsBehind, MissingIsMissing
<1>2. IInv => AbortHasCause
  BY DEF IInv, NoneFound, Placed, AbortHasCause
<1>3. IInv => CasesAreAccounted
  BY <1>1, <1>2, ReportedAtEnd, MissingAtEnd DEF CasesAreAccounted
<1> QED BY <1>3, Inductive, PTL

-----------------------------------------------------------------------------
(* SnapCompare: a row more in Results.xls, and what is above it            *)

\* The rows with a verdict
Marked(R) == {i \in DOMAIN R : R[i].result # Empty}

\* From row i upwards, the first name in the columns of suite and of case
UnderSuite(R, i, s) == \E j \in 1 .. i : R[j].suite = s /\ \A l \in j + 1 .. i : R[l].suite = Empty
UnderCase(R, i, c) == \E j \in 1 .. i : R[j].case = c /\ \A l \in j + 1 .. i : R[l].case = Empty
Under(R, i, s, c) == UnderSuite(R, i, s) /\ UnderCase(R, i, c)

LEMMA ListIs ==
    ASSUME NEW R, IsList(R)
    PROVE  /\ R \in Seq({R[i] : i \in DOMAIN R})
           /\ Len(R) \in Nat /\ DOMAIN R = 1 .. Len(R)
BY DEF IsList

LEMMA SeqIsList ==
    ASSUME NEW X, NEW R \in Seq(X) PROVE IsList(R)
<1> DEFINE Y == {R[i] : i \in DOMAIN R}
<1>1. Len(R) \in Nat /\ DOMAIN R = 1 .. Len(R) /\ R = [i \in 1 .. Len(R) |-> R[i]]
  OBVIOUS
<1>2. \A i \in 1 .. Len(R) : R[i] \in Y
  BY <1>1
<1> HIDE DEF Y
<1>3. R \in [1 .. Len(R) -> Y]
  BY <1>1, <1>2
<1>4. R \in Seq(Y)
  BY <1>1, <1>3
<1> QED BY <1>4 DEF IsList, Y

LEMMA AddRow ==
    ASSUME NEW R, IsList(R), NEW row
    PROVE  LET S == Append(R, row) IN
           /\ IsList(S) /\ Len(S) = Len(R) + 1 /\ DOMAIN S = 1 .. Len(R) + 1
           /\ S[Len(R) + 1] = row
           /\ \A i \in 1 .. Len(R) : S[i] = R[i]
<1> DEFINE X == {R[i] : i \in DOMAIN R} \cup {row}
           S == Append(R, row)
<1>1. R \in Seq(X) /\ Len(R) \in Nat /\ DOMAIN R = 1 .. Len(R)
  <2>1. R \in Seq({R[i] : i \in DOMAIN R}) /\ {R[i] : i \in DOMAIN R} \subseteq X
    BY ListIs
  <2> HIDE DEF X
  <2> QED BY <2>1
<1>2. /\ S \in Seq(X) /\ Len(S) = Len(R) + 1 /\ DOMAIN S = 1 .. Len(R) + 1
      /\ S[Len(R) + 1] = row
      /\ \A i \in 1 .. Len(R) : S[i] = R[i]
  <2> row \in X
    OBVIOUS
  <2> HIDE DEF X
  <2> QED BY <1>1
<1>3. X = {S[i] : i \in DOMAIN S}
  BY <1>1, <1>2
<1> HIDE DEF X, S
<1>4. IsList(S)
  BY <1>2, <1>3 DEF IsList
<1> QED BY <1>2, <1>4 DEF S

\* The names above the earlier rows stay, and those above the new one are its
\* own or those above the last
LEMMA NamesAbove ==
    ASSUME NEW R, IsList(R), NEW row
    PROVE  LET S == Append(R, row)
               n == Len(R) + 1
           IN /\ \A s : \A i \in 1 .. Len(R) : UnderSuite(S, i, s) <=> UnderSuite(R, i, s)
              /\ \A c : \A i \in 1 .. Len(R) : UnderCase(S, i, c) <=> UnderCase(R, i, c)
              /\ row.suite # Empty => UnderSuite(S, n, row.suite)
              /\ row.case # Empty => UnderCase(S, n, row.case)
              /\ row.suite = Empty => \A s : UnderSuite(R, Len(R), s) => UnderSuite(S, n, s)
              /\ row.case = Empty => \A c : UnderCase(R, Len(R), c) => UnderCase(S, n, c)
<1> DEFINE S == Append(R, row)
           n == Len(R) + 1
<1>1. /\ Len(R) \in Nat
      /\ S[n] = row /\ \A i \in 1 .. Len(R) : S[i] = R[i]
  BY AddRow, ListIs
<1> HIDE DEF S
<1>2. \A s : \A i \in 1 .. Len(R) : UnderSuite(S, i, s) <=> UnderSuite(R, i, s)
  BY <1>1 DEF UnderSuite
<1>3. \A c : \A i \in 1 .. Len(R) : UnderCase(S, i, c) <=> UnderCase(R, i, c)
  BY <1>1 DEF UnderCase
<1>4. row.suite # Empty => UnderSuite(S, n, row.suite)
  BY <1>1 DEF UnderSuite
<1>5. row.case # Empty => UnderCase(S, n, row.case)
  BY <1>1 DEF UnderCase
<1>6. ASSUME row.suite = Empty, NEW s, UnderSuite(R, Len(R), s) PROVE UnderSuite(S, n, s)
  <2>1. PICK j \in 1 .. Len(R) : R[j].suite = s /\ \A l \in j + 1 .. Len(R) : R[l].suite = Empty
    BY <1>6 DEF UnderSuite
  <2>2. S[j].suite = s /\ \A l \in j + 1 .. n : S[l].suite = Empty
    BY <1>1, <1>6, <2>1
  <2> QED BY <1>1, <2>2 DEF UnderSuite
<1>7. ASSUME row.case = Empty, NEW c, UnderCase(R, Len(R), c) PROVE UnderCase(S, n, c)
  <2>1. PICK j \in 1 .. Len(R) : R[j].case = c /\ \A l \in j + 1 .. Len(R) : R[l].case = Empty
    BY <1>7 DEF UnderCase
  <2>2. S[j].case = c /\ \A l \in j + 1 .. n : S[l].case = Empty
    BY <1>1, <1>7, <2>1
  <2> QED BY <1>1, <2>2 DEF UnderCase
<1> QED BY <1>2, <1>3, <1>4, <1>5, <1>6, <1>7 DEF S

\* There is one name above a row
LEMMA OneNameAbove ==
    ASSUME NEW R, NEW i \in Nat, NEW s, NEW t, s # Empty, t # Empty
    PROVE  /\ UnderSuite(R, i, s) /\ UnderSuite(R, i, t) => s = t
           /\ UnderCase(R, i, s) /\ UnderCase(R, i, t) => s = t
<1>1. ASSUME UnderSuite(R, i, s), UnderSuite(R, i, t) PROVE s = t
  <2>1. PICK j \in 1 .. i : R[j].suite = s /\ \A l \in j + 1 .. i : R[l].suite = Empty
    BY <1>1 DEF UnderSuite
  <2>2. PICK h \in 1 .. i : R[h].suite = t /\ \A l \in h + 1 .. i : R[l].suite = Empty
    BY <1>1 DEF UnderSuite
  <2>3. j = h
    BY <2>1, <2>2
  <2> QED BY <2>1, <2>2, <2>3
<1>2. ASSUME UnderCase(R, i, s), UnderCase(R, i, t) PROVE s = t
  <2>1. PICK j \in 1 .. i : R[j].case = s /\ \A l \in j + 1 .. i : R[l].case = Empty
    BY <1>2 DEF UnderCase
  <2>2. PICK h \in 1 .. i : R[h].case = t /\ \A l \in h + 1 .. i : R[l].case = Empty
    BY <1>2 DEF UnderCase
  <2>3. j = h
    BY <2>1, <2>2
  <2> QED BY <2>1, <2>2, <2>3
<1> QED BY <1>1, <1>2

\* It is the one that a reader finds
LEMMA AboveIs ==
    ASSUME NEW i \in Nat, NEW column, NEW j \in 1 .. i, column[j] # Empty,
           \A l \in j + 1 .. i : column[l] = Empty
    PROVE  Above(i, column) = column[j]
<1> DEFINE filled == {h \in 1 .. i : column[h] # Empty}
           m == CHOOSE h \in filled : \A k \in filled : k <= h
<1>1. j \in filled /\ \A k \in filled : k <= j
  OBVIOUS
<1>2. m \in filled /\ \A k \in filled : k <= m
  <2> HIDE DEF filled
  <2> QED BY <1>1
<1>3. m = j
  <2>1. \A k \in filled : k \in Int
    OBVIOUS
  <2> HIDE DEF filled, m
  <2> QED BY <1>1, <1>2, <2>1
<1>4. Above(i, column) = column[m]
  BY DEF Above
<1> QED BY <1>3, <1>4

LEMMA ReaderFinds ==
    ASSUME IsList(results), NEW i \in DOMAIN results, NEW s, NEW c, s # Empty, c # Empty,
           Under(results, i, s, c)
    PROVE  SuiteOf(i) = s /\ CaseOf(i) = c
<1>1. i \in Nat /\ i \in 1 .. Len(results) /\ DOMAIN results = 1 .. Len(results) /\ Len(results) \in Nat
  BY ListIs
<1> DEFINE sc == [j \in DOMAIN results |-> results[j].suite]
           cc == [j \in DOMAIN results |-> results[j].case]
<1>2. SuiteOf(i) = s
  <2>1. PICK j \in 1 .. i : results[j].suite = s /\ \A l \in j + 1 .. i : results[l].suite = Empty
    BY DEF Under, UnderSuite
  <2>2. sc[j] = s /\ \A l \in j + 1 .. i : sc[l] = Empty
    BY <1>1, <2>1
  <2> HIDE DEF sc
  <2>3. Above(i, sc) = s
    BY <1>1, <2>2, AboveIs
  <2> QED BY <2>3 DEF SuiteOf, sc
<1>3. CaseOf(i) = c
  <2>1. PICK j \in 1 .. i : results[j].case = c /\ \A l \in j + 1 .. i : results[l].case = Empty
    BY DEF Under, UnderCase
  <2>2. cc[j] = c /\ \A l \in j + 1 .. i : cc[l] = Empty
    BY <1>1, <2>1
  <2> HIDE DEF cc
  <2>3. Above(i, cc) = c
    BY <1>1, <2>2, AboveIs
  <2> QED BY <2>3 DEF CaseOf, cc
<1> QED BY <1>2, <1>3

-----------------------------------------------------------------------------
(* What a row says                                                         *)

\* The snapshot of a row
SnapIn(row) == IF row.result \in Differing THEN row.snap[3] ELSE row.snap

\* The first directory of the baselines that has the name
First(w, b, name) ==
    /\ b \in DOMAIN w.base /\ w.base[b].name = name
    /\ \A other \in DOMAIN w.base : w.base[other].name = name => b <= other

NoneNamed(w, name) == \A b \in DOMAIN w.base : w.base[b].name # name

\* A row about file f of test case c in suite s, whose baseline has the files g
Says(row, s, c, f, g) ==
    \/ /\ row.result = "PASS" /\ row.snap = f.name
       /\ f.name \in DOMAIN g /\ g[f.name].bytes = f.bytes
    \/ /\ row.result \in Differing /\ row.snap = <<s, c, f.name>>
       /\ f.name \in DOMAIN g /\ g[f.name].bytes # f.bytes
       /\ (row.result = "FAIL") = (g[f.name].size = f.size)
       /\ row.sizes \in {Empty, <<f.size, g[f.name].size>>}
    \/ /\ row.result = "Not found in Base directory" /\ row.snap = f.name
       /\ f.name \notin DOMAIN g

\* What a row says is true of the d-th directory of the s-th suite
Told(w, row, s, d) ==
    LET here == w.suites[s].dirs[d] IN
    IF row.snap = Empty THEN NoneNamed(w, here.name) /\ row.result = "Not found in Base directory"
    ELSE \E k \in DOMAIN here.files : \E b \in DOMAIN w.base :
            First(w, b, here.name) /\ Says(row, w.suites[s].name, here.name, here.files[k], w.base[b].files)

RowTrue(w, R, i) ==
    \E s \in DOMAIN w.suites : \E d \in DOMAIN w.suites[s].dirs :
        Under(R, i, w.suites[s].name, w.suites[s].dirs[d].name) /\ Told(w, R[i], s, d)

RowsTrue(w, R) == IsList(R) /\ \A i \in Marked(R) : RowTrue(w, R, i)

\* The rows that are read as about the snapshot n, a triple of names
RowsFor(R, n) ==
    {i \in Marked(R) : R[i].snap # Empty /\ Under(R, i, n[1], n[2]) /\ SnapIn(R[i]) = n[3]}

Rank(R, i) == Cardinality({j \in Marked(R) : j <= i})

\* A row e of the database says what row i of the report does
Matches(R, i, e) ==
    /\ e.suite # Empty /\ e.case # Empty /\ Under(R, i, e.suite, e.case)
    /\ e.sizes = R[i].sizes
    /\ e.result = (IF R[i].result = "Not found in Base directory" THEN "SKIP" ELSE R[i].result)
    /\ R[i].snap # Empty => e.snap = SnapIn(R[i])

\* The rows D of the database and those it did not take, n, are as many as the
\* report has, and extra; if it took all, they say what those say, in order
DbAgrees(R, D, n, extra) ==
    /\ IsList(D) /\ n \in Nat
    /\ Len(D) + n = Cardinality(Marked(R)) + extra
    /\ n = 0 => \A k \in DOMAIN D : \E i \in Marked(R) : Rank(R, i) = k /\ Matches(R, i, D[k])

LEMMA MarkedIs ==
    ASSUME NEW R, IsList(R), NEW row
    PROVE  LET S == Append(R, row)
               n == Len(R) + 1
           IN /\ IsFiniteSet(Marked(R)) /\ Cardinality(Marked(R)) \in Nat
              /\ n \notin Marked(R) /\ Marked(R) \in SUBSET (1 .. Len(R))
              /\ row.result = Empty => Marked(S) = Marked(R)
              /\ row.result # Empty => Marked(S) = Marked(R) \cup {n}
<1> DEFINE S == Append(R, row)
           n == Len(R) + 1
<1>1. /\ Len(R) \in Nat /\ DOMAIN R = 1 .. Len(R) /\ DOMAIN S = 1 .. n
      /\ S[n] = row /\ \A i \in 1 .. Len(R) : S[i] = R[i]
  BY AddRow, ListIs
<1>2. Marked(R) \in SUBSET (1 .. Len(R))
  BY <1>1 DEF Marked
<1>3. IsFiniteSet(Marked(R)) /\ Cardinality(Marked(R)) \in Nat
  <2>1. IsFiniteSet(1 .. Len(R))
    BY <1>1, FS_Interval
  <2>2. IsFiniteSet(Marked(R))
    BY <1>2, <2>1, FS_Subset
  <2> QED BY <2>2, FS_CardinalityType
<1> HIDE DEF S
<1>4. row.result = Empty => Marked(S) = Marked(R)
  BY <1>1 DEF Marked
<1>5. row.result # Empty => Marked(S) = Marked(R) \cup {n}
  BY <1>1 DEF Marked
<1> QED BY <1>1, <1>2, <1>3, <1>4, <1>5 DEF S

\* The earlier rows are read as before
LEMMA EarlierRows ==
    ASSUME NEW R, IsList(R), NEW row, NEW i \in Marked(R)
    PROVE  LET S == Append(R, row) IN
           /\ S[i] = R[i] /\ i \in Marked(S)
           /\ \A s, c : Under(S, i, s, c) <=> Under(R, i, s, c)
           /\ \A w : RowTrue(w, R, i) => RowTrue(w, S, i)
           /\ Rank(S, i) = Rank(R, i)
           /\ \A e : Matches(R, i, e) => Matches(S, i, e)
<1> DEFINE S == Append(R, row)
<1>1. i \in 1 .. Len(R) /\ S[i] = R[i] /\ i \in Marked(S) /\ Len(R) \in Nat
  <2>1. i \in 1 .. Len(R) /\ Len(R) \in Nat
    BY MarkedIs, ListIs
  <2>2. S[i] = R[i]
    BY <2>1, AddRow
  <2>3. Marked(R) \subseteq Marked(S)
    BY MarkedIs
  <2> QED BY <2>1, <2>2, <2>3
<1>2. \A s, c : Under(S, i, s, c) <=> Under(R, i, s, c)
  BY <1>1, NamesAbove DEF Under
<1>3. {j \in Marked(S) : j <= i} = {j \in Marked(R) : j <= i}
  <2>1. Marked(S) \subseteq Marked(R) \cup {Len(R) + 1} /\ Marked(R) \subseteq Marked(S)
    BY MarkedIs
  <2> HIDE DEF S
  <2> QED BY <1>1, <2>1
<1> HIDE DEF S
<1>4. \A w : RowTrue(w, R, i) => RowTrue(w, S, i)
  BY <1>1, <1>2 DEF RowTrue
<1>5. \A e : Matches(R, i, e) => Matches(S, i, e)
  BY <1>1, <1>2 DEF Matches
<1>6. Rank(S, i) = Rank(R, i)
  BY <1>3 DEF Rank
<1> QED BY <1>1, <1>2, <1>4, <1>5, <1>6 DEF S

\* A heading or a blank row
LEMMA UnmarkedRow ==
    ASSUME NEW R, IsList(R), NEW row, row.result = Empty
    PROVE  LET S == Append(R, row) IN
           /\ \A w : RowsTrue(w, R) => RowsTrue(w, S)
           /\ \A n : RowsFor(S, n) = RowsFor(R, n)
           /\ \A D, n, extra : DbAgrees(R, D, n, extra) => DbAgrees(S, D, n, extra)
<1> DEFINE S == Append(R, row)
<1>1. /\ IsList(S) /\ Marked(S) = Marked(R)
      /\ \A i \in Marked(R) :
            /\ S[i] = R[i]
            /\ \A s, c : Under(S, i, s, c) <=> Under(R, i, s, c)
            /\ \A w : RowTrue(w, R, i) => RowTrue(w, S, i)
            /\ Rank(S, i) = Rank(R, i)
            /\ \A e : Matches(R, i, e) => Matches(S, i, e)
  BY MarkedIs, EarlierRows, AddRow
<1> HIDE DEF S
<1>2. \A w : RowsTrue(w, R) => RowsTrue(w, S)
  BY <1>1 DEF RowsTrue
<1>3. \A n : RowsFor(S, n) = RowsFor(R, n)
  BY <1>1 DEF RowsFor
<1>4. \A D, n, extra : DbAgrees(R, D, n, extra) => DbAgrees(S, D, n, extra)
  BY <1>1 DEF DbAgrees
<1> QED BY <1>2, <1>3, <1>4 DEF S

\* A verdict, and what the database does with it
LEMMA MarkedRow ==
    ASSUME NEW R, IsList(R), NEW row, row.result # Empty
    PROVE  LET S == Append(R, row)
               i == Len(R) + 1
           IN /\ \A w : RowsTrue(w, R) /\ RowTrue(w, S, i) => RowsTrue(w, S)
              /\ \A n : RowsFor(S, n) = RowsFor(R, n) \cup
                   (IF row.snap # Empty /\ Under(S, i, n[1], n[2]) /\ SnapIn(row) = n[3] THEN {i} ELSE {})
              /\ \A n : i \notin RowsFor(R, n) /\ IsFiniteSet(RowsFor(R, n))
              /\ \A D, n, e : DbAgrees(R, D, n, 0) /\ Matches(S, i, e) => DbAgrees(S, Append(D, e), n, 0)
              /\ \A D, n : DbAgrees(R, D, n, 0) => DbAgrees(S, D, n + 1, 0)
<1> DEFINE S == Append(R, row)
           i == Len(R) + 1
<1>1. /\ Marked(S) = Marked(R) \cup {i} /\ i \notin Marked(R)
      /\ IsFiniteSet(Marked(R)) /\ Cardinality(Marked(R)) \in Nat
      /\ IsList(S) /\ S[i] = row
      /\ Len(R) \in Nat /\ Marked(R) \in SUBSET (1 .. Len(R))
  BY MarkedIs, AddRow, ListIs
<1>2. \A j \in Marked(R) :
            /\ S[j] = R[j]
            /\ \A s, c : Under(S, j, s, c) <=> Under(R, j, s, c)
            /\ \A w : RowTrue(w, R, j) => RowTrue(w, S, j)
            /\ Rank(S, j) = Rank(R, j)
            /\ \A e : Matches(R, j, e) => Matches(S, j, e)
  BY EarlierRows
<1> HIDE DEF S
<1>3. Cardinality(Marked(S)) = Cardinality(Marked(R)) + 1
  BY <1>1, FS_AddElement
<1>4. Rank(S, i) = Cardinality(Marked(R)) + 1
  <2>1. {j \in Marked(S) : j <= i} = Marked(S)
    BY <1>1
  <2> QED BY <1>3, <2>1 DEF Rank
<1>5. \A w : RowsTrue(w, R) /\ RowTrue(w, S, i) => RowsTrue(w, S)
  BY <1>1, <1>2 DEF RowsTrue
<1>6. ASSUME NEW n
      PROVE  /\ RowsFor(S, n) = RowsFor(R, n) \cup
                   (IF row.snap # Empty /\ Under(S, i, n[1], n[2]) /\ SnapIn(row) = n[3] THEN {i} ELSE {})
             /\ i \notin RowsFor(R, n) /\ IsFiniteSet(RowsFor(R, n))
  <2>1. RowsFor(R, n) \in SUBSET Marked(R)
    BY DEF RowsFor
  <2>2. i \notin RowsFor(R, n) /\ IsFiniteSet(RowsFor(R, n))
    BY <1>1, <2>1, FS_Subset
  <2>3. \A j \in Marked(R) : j \in RowsFor(S, n) <=> j \in RowsFor(R, n)
    BY <1>1, <1>2 DEF RowsFor
  <2>4. i \in RowsFor(S, n) <=> row.snap # Empty /\ Under(S, i, n[1], n[2]) /\ SnapIn(row) = n[3]
    BY <1>1 DEF RowsFor
  <2>5. RowsFor(S, n) \subseteq Marked(R) \cup {i}
    BY <1>1 DEF RowsFor
  <2> QED BY <2>1, <2>2, <2>3, <2>4, <2>5
<1>7. ASSUME NEW D, NEW n, NEW e, DbAgrees(R, D, n, 0), Matches(S, i, e)
      PROVE  DbAgrees(S, Append(D, e), n, 0)
  <2>1. /\ IsList(Append(D, e)) /\ Len(Append(D, e)) = Len(D) + 1 /\ DOMAIN Append(D, e) = 1 .. Len(D) + 1
        /\ \A k \in 1 .. Len(D) : Append(D, e)[k] = D[k]
        /\ Append(D, e)[Len(D) + 1] = e
        /\ Len(D) \in Nat /\ DOMAIN D = 1 .. Len(D) /\ n \in Nat
        /\ Len(D) + n = Cardinality(Marked(R))
    BY <1>1, <1>7, AddRow, ListIs DEF DbAgrees
  <2> DEFINE E == Append(D, e)
  <2> HIDE DEF E
  <2>2. ASSUME n = 0, NEW k \in DOMAIN E
        PROVE  \E j \in Marked(S) : Rank(S, j) = k /\ Matches(S, j, E[k])
    <3>1. CASE k = Len(D) + 1
      BY <1>1, <1>4, <1>7, <2>1, <2>2, <3>1 DEF E
    <3>2. CASE k \in 1 .. Len(D)
      <4>1. PICK j \in Marked(R) : Rank(R, j) = k /\ Matches(R, j, D[k])
        BY <1>7, <2>1, <2>2, <3>2 DEF DbAgrees
      <4> QED BY <1>1, <1>2, <2>1, <3>2, <4>1 DEF E
    <3> QED BY <2>1, <2>2, <3>1, <3>2 DEF E
  <2>3. IsList(E) /\ Len(E) + n = Cardinality(Marked(S)) + 0
    BY <1>1, <1>3, <2>1 DEF E
  <2> QED BY <2>1, <2>2, <2>3 DEF DbAgrees, E
<1>8. ASSUME NEW D, NEW n, DbAgrees(R, D, n, 0) PROVE DbAgrees(S, D, n + 1, 0)
  BY <1>1, <1>3, <1>8, ListIs DEF DbAgrees
<1> QED BY <1>5, <1>6, <1>7, <1>8 DEF S

\* The end of the program before the row that the database did not take
LEMMA ExtraRow ==
    ASSUME NEW R, NEW D, NEW n, DbAgrees(R, D, n, 0), IsList(R)
    PROVE  DbAgrees(R, D, n + 1, 1)
<1>1. Cardinality(Marked(R)) \in Nat
  BY MarkedIs
<1> QED BY <1>1, ListIs DEF DbAgrees

-----------------------------------------------------------------------------
(* The files of the snapshots, and those behind the one in hand            *)

FilesOf(w) ==
    UNION {UNION {{<<s, d, k>> : k \in DOMAIN w.suites[s].dirs[d].files} :
                      d \in DOMAIN w.suites[s].dirs} : s \in DOMAIN w.suites}

FileNames(w, v) ==
    <<w.suites[v[1]].name, w.suites[v[1]].dirs[v[2]].name, w.suites[v[1]].dirs[v[2]].files[v[3]].name>>

\* It is to have a row, u being what could not be read
IsWanted(w, u, v) ==
    LET d == w.suites[v[1]].dirs[v[2]]
        name == d.files[v[3]].name
    IN ~NoneNamed(w, d.name) /\ name \notin w.failures /\ <<v[1], v[2], name>> \notin u

\* Main is in directory d of suite s, with a number of its files left
IsBehind(w, s, d, left, v) ==
    \/ v[1] < s
    \/ v[1] = s /\ v[2] < d
    \/ v[1] = s /\ v[2] = d /\ v[3] <= Len(w.suites[s].dirs[d].files) - left

\* The files behind that are to have a row under the names n
Counted(w, u, s, d, left, n) ==
    {v \in FilesOf(w) : IsWanted(w, u, v) /\ IsBehind(w, s, d, left, v) /\ FileNames(w, v) = n}

CountsAgree(w, u, s, d, left, R) ==
    \A v \in FilesOf(w) :
        LET n == FileNames(w, v) IN
        /\ IsFiniteSet(Counted(w, u, s, d, left, n))
        /\ Cardinality(Counted(w, u, s, d, left, n)) = Cardinality(RowsFor(R, n))

\* What could not be read is behind
UnreadBehind(w, u, s, d, left) ==
    \A v \in FilesOf(w) : <<v[1], v[2], FileNames(w, v)[3]>> \in u => IsBehind(w, s, d, left, v)

LEMMA FileIs ==
    ASSUME NEW w \in Settings, NEW v
    PROVE  v \in FilesOf(w) <=>
              /\ v = <<v[1], v[2], v[3]>>
              /\ v[1] \in 1 .. Len(w.suites) /\ v[2] \in 1 .. Len(w.suites[v[1]].dirs)
              /\ v[3] \in 1 .. Len(w.suites[v[1]].dirs[v[2]].files)
<1>1. DOMAIN w.suites = 1 .. Len(w.suites)
  BY SnapAssumption, ListIs
<1>2. \A s \in DOMAIN w.suites : DOMAIN w.suites[s].dirs = 1 .. Len(w.suites[s].dirs)
  BY SnapAssumption, ListIs
<1>3. \A s \in DOMAIN w.suites : \A d \in DOMAIN w.suites[s].dirs :
         DOMAIN w.suites[s].dirs[d].files = 1 .. Len(w.suites[s].dirs[d].files)
  BY SnapAssumption, ListIs
<1>4. v \in FilesOf(w) <=> \E s \in DOMAIN w.suites : \E d \in DOMAIN w.suites[s].dirs :
          \E k \in DOMAIN w.suites[s].dirs[d].files : v = <<s, d, k>>
  BY DEF FilesOf
<1>5. ASSUME v \in FilesOf(w)
      PROVE  /\ v = <<v[1], v[2], v[3]>>
             /\ v[1] \in 1 .. Len(w.suites) /\ v[2] \in 1 .. Len(w.suites[v[1]].dirs)
             /\ v[3] \in 1 .. Len(w.suites[v[1]].dirs[v[2]].files)
  <2>1. PICK s \in DOMAIN w.suites : \E d \in DOMAIN w.suites[s].dirs :
          \E k \in DOMAIN w.suites[s].dirs[d].files : v = <<s, d, k>>
    BY <1>4, <1>5
  <2>2. PICK d \in DOMAIN w.suites[s].dirs : \E k \in DOMAIN w.suites[s].dirs[d].files : v = <<s, d, k>>
    BY <2>1
  <2>3. PICK k \in DOMAIN w.suites[s].dirs[d].files : v = <<s, d, k>>
    BY <2>2
  <2>4. v[1] = s /\ v[2] = d /\ v[3] = k
    BY <2>3
  <2> QED BY <1>1, <1>2, <1>3, <2>3, <2>4
<1> QED BY <1>1, <1>2, <1>3, <1>4, <1>5

\* The lists of a setting
LEMMA SettingShape ==
    ASSUME NEW w \in Settings
    PROVE  /\ Len(w.suites) \in Nat /\ DOMAIN w.suites = 1 .. Len(w.suites)
           /\ DOMAIN w.base \subseteq Nat /\ w.logging \in BOOLEAN
           /\ \A s \in 1 .. Len(w.suites) :
                 /\ w.suites[s].name # Empty
                 /\ Len(w.suites[s].dirs) \in Nat /\ DOMAIN w.suites[s].dirs = 1 .. Len(w.suites[s].dirs)
                 /\ \A d \in 1 .. Len(w.suites[s].dirs) :
                       LET f == w.suites[s].dirs[d].files IN
                       /\ w.suites[s].dirs[d].name # Empty
                       /\ IsList(f) /\ Len(f) \in Nat /\ DOMAIN f = 1 .. Len(f)
                       /\ \A k \in 1 .. Len(f) :
                             /\ f[k].name # Empty
                             /\ <<w.suites[s].name, w.suites[s].dirs[d].name, f[k].name>> # Empty
                             /\ \A l \in 1 .. Len(f) : f[l].name = f[k].name => l = k
<1>1. Len(w.suites) \in Nat /\ DOMAIN w.suites = 1 .. Len(w.suites) /\ w.logging \in BOOLEAN
  BY SnapAssumption, ListIs
<1>2. DOMAIN w.base \subseteq Nat
  <2>1. DOMAIN w.base = 1 .. Len(w.base) /\ Len(w.base) \in Nat
    BY SnapAssumption, ListIs
  <2> QED BY <2>1
<1>3. ASSUME NEW s \in 1 .. Len(w.suites)
      PROVE  /\ w.suites[s].name # Empty
             /\ Len(w.suites[s].dirs) \in Nat /\ DOMAIN w.suites[s].dirs = 1 .. Len(w.suites[s].dirs)
  BY <1>1, SnapAssumption, ListIs
<1>4. ASSUME NEW s \in 1 .. Len(w.suites), NEW d \in 1 .. Len(w.suites[s].dirs)
      PROVE  LET f == w.suites[s].dirs[d].files IN
             /\ w.suites[s].dirs[d].name # Empty
             /\ IsList(f) /\ Len(f) \in Nat /\ DOMAIN f = 1 .. Len(f)
             /\ \A k \in 1 .. Len(f) :
                   /\ f[k].name # Empty
                   /\ <<w.suites[s].name, w.suites[s].dirs[d].name, f[k].name>> # Empty
                   /\ \A l \in 1 .. Len(f) : f[l].name = f[k].name => l = k
  <2> DEFINE f == w.suites[s].dirs[d].files
  <2>1. w.suites[s].dirs[d].name # Empty /\ IsList(f)
    BY <1>1, <1>3, SnapAssumption
  <2>2. Len(f) \in Nat /\ DOMAIN f = 1 .. Len(f)
    BY <2>1, ListIs
  <2>3. ASSUME NEW k \in 1 .. Len(f)
        PROVE  /\ f[k].name # Empty
               /\ <<w.suites[s].name, w.suites[s].dirs[d].name, f[k].name>> # Empty
               /\ \A l \in 1 .. Len(f) : f[l].name = f[k].name => l = k
    BY <1>1, <1>3, <2>2, SnapAssumption
  <2> QED BY <2>1, <2>2, <2>3
<1> QED BY <1>1, <1>2, <1>3, <1>4

\* Main goes on without a file that is to have a row
LEMMA CountsStay ==
    ASSUME NEW w, NEW u, NEW s, NEW d, NEW left, NEW R, CountsAgree(w, u, s, d, left, R),
           NEW u1, NEW s1, NEW d1, NEW left1, NEW R1,
           \A v \in FilesOf(w) : (IsWanted(w, u1, v) /\ IsBehind(w, s1, d1, left1, v))
                              <=> (IsWanted(w, u, v) /\ IsBehind(w, s, d, left, v)),
           \A n : RowsFor(R1, n) = RowsFor(R, n)
    PROVE  CountsAgree(w, u1, s1, d1, left1, R1)
<1>1. \A n : Counted(w, u1, s1, d1, left1, n) = Counted(w, u, s, d, left, n)
  BY DEF Counted
<1> QED BY <1>1 DEF CountsAgree

\* Main has come to one, and it has got its row
GrowsBy(w, u, s, d, left, R, left1, R1, x, i) ==
    /\ CountsAgree(w, u, s, d, left, R)
    /\ x \in FilesOf(w) /\ ~(IsWanted(w, u, x) /\ IsBehind(w, s, d, left, x))
    /\ \A v \in FilesOf(w) : (IsWanted(w, u, v) /\ IsBehind(w, s, d, left1, v))
                           <=> (IsWanted(w, u, v) /\ IsBehind(w, s, d, left, v)) \/ v = x
    /\ \A n : i \notin RowsFor(R, n) /\ IsFiniteSet(RowsFor(R, n))
    /\ \A v \in FilesOf(w) : LET n == FileNames(w, v) IN
           RowsFor(R1, n) = RowsFor(R, n) \cup (IF n = FileNames(w, x) THEN {i} ELSE {})

LEMMA CountsGrow ==
    ASSUME NEW w, NEW u, NEW s, NEW d, NEW left, NEW R, NEW left1, NEW R1, NEW x, NEW i,
           GrowsBy(w, u, s, d, left, R, left1, R1, x, i)
    PROVE  CountsAgree(w, u, s, d, left1, R1)
<1> USE DEF GrowsBy
<1>1. SUFFICES ASSUME NEW y \in FilesOf(w), NEW n, n = FileNames(w, y)
               PROVE  /\ IsFiniteSet(Counted(w, u, s, d, left1, n))
                      /\ Cardinality(Counted(w, u, s, d, left1, n)) = Cardinality(RowsFor(R1, n))
  BY DEF CountsAgree
<1> DEFINE C == Counted(w, u, s, d, left, n)
           C1 == Counted(w, u, s, d, left1, n)
<1>2. IsFiniteSet(C) /\ Cardinality(C) = Cardinality(RowsFor(R, n)) /\ x \notin C
  BY <1>1 DEF CountsAgree, Counted
<1>3. CASE n = FileNames(w, x)
  <2>1. C1 = C \cup {x}
    BY <1>3 DEF Counted
  <2>2. RowsFor(R1, n) = RowsFor(R, n) \cup {i}
    BY <1>1, <1>3
  <2> HIDE DEF C, C1
  <2>3. IsFiniteSet(C1) /\ Cardinality(C1) = Cardinality(C) + 1
    BY <1>2, <2>1, FS_AddElement
  <2>4. Cardinality(RowsFor(R1, n)) = Cardinality(RowsFor(R, n)) + 1
    BY <2>2, FS_AddElement
  <2> QED BY <1>2, <2>3, <2>4 DEF C1
<1>4. CASE n # FileNames(w, x)
  <2>1. C1 = C
    BY <1>4 DEF Counted
  <2>2. RowsFor(R1, n) = RowsFor(R, n)
    BY <1>1, <1>4
  <2> QED BY <1>2, <2>1, <2>2
<1> QED BY <1>3, <1>4

-----------------------------------------------------------------------------
(* The rows that Log writes                                                *)

\* Row v under the rows R, unless the program ends before it, and row e of the
\* database for it
Logged(R, v, e) ==
    \/ /\ at' = at /\ results' = Append(R, v)
       /\ \/ db' = (IF setting.logging THEN Append(db, e) ELSE db) /\ lost' = lost
          \/ setting.logging /\ db' = db /\ lost' = lost + 1
    \/ /\ at' = "ended" /\ setting.logging /\ results' \in {R, Append(R, v)}
       /\ db' = db /\ lost' = lost + 1

LEMMA Joined ==
    ASSUME NEW R, IsList(R), NEW h, NEW v
    PROVE  /\ R \o <<>> = R /\ R \o <<v>> = Append(R, v)
           /\ R \o <<h, v>> = Append(Append(R, h), v)
<1> DEFINE X == {R[i] : i \in DOMAIN R} \cup {h, v}
<1>1. R \in Seq(X)
  <2>1. R \in Seq({R[i] : i \in DOMAIN R}) /\ {R[i] : i \in DOMAIN R} \subseteq X
    BY ListIs
  <2> HIDE DEF X
  <2> QED BY <2>1
<1>2. h \in X /\ v \in X
  OBVIOUS
<1> HIDE DEF X
<1>3. R \o <<>> = R
  BY <1>1, ConcatEmptySeq
<1>4. R \o <<v>> = Append(R, v) /\ R \o <<h>> = Append(R, h)
  BY <1>1, <1>2, AppendIsConcat
<1>5. Append(R, h) \in Seq(X)
  BY <1>1, <1>2
<1>6. Append(Append(R, h), v) = (R \o <<h>>) \o <<v>>
  BY <1>2, <1>4, <1>5, AppendIsConcat
<1>7. (R \o <<h>>) \o <<v>> = R \o (<<h>> \o <<v>>)
  BY <1>1, <1>2, ConcatAssociative
<1>8. <<h>> \o <<v>> = <<h, v>>
  <2>1. <<h>> \in Seq(X)
    BY <1>2
  <2>2. Append(<<h>>, v) = <<h, v>>
    <3>1. Append(<<h>>, v) \in Seq(X) /\ <<h, v>> \in Seq(X)
      BY <1>2, <2>1
    <3>2. Len(Append(<<h>>, v)) = 2 /\ Append(<<h>>, v)[1] = h /\ Append(<<h>>, v)[2] = v
      BY <1>2, <2>1
    <3>3. Len(<<h, v>>) = 2 /\ <<h, v>>[1] = h /\ <<h, v>>[2] = v
      OBVIOUS
    <3>4. \A i \in 1 .. 2 : i = 1 \/ i = 2
      OBVIOUS
    <3> QED BY <3>1, <3>2, <3>3, <3>4, SeqEqual
  <2> QED BY <1>2, <2>1, <2>2, AppendIsConcat
<1> QED BY <1>3, <1>4, <1>6, <1>7, <1>8

\* Where Log has the verdict after the statement, and where before it
LEMMA LogIs ==
    ASSUME IsList(results), NEW h, NEW v, NEW e
    PROVE  /\ Log(e, <<>>, <<v>>) => Logged(results, v, e)
           /\ Log(e, <<h>>, <<v>>) => Logged(Append(results, h), v, e)
           /\ Log(e, <<v>>, <<>>) => Logged(results, v, e)
           /\ Log(e, <<h, v>>, <<>>) => Logged(Append(results, h), v, e)
<1>1. /\ results \o <<>> = results /\ results \o <<v>> = Append(results, v)
      /\ results \o <<h>> = Append(results, h)
      /\ results \o <<h, v>> = Append(Append(results, h), v)
  BY Joined
<1>2. IsList(Append(results, h)) /\ IsList(Append(results, v)) /\ IsList(Append(Append(results, h), v))
  BY AddRow
<1>3. /\ Append(results, h) \o <<v>> = Append(Append(results, h), v)
      /\ Append(results, v) \o <<>> = Append(results, v)
      /\ Append(Append(results, h), v) \o <<>> = Append(Append(results, h), v)
  BY <1>2, Joined
<1>4. ASSUME NEW before, NEW after, Log(e, before, after)
      PROVE  \/ /\ at' = at /\ results' = results \o before \o after
                /\ \/ db' = (IF setting.logging THEN Append(db, e) ELSE db) /\ lost' = lost
                   \/ setting.logging /\ db' = db /\ lost' = lost + 1
             \/ /\ at' = "ended" /\ setting.logging /\ results' = results \o before
                /\ db' = db /\ lost' = lost + 1
  BY <1>4 DEF Log, Taken, Dropped, GoOn
<1> QED BY <1>1, <1>3, <1>4 DEF Logged

LEMMA LoggedKeeps ==
    ASSUME NEW R, NEW v, NEW e, Logged(R, v, e), v.result # Empty,
           setting \in Settings, RowsTrue(setting, R), setting.logging => DbAgrees(R, db, lost, 0),
           RowTrue(setting, Append(R, v), Len(R) + 1), Matches(Append(R, v), Len(R) + 1, e), at # "ended"
    PROVE  /\ RowsTrue(setting, results')
           /\ setting.logging => \E extra \in (IF at' = "ended" THEN {0, 1} ELSE {0}) :
                 DbAgrees(results', db', lost', extra)
<1> DEFINE S == Append(R, v)
<1>1. /\ RowsTrue(setting, S)
      /\ setting.logging => DbAgrees(S, Append(db, e), lost, 0) /\ DbAgrees(S, db, lost + 1, 0)
  BY MarkedRow DEF RowsTrue
<1>2. setting.logging => DbAgrees(R, db, lost + 1, 1)
  BY ExtraRow DEF RowsTrue
<1> HIDE DEF S
<1>3. CASE at' = at
  BY <1>1, <1>3 DEF Logged, S
<1>4. CASE at' = "ended" /\ at' # at
  BY <1>1, <1>2, <1>4 DEF Logged, S
<1> QED BY <1>3, <1>4 DEF Logged

-----------------------------------------------------------------------------
(* The invariant                                                           *)

\* q is what is left of the files
LeftOf(q, all) ==
    /\ IsList(q)
    /\ \E l \in 0 .. Len(all) : Len(q) = Len(all) - l /\ \A i \in 1 .. Len(q) : q[i] = all[l + i]

InHand ==
    /\ at \in {"suites", "cases", "snaps", "done", "ended"}
    /\ suiteno \in 0 .. Len(setting.suites)
    /\ suiteno = 0 => at \in {"suites", "done"} /\ dirno = 0
    /\ suiteno # 0 => dirno \in 0 .. Len(Dirs) /\ (at \in {"suites", "done"} => dirno = Len(Dirs))
    /\ at = "done" => suiteno = Len(setting.suites)
    /\ at \in {"suites", "cases", "done"} => snaps = <<>>
    /\ at = "snaps" => dirno # 0 /\ First(setting, baseTC, TcName) /\ LeftOf(snaps, Dirs[dirno].files)

\* The names that the next rows need are written
Headed ==
    /\ at \in {"cases", "snaps"} => UnderSuite(results, Len(results), SuiteName)
    /\ at = "snaps" /\ ~firstRun => UnderCase(results, Len(results), TcName)

\* Every file behind that is to have a row has it
Kept ==
    /\ UnreadBehind(setting, unread, suiteno, dirno, Len(snaps))
    /\ CountsAgree(setting, unread, suiteno, dirno, Len(snaps), results)

DbKept ==
    setting.logging => \E extra \in (IF at = "ended" THEN {0, 1} ELSE {0}) : DbAgrees(results, db, lost, extra)

SnapInv ==
    /\ setting \in Settings
    /\ InHand
    /\ at # "ended" => Headed /\ Kept
    /\ RowsTrue(setting, results)
    /\ DbKept

LEMMA SnapStarts == SnapInit => SnapInv
<1> SUFFICES ASSUME SnapInit PROVE SnapInv
  OBVIOUS
<1>1. IsList(<<>>) /\ Len(<<>>) = 0 /\ Marked(<<>>) = {}
  BY DEF IsList, Marked
<1>2. InHand /\ Headed /\ setting \in Settings
  <2>1. Len(setting.suites) \in Nat
    BY SettingShape DEF SnapInit
  <2> QED BY <2>1 DEF SnapInit, InHand, Headed
<1>3. RowsTrue(setting, results)
  BY <1>1 DEF SnapInit, RowsTrue
<1>4. DbAgrees(results, db, lost, 0)
  <2>1. Cardinality({}) = 0 /\ DOMAIN <<>> = {}
    BY FS_EmptySet
  <2>2. results = <<>> /\ db = <<>> /\ lost = 0
    BY DEF SnapInit
  <2>3. Len(db) + lost = Cardinality(Marked(results)) + 0
    BY <1>1, <2>1, <2>2
  <2>4. IsList(db) /\ lost \in Nat /\ DOMAIN db = {}
    BY <1>1, <2>1, <2>2
  <2> QED BY <2>3, <2>4 DEF DbAgrees
<1>5. Kept
  <2>1. ASSUME NEW v \in FilesOf(setting) PROVE ~IsBehind(setting, 0, 0, 0, v)
    BY <1>2, FileIs DEF IsBehind
  <2>2. ASSUME NEW n
        PROVE  /\ Counted(setting, {}, 0, 0, 0, n) = {} /\ RowsFor(<<>>, n) = {}
               /\ IsFiniteSet({})
    BY <1>1, <2>1, FS_EmptySet DEF Counted, RowsFor
  <2>3. CountsAgree(setting, {}, 0, 0, 0, <<>>)
    BY <2>2 DEF CountsAgree
  <2>4. UnreadBehind(setting, {}, 0, 0, 0)
    BY DEF UnreadBehind
  <2> QED BY <1>1, <2>3, <2>4 DEF Kept, SnapInit
<1> QED BY <1>2, <1>3, <1>4, <1>5 DEF SnapInv, DbKept, SnapInit

-----------------------------------------------------------------------------
(* Suites and directories                                                  *)

LEMMA SuiteShape ==
    ASSUME NEW w \in Settings, NEW s \in 1 .. Len(w.suites)
    PROVE  /\ s \in Nat /\ s # 0 /\ w.suites[s].name # Empty /\ s \in DOMAIN w.suites
           /\ Len(w.suites[s].dirs) \in Nat /\ DOMAIN w.suites[s].dirs = 1 .. Len(w.suites[s].dirs)
BY SettingShape

LEMMA DirShape ==
    ASSUME NEW w \in Settings, NEW s \in 1 .. Len(w.suites), NEW d \in 1 .. Len(w.suites[s].dirs)
    PROVE  /\ d \in Nat /\ d # 0 /\ w.suites[s].dirs[d].name # Empty /\ d \in DOMAIN w.suites[s].dirs
           /\ IsList(w.suites[s].dirs[d].files) /\ Len(w.suites[s].dirs[d].files) \in Nat
           /\ DOMAIN w.suites[s].dirs[d].files = 1 .. Len(w.suites[s].dirs[d].files)
<1>1. Len(w.suites[s].dirs) \in Nat /\ DOMAIN w.suites[s].dirs = 1 .. Len(w.suites[s].dirs)
  BY SuiteShape
<1>2. /\ w.suites[s].dirs[d].name # Empty
      /\ IsList(w.suites[s].dirs[d].files) /\ Len(w.suites[s].dirs[d].files) \in Nat
      /\ DOMAIN w.suites[s].dirs[d].files = 1 .. Len(w.suites[s].dirs[d].files)
  BY SettingShape
<1> QED BY <1>1, <1>2

LEMMA FileShape ==
    ASSUME NEW w \in Settings, NEW v \in FilesOf(w)
    PROVE  /\ v[1] \in Nat /\ v[2] \in Nat /\ v[3] \in Nat /\ v[1] >= 1 /\ v[2] >= 1 /\ v[3] >= 1
           /\ v[1] \in 1 .. Len(w.suites) /\ v[2] \in 1 .. Len(w.suites[v[1]].dirs)
           /\ Len(w.suites[v[1]].dirs) \in Nat /\ v[2] <= Len(w.suites[v[1]].dirs)
           /\ Len(w.suites[v[1]].dirs[v[2]].files) \in Nat /\ v[3] <= Len(w.suites[v[1]].dirs[v[2]].files)
<1>1. v[1] \in 1 .. Len(w.suites) /\ v[2] \in 1 .. Len(w.suites[v[1]].dirs)
      /\ v[3] \in 1 .. Len(w.suites[v[1]].dirs[v[2]].files)
  BY FileIs
<1>2. Len(w.suites[v[1]].dirs) \in Nat /\ Len(w.suites) \in Nat
  BY <1>1, SuiteShape, SettingShape
<1>3. Len(w.suites[v[1]].dirs[v[2]].files) \in Nat
  BY <1>1, DirShape
<1> QED BY <1>1, <1>2, <1>3

\* Where main stands, when it is at the end of a suite
LEMMA Behind ==
    ASSUME NEW w \in Settings, NEW s \in 0 .. Len(w.suites), NEW v \in FilesOf(w)
    PROVE  /\ s # 0 => (IsBehind(w, s, Len(w.suites[s].dirs), 0, v) <=> v[1] <= s)
           /\ IsBehind(w, 0, 0, 0, v) <=> v[1] <= 0
           /\ IsBehind(w, s + 1, 0, 0, v) <=> v[1] <= s
<1>1. /\ v[1] \in Nat /\ v[2] \in Nat /\ v[3] \in Nat /\ v[1] >= 1 /\ v[2] >= 1
      /\ v[2] <= Len(w.suites[v[1]].dirs) /\ Len(w.suites[v[1]].dirs) \in Nat
      /\ Len(w.suites[v[1]].dirs[v[2]].files) \in Nat /\ v[3] <= Len(w.suites[v[1]].dirs[v[2]].files)
  BY FileShape
<1>4. IsBehind(w, 0, 0, 0, v) <=> v[1] <= 0
  BY <1>1 DEF IsBehind
<1>5. IsBehind(w, s + 1, 0, 0, v) <=> v[1] <= s
  <2>1. s \in Nat
    BY SettingShape
  <2> QED BY <1>1, <2>1 DEF IsBehind
<1>6. ASSUME s # 0 PROVE IsBehind(w, s, Len(w.suites[s].dirs), 0, v) <=> v[1] <= s
  <2>0. s \in Nat
    BY SettingShape
  <2>1. CASE v[1] # s
    BY <1>1, <2>0, <2>1 DEF IsBehind
  <2>2. CASE v[1] = s
    <3> DEFINE n == Len(w.suites[s].dirs)
    <3>1. n \in Nat /\ v[2] <= n
      BY <1>1, <2>2
    <3>2. v[2] = n => v[3] <= Len(w.suites[s].dirs[n].files) - 0
      BY <1>1, <2>2
    <3> HIDE DEF n
    <3>3. v[2] < n \/ (v[2] = n /\ v[3] <= Len(w.suites[s].dirs[n].files) - 0)
      BY <1>1, <3>1, <3>2
    <3> QED BY <2>0, <2>2, <3>3 DEF IsBehind, n
  <2> QED BY <2>1, <2>2
<1> QED BY <1>4, <1>5, <1>6

\* Where it stands in a suite, between two directories
LEMMA BehindDir ==
    ASSUME NEW w \in Settings, NEW s \in 1 .. Len(w.suites), NEW d \in 0 .. Len(w.suites[s].dirs) - 1,
           NEW v \in FilesOf(w)
    PROVE  /\ IsBehind(w, s, d + 1, Len(w.suites[s].dirs[d + 1].files), v) <=> IsBehind(w, s, d, 0, v)
           /\ IsBehind(w, s, d + 1, 0, v) <=> IsBehind(w, s, d, 0, v) \/ (v[1] = s /\ v[2] = d + 1)
<1>1. /\ v[1] \in Nat /\ v[2] \in Nat /\ v[2] >= 1 /\ v[3] \in Nat /\ v[3] >= 1
      /\ v[3] <= Len(w.suites[v[1]].dirs[v[2]].files) /\ Len(w.suites[v[1]].dirs[v[2]].files) \in Nat
  BY FileShape
<1>2. Len(w.suites[s].dirs) \in Nat /\ s \in Nat
  BY SuiteShape
<1>3. d \in Nat /\ d + 1 \in 1 .. Len(w.suites[s].dirs)
  BY <1>2
<1> DEFINE e == d + 1
<1>4. e \in 1 .. Len(w.suites[s].dirs) /\ e = d + 1
  BY <1>3
<1> HIDE DEF e
<1> DEFINE m == Len(w.suites[s].dirs[e].files)
<1>5. m \in Nat
  BY <1>4, DirShape
<1>6. CASE v[1] # s
  BY <1>6 DEF IsBehind
<1>7. CASE v[1] = s
  <2>1. v[2] = d => v[3] <= Len(w.suites[s].dirs[d].files) - 0
    BY <1>1, <1>7
  <2>2. v[2] = e => v[3] <= m - 0 /\ v[3] >= 1
    BY <1>1, <1>5, <1>7
  <2>3. IsBehind(w, s, d, 0, v) <=> v[2] <= d
    BY <1>1, <1>2, <1>3, <1>7, <2>1 DEF IsBehind
  <2>4. IsBehind(w, s, e, m, v) <=> v[2] < e
    <3>1. ~(v[3] <= m - m)
      BY <1>1, <1>5
    <3> QED BY <1>1, <1>2, <1>7, <3>1 DEF IsBehind
  <2>5. IsBehind(w, s, e, 0, v) <=> v[2] <= e
    BY <1>1, <1>2, <1>4, <1>3, <1>7, <2>2 DEF IsBehind
  <2>6. (v[2] < e <=> v[2] <= d) /\ (v[2] <= e <=> v[2] <= d \/ v[2] = e)
    BY <1>1, <1>3, <1>4
  <2> QED BY <1>4, <1>7, <2>3, <2>4, <2>5, <2>6
<1> QED BY <1>4, <1>6, <1>7

\* The rows that are no verdicts
LEMMA NoVerdict ==
    ASSUME SnapInv, NEW row, row.result = Empty, results' = Append(results, row),
           UNCHANGED <<setting, db, lost>>, at # "ended", at' # "ended"
    PROVE  /\ RowsTrue(setting, results)' /\ DbKept'
           /\ \A n : RowsFor(results, n)' = RowsFor(results, n)
<1>1. IsList(results) /\ setting' = setting /\ db' = db /\ lost' = lost
  BY DEF SnapInv, RowsTrue
<1> DEFINE S == Append(results, row)
<1>2. /\ RowsTrue(setting, S) /\ \A n : RowsFor(S, n) = RowsFor(results, n)
      /\ \A D, n, extra : DbAgrees(results, D, n, extra) => DbAgrees(S, D, n, extra)
  BY <1>1, UnmarkedRow DEF SnapInv
<1>3. setting.logging => DbAgrees(results, db, lost, 0)
  BY DEF SnapInv, DbKept
<1> HIDE DEF S
<1> QED BY <1>1, <1>2, <1>3 DEF S, DbKept

LEMMA SuiteKeeps ==
    ASSUME SnapInv, NextSuite PROVE SnapInv'
<1> DEFINE row == Row(setting.suites[suiteno'].name, Empty, Empty, Empty)
<1>1. /\ setting \in Settings /\ IsList(results) /\ at # "ended" /\ at' = "cases"
      /\ setting' = setting /\ suiteno' = suiteno + 1 /\ dirno' = 0 /\ snaps' = <<>> /\ snaps = <<>>
      /\ results' = Append(results, row) /\ unread' = unread
      /\ row.result = Empty /\ row.suite = setting.suites[suiteno'].name
      /\ UNCHANGED <<setting, db, lost>>
  BY DEF NextSuite, GoOn, SnapInv, InHand, RowsTrue, Row
<1>2. /\ Len(setting.suites) \in Nat /\ suiteno \in 0 .. Len(setting.suites) - 1
      /\ suiteno' \in 1 .. Len(setting.suites) /\ row.suite # Empty
      /\ Len(setting.suites[suiteno'].dirs) \in Nat /\ Len(<<>>) = 0
  <2>1. Len(setting.suites) \in Nat
    BY <1>1, SettingShape
  <2>2. suiteno \in 0 .. Len(setting.suites) /\ suiteno < Len(setting.suites)
    BY DEF SnapInv, InHand, NextSuite
  <2>3. suiteno \in 0 .. Len(setting.suites) - 1 /\ suiteno' \in 1 .. Len(setting.suites)
    BY <1>1, <2>1, <2>2
  <2>4. setting.suites[suiteno'].name # Empty /\ Len(setting.suites[suiteno'].dirs) \in Nat
    BY <1>1, <2>3, SuiteShape
  <2> QED BY <1>1, <2>1, <2>3, <2>4
<1>3. InHand'
  BY <1>1, <1>2 DEF InHand, Dirs
<1>4. Headed'
  <2>1. UnderSuite(Append(results, row), Len(results) + 1, row.suite)
    BY <1>1, <1>2, NamesAbove
  <2>2. Len(results') = Len(results) + 1
    BY <1>1, AddRow
  <2> QED BY <1>1, <2>1, <2>2 DEF Headed, SuiteName
<1>5. RowsTrue(setting, results)' /\ DbKept' /\ \A n : RowsFor(results', n) = RowsFor(results, n)
  <2> HIDE DEF row
  <2> QED BY <1>1, NoVerdict
<1>6. \A v \in FilesOf(setting) : IsBehind(setting, suiteno + 1, 0, 0, v) <=> IsBehind(setting, suiteno, dirno, 0, v)
  <2>1. suiteno \in 0 .. Len(setting.suites)
    BY <1>2
  <2>2. suiteno = 0 => dirno = 0
    BY DEF SnapInv, InHand
  <2>3. suiteno # 0 => dirno = Len(setting.suites[suiteno].dirs)
    BY DEF SnapInv, InHand, NextSuite, Dirs
  <2> QED BY <1>1, <2>1, <2>2, <2>3, Behind
<1>7. UnreadBehind(setting, unread, suiteno, dirno, 0) /\ CountsAgree(setting, unread, suiteno, dirno, 0, results)
  BY <1>1, <1>2 DEF SnapInv, Kept
<1>8. UnreadBehind(setting, unread, suiteno + 1, 0, 0)
  BY <1>6, <1>7 DEF UnreadBehind
<1>9. CountsAgree(setting, unread, suiteno + 1, 0, 0, results')
  BY <1>5, <1>6, <1>7, CountsStay
<1>10. Kept'
  BY <1>1, <1>2, <1>8, <1>9 DEF Kept
<1> HIDE DEF row
<1> QED BY <1>1, <1>3, <1>4, <1>5, <1>10 DEF SnapInv

LEMMA EndSnapsKeeps ==
    ASSUME SnapInv, EndSnaps \/ EndDir PROVE SnapInv'
<1>1. /\ UNCHANGED <<setting, suiteno, dirno, snaps, baseTC, firstRun, results, db, unread, lost>>
      /\ (at = "suites" /\ at' = "done" /\ suiteno = Len(setting.suites))
         \/ (at = "snaps" /\ snaps = <<>> /\ at' = "cases")
  BY DEF EndSnaps, EndDir, GoOn, inhand
<1>2. InHand'
  BY <1>1 DEF SnapInv, InHand, Dirs
<1>3. Headed'
  BY <1>1 DEF SnapInv, Headed, SuiteName
<1>4. Kept'
  BY <1>1 DEF SnapInv, Kept
<1>5. RowsTrue(setting, results)' /\ DbKept'
  BY <1>1 DEF SnapInv, DbKept
<1> QED BY <1>1, <1>2, <1>3, <1>4, <1>5 DEF SnapInv

LEMMA EndDirsKeeps ==
    ASSUME SnapInv, EndDirs PROVE SnapInv'
<1>1. /\ UNCHANGED <<setting, suiteno, dirno, snaps, unread, db, lost>>
      /\ at = "cases" /\ at' = "suites" /\ dirno = Len(Dirs)
      /\ results' = Append(results, Blank) /\ Blank.result = Empty
  BY DEF EndDirs, GoOn, inhand, Blank, Row
<1>2. InHand'
  BY <1>1 DEF SnapInv, InHand, Dirs
<1>3. RowsTrue(setting, results)' /\ DbKept' /\ \A n : RowsFor(results', n) = RowsFor(results, n)
  BY <1>1, NoVerdict
<1>4. Kept'
  <2>1. CountsAgree(setting, unread, suiteno, dirno, Len(snaps), results)
    BY <1>1 DEF SnapInv, Kept
  <2>2. CountsAgree(setting, unread, suiteno, dirno, Len(snaps), results')
    BY <1>3, <2>1, CountsStay
  <2> QED BY <1>1, <2>2 DEF SnapInv, Kept
<1> QED BY <1>1, <1>2, <1>3, <1>4 DEF SnapInv, Headed

\* Main goes on to a directory
LEMMA DirIs ==
    ASSUME SnapInv, FoundDir \/ NoDir
    PROVE  /\ at = "cases" /\ snaps = <<>> /\ Len(snaps) = 0 /\ setting \in Settings
           /\ setting' = setting /\ suiteno' = suiteno /\ dirno' = dirno + 1
           /\ suiteno # 0 /\ suiteno \in 1 .. Len(setting.suites)
           /\ dirno \in 0 .. Len(setting.suites[suiteno].dirs) - 1
           /\ dirno' \in 1 .. Len(setting.suites[suiteno].dirs)
           /\ unread' = unread /\ SuiteName' = SuiteName /\ TcName' = Dirs[dirno'].name /\ Dirs' = Dirs
<1>1. /\ at = "cases" /\ snaps = <<>> /\ setting \in Settings
      /\ setting' = setting /\ suiteno' = suiteno /\ dirno' = dirno + 1 /\ unread' = unread
      /\ dirno < Len(setting.suites[suiteno].dirs)
  BY DEF FoundDir, NoDir, SnapInv, InHand, Dirs
<1>2. suiteno # 0 /\ suiteno \in 0 .. Len(setting.suites) /\ dirno \in 0 .. Len(setting.suites[suiteno].dirs)
  BY <1>1 DEF SnapInv, InHand, Dirs
<1>3. suiteno \in 1 .. Len(setting.suites)
  <2>1. Len(setting.suites) \in Nat
    BY <1>1, SettingShape
  <2> QED BY <1>2, <2>1
<1>4. Len(setting.suites[suiteno].dirs) \in Nat
  BY <1>1, <1>3, SuiteShape
<1>5. dirno \in 0 .. Len(setting.suites[suiteno].dirs) - 1 /\ dirno + 1 \in 1 .. Len(setting.suites[suiteno].dirs)
  BY <1>1, <1>2, <1>4
<1> QED BY <1>1, <1>2, <1>3, <1>5 DEF SuiteName, TcName, Dirs

LEMMA FoundDirKeeps ==
    ASSUME SnapInv, FoundDir PROVE SnapInv'
<1>1. /\ snaps' = Dirs[dirno'].files /\ firstRun' = TRUE /\ at' = "snaps"
      /\ UNCHANGED <<results, db, lost>>
      /\ First(setting, baseTC', Dirs[dirno'].name)
  <2>1. PICK b \in Named(Dirs[dirno'].name) :
          (\A other \in Named(Dirs[dirno'].name) : b <= other) /\ baseTC' = b
    BY DEF FoundDir
  <2>2. First(setting, b, Dirs[dirno'].name)
    BY <2>1 DEF Named, First
  <2> QED BY <2>1, <2>2 DEF FoundDir, GoOn
<1>2. /\ at = "cases" /\ Len(snaps) = 0 /\ setting \in Settings
      /\ setting' = setting /\ suiteno' = suiteno /\ dirno' = dirno + 1
      /\ suiteno # 0 /\ suiteno \in 1 .. Len(setting.suites)
      /\ dirno \in 0 .. Len(setting.suites[suiteno].dirs) - 1
      /\ dirno' \in 1 .. Len(setting.suites[suiteno].dirs)
      /\ unread' = unread /\ SuiteName' = SuiteName /\ TcName' = Dirs[dirno'].name /\ Dirs' = Dirs
  BY DirIs
<1>3. LeftOf(snaps', Dirs[dirno'].files)
  <2> DEFINE f == setting.suites[suiteno].dirs[dirno'].files
  <2>1. IsList(f) /\ Len(f) \in Nat
    BY <1>2, DirShape
  <2>2. 0 \in 0 .. Len(f) /\ Len(f) = Len(f) - 0 /\ \A i \in 1 .. Len(f) : f[i] = f[0 + i]
    BY <2>1
  <2>3. LeftOf(f, f)
    BY <2>1, <2>2 DEF LeftOf
  <2> QED BY <1>1, <2>3 DEF Dirs
<1>4. InHand'
  <2>1. dirno' # 0 /\ dirno' \in 0 .. Len(Dirs') /\ suiteno' \in 0 .. Len(setting'.suites)
    BY <1>2 DEF Dirs
  <2> QED BY <1>1, <1>2, <1>3, <2>1 DEF InHand
<1>5. Headed'
  BY <1>1, <1>2 DEF SnapInv, Headed
<1>6. \A v \in FilesOf(setting) : IsBehind(setting, suiteno, dirno', Len(snaps'), v)
                               <=> IsBehind(setting, suiteno, dirno, Len(snaps), v)
  <2>1. Len(snaps') = Len(setting.suites[suiteno].dirs[dirno + 1].files)
    BY <1>1, <1>2 DEF Dirs
  <2> QED BY <1>2, <2>1, BehindDir
<1>7. Kept'
  <2>1. Kept
    BY <1>2 DEF SnapInv
  <2>2. UnreadBehind(setting, unread, suiteno, dirno', Len(snaps'))
    BY <1>6, <2>1 DEF Kept, UnreadBehind
  <2>3. CountsAgree(setting, unread, suiteno, dirno', Len(snaps'), results)
    BY <1>6, <2>1, CountsStay DEF Kept
  <2> QED BY <1>1, <1>2, <2>2, <2>3 DEF Kept
<1>8. RowsTrue(setting, results)' /\ DbKept'
  BY <1>1, <1>2 DEF SnapInv, DbKept
<1> QED BY <1>2, <1>4, <1>5, <1>7, <1>8 DEF SnapInv

\* Nobody has a row for what is in a directory without a baseline
LEMMA NoDirKept ==
    ASSUME SnapInv, NoDir, snaps' = snaps, NoneNamed(setting, Dirs[dirno'].name),
           \A n : RowsFor(results', n) = RowsFor(results, n)
    PROVE  Kept'
<1>1. /\ at = "cases" /\ Len(snaps) = 0 /\ setting \in Settings
      /\ setting' = setting /\ suiteno' = suiteno /\ dirno' = dirno + 1
      /\ suiteno \in 1 .. Len(setting.suites)
      /\ dirno \in 0 .. Len(setting.suites[suiteno].dirs) - 1
      /\ unread' = unread
  BY DirIs
<1>2. Kept
  BY <1>1 DEF SnapInv
<1>3. ASSUME NEW v \in FilesOf(setting)
      PROVE  /\ IsBehind(setting, suiteno, dirno', 0, v)
                <=> IsBehind(setting, suiteno, dirno, 0, v) \/ (v[1] = suiteno /\ v[2] = dirno')
             /\ v[1] = suiteno /\ v[2] = dirno' => ~IsWanted(setting, unread, v)
  <2>1. IsBehind(setting, suiteno, dirno + 1, 0, v)
        <=> IsBehind(setting, suiteno, dirno, 0, v) \/ (v[1] = suiteno /\ v[2] = dirno + 1)
    BY <1>1, BehindDir
  <2>2. v[1] = suiteno /\ v[2] = dirno' => ~IsWanted(setting, unread, v)
    BY DEF IsWanted, Dirs
  <2> QED BY <1>1, <2>1, <2>2
<1>4. UnreadBehind(setting, unread, suiteno, dirno', 0)
  BY <1>1, <1>2, <1>3 DEF Kept, UnreadBehind
<1>5. CountsAgree(setting, unread, suiteno, dirno', 0, results')
  BY <1>1, <1>2, <1>3, CountsStay DEF Kept
<1> QED BY <1>1, <1>4, <1>5 DEF Kept

LEMMA NoDirKeeps ==
    ASSUME SnapInv, NoDir PROVE SnapInv'
<1> DEFINE name == Dirs[dirno'].name
           row == Row(Empty, name, Empty, "Not found in Base directory")
           entry == Row(SuiteName, name, snapshotName, "SKIP")
<1>1. /\ at = "cases" /\ snaps = <<>> /\ setting \in Settings /\ setting' = setting
      /\ suiteno' = suiteno /\ dirno' = dirno + 1 /\ unread' = unread
      /\ suiteno # 0 /\ suiteno \in 1 .. Len(setting.suites)
      /\ dirno' \in 1 .. Len(setting.suites[suiteno].dirs)
      /\ SuiteName' = SuiteName /\ Dirs' = Dirs
  BY DirIs
<1>2. /\ NoneNamed(setting, name) /\ snaps' = snaps /\ IsList(results)
      /\ UnderSuite(results, Len(results), SuiteName) /\ Len(results) \in Nat
      /\ SuiteName # Empty /\ name # Empty
  <2>1. NoneNamed(setting, name)
    BY DEF NoDir, Named, NoneNamed
  <2>2. IsList(results)
    BY DEF SnapInv, RowsTrue
  <2>3. SuiteName # Empty
    BY <1>1, SuiteShape DEF SuiteName
  <2>4. name # Empty
    BY <1>1, DirShape DEF Dirs
  <2> QED BY <1>1, <2>1, <2>2, <2>3, <2>4, ListIs DEF NoDir, SnapInv, Headed
<1>3. at' \in {"cases", "ended"} => InHand'
  <2>1. dirno' \in 0 .. Len(Dirs') /\ suiteno' \in 0 .. Len(setting'.suites)
    BY <1>1 DEF Dirs
  <2> QED BY <1>1, <1>2, <2>1 DEF InHand
<1>4. CASE name = "failed"
  <2>1. UNCHANGED <<at, results, db, lost>>
    BY <1>4 DEF NoDir
  <2>2. Kept'
    BY <1>2, <2>1, NoDirKept
  <2>3. Headed'
    BY <1>1, <1>2, <2>1 DEF Headed
  <2>4. RowsTrue(setting, results)' /\ DbKept'
    BY <1>1, <2>1 DEF SnapInv, DbKept
  <2> QED BY <1>1, <1>3, <2>1, <2>2, <2>3, <2>4 DEF SnapInv
<1>5. CASE name # "failed"
  <2>1. Log(entry, <<row>>, <<>>)
    BY <1>5 DEF NoDir
  <2>2. /\ row.suite = Empty /\ row.case = name /\ row.snap = Empty /\ row.sizes = Empty
        /\ row.result = "Not found in Base directory" /\ row.result # Empty
        /\ entry.suite = SuiteName /\ entry.case = name /\ entry.result = "SKIP" /\ entry.sizes = Empty
    BY SnapAssumption DEF Row, Marks
  <2> HIDE DEF name, row, entry
  <2> DEFINE S == Append(results, row)
             i == Len(results) + 1
  <2>3. Logged(results, row, entry)
    BY <1>2, <2>1, LogIs
  <2>4. Under(S, i, SuiteName, name) /\ S[i] = row /\ IsList(S) /\ Len(S) = i /\ UnderSuite(S, i, SuiteName)
    BY <1>2, <2>2, NamesAbove, AddRow DEF Under
  <2>5. RowTrue(setting, S, i)
    <3>1. suiteno \in DOMAIN setting.suites /\ dirno' \in DOMAIN setting.suites[suiteno].dirs
      BY <1>1, SuiteShape
    <3>2. Told(setting, row, suiteno, dirno')
      BY <1>2, <2>2 DEF Told, name, Dirs
    <3>3. SuiteName = setting.suites[suiteno].name /\ name = setting.suites[suiteno].dirs[dirno'].name
      BY DEF SuiteName, name, Dirs
    <3> HIDE DEF S, i
    <3> QED BY <2>4, <3>1, <3>2, <3>3 DEF RowTrue
  <2>6. Matches(S, i, entry)
    BY <1>2, <2>2, <2>4 DEF Matches, name
  <2>7. setting.logging => DbAgrees(results, db, lost, 0)
    BY <1>1 DEF SnapInv, DbKept
  <2>8. /\ RowsTrue(setting, results')
        /\ setting.logging => \E extra \in (IF at' = "ended" THEN {0, 1} ELSE {0}) :
              DbAgrees(results', db', lost', extra)
    BY <1>1, <2>2, <2>3, <2>5, <2>6, <2>7, LoggedKeeps DEF SnapInv
  <2>9. RowsTrue(setting, results)' /\ DbKept'
    BY <1>1, <2>8 DEF DbKept
  <2>10. at' # "ended" => results' = S /\ at' = at
    BY <2>3 DEF Logged
  <2>11. at' # "ended" => Kept'
    <3>1. ASSUME NEW n PROVE RowsFor(S, n) = RowsFor(results, n)
      <4>1. RowsFor(S, n) = RowsFor(results, n) \cup
              (IF row.snap # Empty /\ Under(S, i, n[1], n[2]) /\ SnapIn(row) = n[3] THEN {i} ELSE {})
        <5>1. IsList(results) /\ row.result # Empty
          BY <1>2, <2>2
        <5> QED BY ONLY <5>1, MarkedRow
      <4> HIDE DEF S, i
      <4> QED BY <2>2, <4>1
    <3> QED BY <1>2, <2>10, <3>1, NoDirKept DEF name
  <2>12. at' # "ended" => Headed'
    BY <1>1, <2>4, <2>10 DEF Headed
  <2>13. at' \in {"cases", "ended"}
    BY <1>1, <2>3 DEF Logged
  <2> QED BY <1>1, <1>3, <2>9, <2>11, <2>12, <2>13 DEF SnapInv
<1> QED BY <1>4, <1>5

-----------------------------------------------------------------------------
(* A snapshot                                                              *)

\* The file in hand
This == <<suiteno, dirno, Len(Dirs[dirno].files) - Len(snaps) + 1>>

LEMMA ThisIs ==
    ASSUME SnapInv, at = "snaps", snaps # <<>>
    PROVE  /\ setting \in Settings /\ This \in FilesOf(setting)
           /\ Len(snaps) \in Nat /\ Len(snaps) # 0 /\ IsList(snaps)
           /\ suiteno \in 1 .. Len(setting.suites) /\ dirno \in 1 .. Len(Dirs)
           /\ suiteno \in Nat /\ dirno \in Nat
           /\ Len(Dirs[dirno].files) \in Nat
           /\ This[3] \in 1 .. Len(Dirs[dirno].files)
           /\ Snap = Dirs[dirno].files[This[3]]
           /\ FileNames(setting, This) = <<SuiteName, TcName, Snap.name>>
           /\ First(setting, baseTC, TcName)
           /\ SuiteName # Empty /\ TcName # Empty
           /\ Snap.name # Empty /\ <<SuiteName, TcName, Snap.name>> # Empty
           /\ \A v \in FilesOf(setting) :
                 v[1] = suiteno /\ v[2] = dirno /\ FileNames(setting, v)[3] = Snap.name => v = This
<1>1. /\ setting \in Settings /\ suiteno \in 0 .. Len(setting.suites) /\ suiteno # 0
      /\ dirno \in 0 .. Len(Dirs) /\ dirno # 0
      /\ First(setting, baseTC, TcName) /\ LeftOf(snaps, Dirs[dirno].files)
  BY DEF SnapInv, InHand
<1>2. suiteno \in 1 .. Len(setting.suites)
  <2>1. Len(setting.suites) \in Nat
    BY <1>1, SettingShape
  <2> QED BY <1>1, <2>1
<1>3. dirno \in 1 .. Len(Dirs)
  <2>1. Len(Dirs) \in Nat
    BY <1>1, <1>2, SuiteShape DEF Dirs
  <2> QED BY <1>1, <2>1
<1>4. suiteno \in Nat /\ SuiteName # Empty
  BY <1>1, <1>2, SuiteShape DEF SuiteName
<1>5. dirno \in Nat /\ TcName # Empty /\ Len(Dirs[dirno].files) \in Nat
  BY <1>1, <1>2, <1>3, DirShape DEF TcName, Dirs
<1>6. Len(snaps) \in Nat /\ Len(snaps) # 0 /\ IsList(snaps)
  <2>1. IsList(snaps)
    BY <1>1 DEF LeftOf
  <2>2. snaps \in Seq({snaps[i] : i \in DOMAIN snaps})
    BY <2>1, ListIs
  <2> QED BY <2>1, <2>2, EmptySeq, ListIs
<1>7. This[3] \in 1 .. Len(Dirs[dirno].files) /\ Snap = Dirs[dirno].files[This[3]]
  <2>1. PICK l \in 0 .. Len(Dirs[dirno].files) :
           /\ Len(snaps) = Len(Dirs[dirno].files) - l
           /\ \A i \in 1 .. Len(snaps) : snaps[i] = Dirs[dirno].files[l + i]
    BY <1>1 DEF LeftOf
  <2>2. 1 \in 1 .. Len(snaps) /\ This[3] = l + 1 /\ This[3] \in 1 .. Len(Dirs[dirno].files)
    BY <1>5, <1>6, <2>1 DEF This
  <2>3. Snap = snaps[1]
    BY DEF Snap
  <2> QED BY <2>1, <2>2, <2>3
<1>8. This \in FilesOf(setting)
  <2>1. This = <<This[1], This[2], This[3]>> /\ This[1] = suiteno /\ This[2] = dirno
    BY DEF This
  <2> QED BY <1>1, <1>2, <1>3, <1>7, <2>1, FileIs DEF Dirs
<1>9. FileNames(setting, This) = <<SuiteName, TcName, Snap.name>>
  BY <1>7 DEF This, FileNames, SuiteName, TcName, Dirs
<1>10. /\ Snap.name # Empty /\ <<SuiteName, TcName, Snap.name>> # Empty
       /\ \A l \in 1 .. Len(Dirs[dirno].files) : Dirs[dirno].files[l].name = Snap.name => l = This[3]
  <2>1. dirno \in 1 .. Len(setting.suites[suiteno].dirs)
        /\ This[3] \in 1 .. Len(setting.suites[suiteno].dirs[dirno].files)
    BY <1>3, <1>7 DEF Dirs
  <2> DEFINE f == setting.suites[suiteno].dirs[dirno].files
  <2>2. \A k \in 1 .. Len(f) :
           /\ f[k].name # Empty
           /\ <<setting.suites[suiteno].name, setting.suites[suiteno].dirs[dirno].name, f[k].name>> # Empty
           /\ \A l \in 1 .. Len(f) : f[l].name = f[k].name => l = k
    BY <1>1, <1>2, <2>1, SettingShape
  <2>3. Snap = f[This[3]] /\ This[3] \in 1 .. Len(f)
    BY <1>7 DEF Dirs
  <2> HIDE DEF f
  <2>4. f = Dirs[dirno].files /\ SuiteName = setting.suites[suiteno].name
        /\ TcName = setting.suites[suiteno].dirs[dirno].name
    BY DEF f, SuiteName, TcName, Dirs
  <2> QED BY <2>2, <2>3, <2>4
<1>11. ASSUME NEW v \in FilesOf(setting), v[1] = suiteno, v[2] = dirno, FileNames(setting, v)[3] = Snap.name
       PROVE  v = This
  <2>1. v = <<v[1], v[2], v[3]>> /\ v[3] \in 1 .. Len(Dirs[dirno].files)
    BY <1>1, <1>11, FileIs DEF Dirs
  <2>2. Dirs[dirno].files[v[3]].name = Snap.name
    BY <1>11 DEF FileNames, Dirs
  <2>3. v[3] = This[3]
    BY <1>10, <2>1, <2>2
  <2> QED BY <1>11, <2>1, <2>3 DEF This
<1> QED BY <1>1, <1>2, <1>3, <1>4, <1>5, <1>6, <1>7, <1>8, <1>9, <1>10, <1>11

LEMMA TakeIs ==
    ASSUME SnapInv, Take
    PROVE  /\ at = "snaps" /\ snaps # <<>>
           /\ UNCHANGED <<setting, suiteno, dirno, baseTC>>
           /\ SuiteName' = SuiteName /\ TcName' = TcName
           /\ at' \in {"snaps", "ended"} => InHand'
           /\ ~IsBehind(setting, suiteno, dirno, Len(snaps), This)
           /\ \A v \in FilesOf(setting) : IsBehind(setting, suiteno, dirno, Len(snaps'), v)
                                       <=> IsBehind(setting, suiteno, dirno, Len(snaps), v) \/ v = This
<1>1. /\ at = "snaps" /\ snaps # <<>> /\ snaps' = Tail(snaps)
      /\ UNCHANGED <<setting, suiteno, dirno, baseTC>>
      /\ SuiteName' = SuiteName /\ TcName' = TcName /\ Dirs' = Dirs
  BY DEF Take, SuiteName, TcName, Dirs
<1> DEFINE all == Dirs[dirno].files
<1>2. /\ setting \in Settings /\ This \in FilesOf(setting)
      /\ Len(snaps) \in Nat /\ Len(snaps) # 0 /\ IsList(snaps)
      /\ suiteno \in Nat /\ dirno \in Nat
      /\ Len(all) \in Nat /\ This[3] \in 1 .. Len(all)
  BY <1>1, ThisIs
<1>3. /\ IsList(Tail(snaps)) /\ Len(Tail(snaps)) = Len(snaps) - 1
      /\ \A i \in 1 .. Len(Tail(snaps)) : Tail(snaps)[i] = snaps[i + 1]
  <2> DEFINE X == {snaps[i] : i \in DOMAIN snaps}
  <2>1. snaps \in Seq(X)
    BY <1>2, ListIs
  <2> HIDE DEF X
  <2>2. /\ Tail(snaps) \in Seq(X) /\ Len(Tail(snaps)) = Len(snaps) - 1
        /\ \A i \in 1 .. Len(Tail(snaps)) : Tail(snaps)[i] = snaps[i + 1]
    BY <1>1, <1>2, <2>1
  <2>3. IsList(Tail(snaps))
    BY <2>2, SeqIsList
  <2> QED BY <2>2, <2>3
<1>4. LeftOf(Tail(snaps), all)
  <2>1. PICK l \in 0 .. Len(all) : /\ Len(snaps) = Len(all) - l
                                   /\ \A i \in 1 .. Len(snaps) : snaps[i] = all[l + i]
    BY <1>1 DEF SnapInv, InHand, LeftOf
  <2> HIDE DEF all
  <2>2. l + 1 \in 0 .. Len(all) /\ Len(Tail(snaps)) = Len(all) - (l + 1)
    BY <1>2, <1>3, <2>1
  <2>3. ASSUME NEW i \in 1 .. Len(Tail(snaps)) PROVE Tail(snaps)[i] = all[(l + 1) + i]
    <3>1. i + 1 \in 1 .. Len(snaps) /\ l + (i + 1) = (l + 1) + i
      BY <1>2, <1>3, <2>1
    <3> QED BY <1>3, <2>1, <3>1
  <2> QED BY <1>3, <2>2, <2>3 DEF LeftOf
<1>5. at' \in {"snaps", "ended"} => InHand'
  BY <1>1, <1>4 DEF SnapInv, InHand
<1>6. ~IsBehind(setting, suiteno, dirno, Len(snaps), This)
  <2>1. This[1] = suiteno /\ This[2] = dirno /\ ~(This[3] <= Len(all) - Len(snaps))
    BY <1>2 DEF This
  <2> QED BY <1>2, <2>1 DEF IsBehind, Dirs
<1>7. ASSUME NEW v \in FilesOf(setting)
      PROVE  IsBehind(setting, suiteno, dirno, Len(snaps'), v)
             <=> IsBehind(setting, suiteno, dirno, Len(snaps), v) \/ v = This
  <2>1. v[1] \in Nat /\ v[2] \in Nat /\ v[3] \in Nat /\ v = <<v[1], v[2], v[3]>>
    BY <1>2, FileShape, FileIs
  <2>2. This[1] = suiteno /\ This[2] = dirno /\ This[3] = Len(all) - Len(snaps) + 1
        /\ (v = This <=> v[1] = This[1] /\ v[2] = This[2] /\ v[3] = This[3])
    BY <2>1 DEF This
  <2>3. v[3] <= Len(all) - Len(snaps') <=> v[3] <= Len(all) - Len(snaps) \/ v[3] = This[3]
    <3>1. Len(snaps') = Len(snaps) - 1
      BY <1>1, <1>3
    <3>2. \A i \in Nat, m \in Nat, n \in Nat : i <= n - (m - 1) <=> i <= n - m \/ i = n - m + 1
      OBVIOUS
    <3> QED BY <1>2, <2>1, <2>2, <3>1, <3>2
  <2> QED BY <1>2, <2>1, <2>2, <2>3 DEF IsBehind, Dirs
<1> QED BY <1>1, <1>5, <1>6, <1>7

LEMMA IgnoredKeeps ==
    ASSUME SnapInv, Ignored PROVE SnapInv'
<1>1. /\ at = "snaps" /\ snaps # <<>>
      /\ UNCHANGED <<setting, suiteno, dirno, baseTC, at, firstRun, results, db, unread, lost>>
      /\ SuiteName' = SuiteName /\ TcName' = TcName /\ InHand'
      /\ Snap.name \in setting.failures
      /\ ~IsBehind(setting, suiteno, dirno, Len(snaps), This)
      /\ \A v \in FilesOf(setting) : IsBehind(setting, suiteno, dirno, Len(snaps'), v)
                                  <=> IsBehind(setting, suiteno, dirno, Len(snaps), v) \/ v = This
  BY TakeIs DEF Ignored
<1>2. Kept /\ Headed
  BY <1>1 DEF SnapInv
<1>3. ~IsWanted(setting, unread, This)
  <2>1. FileNames(setting, This)[3] = Snap.name
    BY <1>1, ThisIs
  <2> QED BY <1>1, <2>1 DEF IsWanted, FileNames
<1>4. UnreadBehind(setting, unread, suiteno, dirno, Len(snaps'))
  BY <1>1, <1>2 DEF Kept, UnreadBehind
<1>5. CountsAgree(setting, unread, suiteno, dirno, Len(snaps'), results)
  BY <1>1, <1>2, <1>3, CountsStay DEF Kept
<1>6. Kept' /\ Headed'
  BY <1>1, <1>2, <1>4, <1>5 DEF Kept, Headed
<1>7. RowsTrue(setting, results)' /\ DbKept'
  BY <1>1 DEF SnapInv, DbKept
<1> QED BY <1>1, <1>6, <1>7 DEF SnapInv

LEMMA IOFailsKeeps ==
    ASSUME SnapInv, IOFails PROVE SnapInv'
<1> DEFINE u == unread \cup {<<suiteno, dirno, Snap.name>>}
<1>1. /\ at = "snaps" /\ snaps # <<>> /\ unread' = u
      /\ UNCHANGED <<setting, suiteno, dirno, baseTC, at, firstRun, results, db, lost>>
      /\ SuiteName' = SuiteName /\ TcName' = TcName /\ InHand'
      /\ ~IsBehind(setting, suiteno, dirno, Len(snaps), This)
      /\ \A v \in FilesOf(setting) : IsBehind(setting, suiteno, dirno, Len(snaps'), v)
                                  <=> IsBehind(setting, suiteno, dirno, Len(snaps), v) \/ v = This
  BY TakeIs DEF IOFails, Compares
<1>2. Kept /\ Headed
  BY <1>1 DEF SnapInv
<1>3. /\ FileNames(setting, This)[3] = Snap.name /\ This[1] = suiteno /\ This[2] = dirno
      /\ \A v \in FilesOf(setting) :
            v[1] = suiteno /\ v[2] = dirno /\ FileNames(setting, v)[3] = Snap.name => v = This
  BY <1>1, ThisIs DEF This
<1>4. ASSUME NEW v \in FilesOf(setting)
      PROVE  /\ <<v[1], v[2], FileNames(setting, v)[3]>> \in u
                   <=> <<v[1], v[2], FileNames(setting, v)[3]>> \in unread \/ v = This
             /\ IsWanted(setting, u, v) <=> IsWanted(setting, unread, v) /\ v # This
  <2>1. <<v[1], v[2], FileNames(setting, v)[3]>> \in u
           <=> <<v[1], v[2], FileNames(setting, v)[3]>> \in unread \/ v = This
    BY <1>3
  <2> HIDE DEF u
  <2>2. FileNames(setting, v)[3] = setting.suites[v[1]].dirs[v[2]].files[v[3]].name
    BY DEF FileNames
  <2> QED BY <2>1, <2>2 DEF IsWanted
<1> HIDE DEF u
<1>5. UnreadBehind(setting, u, suiteno, dirno, Len(snaps'))
  BY <1>1, <1>2, <1>4 DEF Kept, UnreadBehind
<1>6. CountsAgree(setting, u, suiteno, dirno, Len(snaps'), results)
  BY <1>1, <1>2, <1>4, CountsStay DEF Kept
<1>7. Kept' /\ Headed'
  BY <1>1, <1>2, <1>5, <1>6 DEF Kept, Headed
<1>8. RowsTrue(setting, results)' /\ DbKept'
  BY <1>1 DEF SnapInv, DbKept
<1> QED BY <1>1, <1>7, <1>8 DEF SnapInv

LEMMA NoPictureKeeps ==
    ASSUME SnapInv, NoPicture PROVE SnapInv'
<1>1. /\ at # "ended" /\ at' = "ended" /\ InHand' /\ UNCHANGED <<setting, results, db, lost>>
  BY TakeIs DEF NoPicture, Compares, GoOn
<1>2. setting.logging => DbAgrees(results, db, lost, 0)
  BY <1>1 DEF SnapInv, DbKept
<1> QED BY <1>1, <1>2 DEF SnapInv, DbKept

-----------------------------------------------------------------------------
(* A verdict                                                               *)

LEMMA SaysIs ==
    ASSUME NEW row, NEW s, NEW c, NEW f, NEW g, Says(row, s, c, f, g)
    PROVE  /\ SnapIn(row) = f.name /\ row.result \in Marks
           /\ row.snap \in {f.name, <<s, c, f.name>>}
<1>1. CASE row.result \in Differing
  <2>1. row.snap = <<s, c, f.name>>
    BY <1>1 DEF Says, Differing
  <2>2. <<s, c, f.name>>[3] = f.name
    OBVIOUS
  <2> QED BY <1>1, <2>1, <2>2 DEF SnapIn, Marks, Differing
<1>2. CASE row.result \notin Differing
  BY <1>2 DEF Says, SnapIn, Marks, Differing
<1> QED BY <1>1, <1>2

\* R: the rows with the test case's name over the next verdict; v: the verdict,
\* e: its row in the database
LEMMA VerdictKeeps ==
    ASSUME SnapInv, Compares, unread' = unread,
           NEW R, IsList(R), RowsTrue(setting, R), \A n : RowsFor(R, n) = RowsFor(results, n),
           setting.logging => DbAgrees(R, db, lost, 0), Under(R, Len(R), SuiteName, TcName),
           NEW v, NEW e, Logged(R, v, e),
           v.suite = Empty, v.case = Empty, Says(v, SuiteName, TcName, Snap, BaseFiles),
           e.suite = SuiteName, e.case = TcName, e.snap = Snap.name, e.sizes = v.sizes,
           e.result = (IF v.result = "Not found in Base directory" THEN "SKIP" ELSE v.result)
    PROVE  SnapInv'
<1> DEFINE S == Append(R, v)
           i == Len(R) + 1
<1>1. /\ at = "snaps" /\ snaps # <<>>
      /\ setting' = setting /\ suiteno' = suiteno /\ dirno' = dirno
      /\ SuiteName' = SuiteName /\ TcName' = TcName
      /\ at' \in {"snaps", "ended"} => InHand'
      /\ ~IsBehind(setting, suiteno, dirno, Len(snaps), This)
      /\ \A y \in FilesOf(setting) : IsBehind(setting, suiteno, dirno, Len(snaps'), y)
                                  <=> IsBehind(setting, suiteno, dirno, Len(snaps), y) \/ y = This
  BY TakeIs DEF Compares
<1>2. Kept /\ Headed
  BY <1>1 DEF SnapInv
<1>3. /\ setting \in Settings /\ This \in FilesOf(setting)
      /\ suiteno \in 1 .. Len(setting.suites) /\ dirno \in 1 .. Len(Dirs)
      /\ This[3] \in 1 .. Len(Dirs[dirno].files) /\ Snap = Dirs[dirno].files[This[3]]
      /\ FileNames(setting, This) = <<SuiteName, TcName, Snap.name>>
      /\ First(setting, baseTC, TcName) /\ SuiteName # Empty /\ TcName # Empty
      /\ Snap.name # Empty /\ <<SuiteName, TcName, Snap.name>> # Empty
  BY <1>1, ThisIs
<1>4. SnapIn(v) = Snap.name /\ v.result # Empty /\ v.snap # Empty
  <2>1. /\ SnapIn(v) = Snap.name /\ v.result \in Marks
        /\ v.snap \in {Snap.name, <<SuiteName, TcName, Snap.name>>}
    BY SaysIs
  <2> QED BY <1>3, <2>1, SnapAssumption
<1>5. S[i] = v /\ IsList(S) /\ Len(S) = i /\ Under(S, i, SuiteName, TcName) /\ i \in Nat
  <2>1. S[i] = v /\ IsList(S) /\ Len(S) = i /\ i \in Nat
    <3>1. IsList(R) /\ Len(R) \in Nat
      BY ListIs
    <3> QED BY ONLY <3>1, AddRow
  <2>2. UnderSuite(S, i, SuiteName) /\ UnderCase(S, i, TcName)
    BY NamesAbove DEF Under
  <2> QED BY <2>1, <2>2 DEF Under
<1> HIDE DEF i
<1>6. RowTrue(setting, S, i)
  <2> HIDE DEF S
  <2>1. suiteno \in DOMAIN setting.suites /\ dirno \in DOMAIN setting.suites[suiteno].dirs
        /\ This[3] \in DOMAIN setting.suites[suiteno].dirs[dirno].files
    BY <1>3, SuiteShape, DirShape DEF Dirs
  <2>2. baseTC \in DOMAIN setting.base
    BY <1>3 DEF First
  <2>3. Told(setting, v, suiteno, dirno)
    BY <1>3, <1>4, <2>1, <2>2 DEF Told, SuiteName, TcName, Dirs, BaseFiles
  <2> QED BY <1>5, <2>1, <2>3 DEF RowTrue, SuiteName, TcName, Dirs
<1>7. Matches(S, i, e)
  <2> HIDE DEF S
  <2> QED BY <1>3, <1>4, <1>5 DEF Matches
<1>8. RowsTrue(setting, results)' /\ DbKept'
  <2>1. /\ RowsTrue(setting, results')
        /\ setting.logging => \E extra \in (IF at' = "ended" THEN {0, 1} ELSE {0}) :
              DbAgrees(results', db', lost', extra)
    BY <1>1, <1>3, <1>4, <1>6, <1>7, LoggedKeeps DEF i
  <2> QED BY <1>1, <2>1 DEF DbKept
<1>9. at' # "ended" => results' = S /\ at' = "snaps"
  BY <1>1 DEF Logged
<1>10. at' # "ended" => Headed'
  <2>1. results' = S => Len(results') = i
    BY <1>5
  <2> HIDE DEF S
  <2> QED BY <1>1, <1>5, <1>9, <2>1 DEF Headed, Under
<1>11. UnreadBehind(setting, unread, suiteno, dirno, Len(snaps'))
  BY <1>1, <1>2 DEF Kept, UnreadBehind
<1>12. CountsAgree(setting, unread, suiteno, dirno, Len(snaps'), S)
  <2>1. IsWanted(setting, unread, This)
    <3>1. This[1] = suiteno /\ This[2] = dirno /\ FileNames(setting, This)[3] = Snap.name
      <4>1. This[1] = suiteno /\ This[2] = dirno
        BY DEF This
      <4>2. \A a, b, c : <<a, b, c>>[3] = c
        OBVIOUS
      <4>3. FileNames(setting, This) = <<SuiteName, TcName, Snap.name>>
        BY <1>3
      <4>4. FileNames(setting, This)[3] = <<SuiteName, TcName, Snap.name>>[3]
        BY <4>3
      <4> HIDE DEF This
      <4> QED BY <4>1, <4>2, <4>4
    <3>2. <<suiteno, dirno, Snap.name>> \notin unread
      BY <1>1, <1>2, <1>3, <3>1 DEF Kept, UnreadBehind
    <3>3. ~NoneNamed(setting, TcName)
      BY <1>3 DEF First, NoneNamed
    <3> QED BY <3>1, <3>2, <3>3 DEF IsWanted, FileNames, TcName, Dirs, Compares
  <2>2. ASSUME NEW n
        PROVE  /\ RowsFor(S, n) = RowsFor(R, n) \cup
                    (IF v.snap # Empty /\ Under(S, i, n[1], n[2]) /\ SnapIn(v) = n[3] THEN {i} ELSE {})
               /\ i \notin RowsFor(R, n) /\ IsFiniteSet(RowsFor(R, n))
    BY ONLY <1>4, IsList(R), MarkedRow DEF i
  <2>3. ASSUME NEW y \in FilesOf(setting), NEW n, n = FileNames(setting, y)
        PROVE  RowsFor(S, n) = RowsFor(R, n) \cup (IF n = FileNames(setting, This) THEN {i} ELSE {})
    <3>1. n = <<n[1], n[2], n[3]>> /\ n[1] # Empty /\ n[2] # Empty
      <4>1. n[1] = setting.suites[y[1]].name /\ n[2] = setting.suites[y[1]].dirs[y[2]].name
            /\ n = <<n[1], n[2], n[3]>>
        BY <2>3 DEF FileNames
      <4>2. y[1] \in 1 .. Len(setting.suites) /\ y[2] \in 1 .. Len(setting.suites[y[1]].dirs)
        BY <1>3, FileShape
      <4>3. setting.suites[y[1]].name # Empty
        BY <1>3, <4>2, SuiteShape
      <4>4. setting.suites[y[1]].dirs[y[2]].name # Empty
        BY <1>3, <4>2, DirShape
      <4> QED BY <4>1, <4>3, <4>4
    <3> HIDE DEF S
    <3>2. Under(S, i, n[1], n[2]) <=> n[1] = SuiteName /\ n[2] = TcName
      BY <1>3, <1>5, <3>1, OneNameAbove DEF Under
    <3>3. n = FileNames(setting, This) <=> n[1] = SuiteName /\ n[2] = TcName /\ n[3] = Snap.name
      <4>1. n = FileNames(setting, This) => n[1] = SuiteName /\ n[2] = TcName /\ n[3] = Snap.name
        <5>1. \A a, b, c : <<a, b, c>>[1] = a /\ <<a, b, c>>[2] = b /\ <<a, b, c>>[3] = c
          OBVIOUS
        <5>2. n = FileNames(setting, This) => n = <<SuiteName, TcName, Snap.name>>
          BY <1>3
        <5> DEFINE t == <<SuiteName, TcName, Snap.name>>
        <5>3. t[1] = SuiteName /\ t[2] = TcName /\ t[3] = Snap.name
          BY <5>1
        <5>4. n = FileNames(setting, This) => n = t
          BY <5>2
        <5> HIDE DEF t
        <5> QED BY <5>3, <5>4
      <4> QED BY <1>3, <3>1, <4>1
    <3> QED BY <1>4, <2>2, <3>2, <3>3
  <2>4. CountsAgree(setting, unread, suiteno, dirno, Len(snaps), R)
    <3>1. \A y \in FilesOf(setting) : (IsWanted(setting, unread, y) /\ IsBehind(setting, suiteno, dirno, Len(snaps), y))
                                  <=> (IsWanted(setting, unread, y) /\ IsBehind(setting, suiteno, dirno, Len(snaps), y))
      OBVIOUS
    <3> QED BY <1>2, <3>1, CountsStay DEF Kept
  <2> HIDE DEF S
  <2>5. \A y \in FilesOf(setting) :
            (IsWanted(setting, unread, y) /\ IsBehind(setting, suiteno, dirno, Len(snaps'), y))
            <=> (IsWanted(setting, unread, y) /\ IsBehind(setting, suiteno, dirno, Len(snaps), y)) \/ y = This
    BY <1>1, <2>1
  <2>6. \A y \in FilesOf(setting) : LET n == FileNames(setting, y) IN
           RowsFor(S, n) = RowsFor(R, n) \cup (IF n = FileNames(setting, This) THEN {i} ELSE {})
    BY <2>3
  <2>7. \A n : i \notin RowsFor(R, n) /\ IsFiniteSet(RowsFor(R, n))
    BY <2>2
  <2>8. ~(IsWanted(setting, unread, This) /\ IsBehind(setting, suiteno, dirno, Len(snaps), This))
        /\ This \in FilesOf(setting)
    BY <1>1, <1>3
  <2>9. GrowsBy(setting, unread, suiteno, dirno, Len(snaps), R, Len(snaps'), S, This, i)
    BY <2>4, <2>5, <2>6, <2>7, <2>8 DEF GrowsBy
  <2> QED BY <2>9, CountsGrow
<1>13. at' # "ended" => Kept'
  BY <1>1, <1>9, <1>11, <1>12 DEF Kept
<1>14. InHand'
  BY <1>1, <1>9
<1> QED BY <1>1, <1>3, <1>8, <1>10, <1>13, <1>14 DEF SnapInv

\* The test case's name over the verdict
LEMMA HeadingIs ==
    ASSUME SnapInv, at = "snaps", snaps # <<>>
    PROVE  LET R == Append(results, Heading(TcName)) IN
           /\ IsList(R) /\ RowsTrue(setting, R) /\ \A n : RowsFor(R, n) = RowsFor(results, n)
           /\ setting.logging => DbAgrees(R, db, lost, 0)
           /\ Under(R, Len(R), SuiteName, TcName)
<1> DEFINE h == Heading(TcName)
           R == Append(results, h)
<1>1. h.suite = Empty /\ h.case = TcName /\ h.result = Empty /\ TcName # Empty
  BY ThisIs DEF Heading, Row
<1>2. IsList(results) /\ RowsTrue(setting, results) /\ (setting.logging => DbAgrees(results, db, lost, 0))
      /\ UnderSuite(results, Len(results), SuiteName)
  BY DEF SnapInv, DbKept, RowsTrue, Headed
<1> HIDE DEF h
<1>3. IsList(R) /\ Len(R) = Len(results) + 1
  BY <1>2, AddRow
<1>4. UnderSuite(R, Len(R), SuiteName) /\ UnderCase(R, Len(R), TcName)
  BY <1>1, <1>2, <1>3, NamesAbove
<1>5. /\ RowsTrue(setting, R) /\ \A n : RowsFor(R, n) = RowsFor(results, n)
      /\ setting.logging => DbAgrees(R, db, lost, 0)
  BY <1>1, <1>2, UnmarkedRow
<1> QED BY <1>3, <1>4, <1>5 DEF Under, h

LEMMA NamedVerdictKeeps ==
    ASSUME SnapInv, Compares, unread' = unread, NEW v, NEW e, Log(e, Name, <<v>>),
           v.suite = Empty, v.case = Empty, Says(v, SuiteName, TcName, Snap, BaseFiles),
           e.suite = SuiteName, e.case = TcName, e.snap = Snap.name, e.sizes = v.sizes,
           e.result = v.result, v.result # "Not found in Base directory"
    PROVE  SnapInv'
<1>1. at = "snaps" /\ snaps # <<>> /\ at # "ended"
  BY DEF Compares, Take
<1>2. IsList(results) /\ RowsTrue(setting, results) /\ (setting.logging => DbAgrees(results, db, lost, 0))
      /\ UnderSuite(results, Len(results), SuiteName)
  BY <1>1 DEF SnapInv, DbKept, RowsTrue, Headed
<1>3. CASE firstRun
  <2> DEFINE R == Append(results, Heading(TcName))
  <2>1. Logged(R, v, e)
    BY <1>2, <1>3, LogIs DEF Name
  <2>2. /\ IsList(R) /\ RowsTrue(setting, R) /\ \A n : RowsFor(R, n) = RowsFor(results, n)
        /\ setting.logging => DbAgrees(R, db, lost, 0)
        /\ Under(R, Len(R), SuiteName, TcName)
    BY <1>1, HeadingIs
  <2> HIDE DEF R
  <2> QED BY <2>1, <2>2, VerdictKeeps
<1>4. CASE ~firstRun
  <2>1. Logged(results, v, e)
    BY <1>2, <1>4, LogIs DEF Name
  <2>2. Under(results, Len(results), SuiteName, TcName)
    BY <1>1, <1>2, <1>4 DEF Under, SnapInv, Headed
  <2>3. \A n : RowsFor(results, n) = RowsFor(results, n)
    OBVIOUS
  <2> QED BY <1>2, <2>1, <2>2, <2>3, VerdictKeeps
<1> QED BY <1>3, <1>4

LEMMA EqualKeeps ==
    ASSUME SnapInv, Equal PROVE SnapInv'
<1> DEFINE v == Row(Empty, Empty, Snap.name, "PASS")
           e == SnapEntry(Snap.name, "PASS")
<1>1. Compares /\ Log(e, Name, <<v>>) /\ unread' = unread
  BY DEF Equal
<1>2. /\ v.suite = Empty /\ v.case = Empty /\ Says(v, SuiteName, TcName, Snap, BaseFiles)
      /\ e.suite = SuiteName /\ e.case = TcName /\ e.snap = Snap.name /\ e.sizes = v.sizes
      /\ e.result = v.result /\ v.result # "Not found in Base directory"
  BY DEF Equal, Row, SnapEntry, Says
<1> HIDE DEF v, e
<1> QED BY <1>1, <1>2, NamedVerdictKeeps

LEMMA UnequalKeeps ==
    ASSUME SnapInv, Unequal PROVE SnapInv'
<1> DEFINE b == BaseFiles[Snap.name]
           result == IF Snap.size # b.size THEN "FAIL - Resolution is mismatched" ELSE "FAIL"
           sizes == IF Snap.size # b.size THEN <<Snap.size, b.size>> ELSE Empty
           v == [Row(Empty, Empty, <<SuiteName, TcName, Snap.name>>, result) EXCEPT !.sizes = sizes]
           e == [SnapEntry(Snap.name, result) EXCEPT !.sizes = sizes]
<1>1. Compares /\ Log(e, Name, <<v>>) /\ unread' = unread
  BY DEF Unequal, Mismatch
<1>2. /\ v.suite = Empty /\ v.case = Empty /\ v.snap = <<SuiteName, TcName, Snap.name>>
      /\ v.result = result /\ v.sizes = sizes
      /\ e.suite = SuiteName /\ e.case = TcName /\ e.snap = Snap.name /\ e.sizes = sizes
      /\ e.result = result
  BY DEF Row, SnapEntry
<1>3. result \in Differing /\ result # "Not found in Base directory"
      /\ (result = "FAIL") = (b.size = Snap.size) /\ sizes \in {Empty, <<Snap.size, b.size>>}
  BY DEF Differing
<1>4. Snap.name \in DOMAIN BaseFiles /\ b.bytes # Snap.bytes
  BY DEF Unequal, Differ
<1> HIDE DEF v, e, result, sizes
<1>5. Says(v, SuiteName, TcName, Snap, BaseFiles)
  BY <1>2, <1>3, <1>4 DEF Says
<1> QED BY <1>1, <1>2, <1>3, <1>5, NamedVerdictKeeps

LEMMA NotFoundKeeps ==
    ASSUME SnapInv, NotFound PROVE SnapInv'
<1> DEFINE v == Row(Empty, Empty, Snap.name, "Not found in Base directory")
           e == SnapEntry(Snap.name, "SKIP")
           R == Append(results, Heading(TcName))
<1>1. Compares /\ Log(e, <<Heading(TcName), v>>, <<>>) /\ unread' = unread
      /\ at = "snaps" /\ snaps # <<>>
  BY DEF NotFound, Compares, Take
<1>2. /\ v.suite = Empty /\ v.case = Empty /\ Says(v, SuiteName, TcName, Snap, BaseFiles)
      /\ e.suite = SuiteName /\ e.case = TcName /\ e.snap = Snap.name /\ e.sizes = v.sizes
      /\ e.result = (IF v.result = "Not found in Base directory" THEN "SKIP" ELSE v.result)
  BY DEF NotFound, Row, SnapEntry, Says
<1> HIDE DEF v, e
<1>3. Logged(R, v, e)
  BY <1>1, LogIs DEF SnapInv, RowsTrue
<1>4. /\ IsList(R) /\ RowsTrue(setting, R) /\ \A n : RowsFor(R, n) = RowsFor(results, n)
      /\ setting.logging => DbAgrees(R, db, lost, 0)
      /\ Under(R, Len(R), SuiteName, TcName)
  BY <1>1, HeadingIs
<1> HIDE DEF R
<1> QED BY <1>1, <1>2, <1>3, <1>4, VerdictKeeps

LEMMA SnapKeeps == SnapInv /\ [SnapNext]_snapvars => SnapInv'
<1> SUFFICES ASSUME SnapInv, [SnapNext]_snapvars PROVE SnapInv'
  OBVIOUS
<1>1. CASE UNCHANGED snapvars
  BY <1>1 DEF snapvars, inhand, statics, SnapInv, InHand, Headed, Kept, DbKept, SuiteName, TcName, Dirs
<1>2. CASE SnapNext
  BY <1>2, SuiteKeeps, EndSnapsKeeps, EndDirsKeeps, FoundDirKeeps, NoDirKeeps, EqualKeeps,
     UnequalKeeps, NotFoundKeeps, IgnoredKeeps, IOFailsKeeps, NoPictureKeeps DEF SnapNext
<1> QED BY <1>1, <1>2

-----------------------------------------------------------------------------
(* What the invariant says to a reader                                     *)

\* The names above a verdict are those of one directory
LEMMA ReaderIs ==
    ASSUME SnapInv, NEW i \in VerdictRows
    PROVE  /\ i \in DOMAIN results /\ i \in Marked(results)
           /\ \E s \in DOMAIN setting.suites : \E d \in DOMAIN setting.suites[s].dirs :
                 /\ SuiteOf(i) = setting.suites[s].name /\ CaseOf(i) = setting.suites[s].dirs[d].name
                 /\ Under(results, i, SuiteOf(i), CaseOf(i))
                 /\ Told(setting, results[i], s, d)
           /\ SnapOf(i) = SnapIn(results[i])
<1>1. i \in DOMAIN results /\ i \in Marked(results) /\ IsList(results) /\ setting \in Settings
  BY DEF VerdictRows, Marked, SnapInv, RowsTrue
<1>2. PICK s \in DOMAIN setting.suites : \E d \in DOMAIN setting.suites[s].dirs :
         /\ Under(results, i, setting.suites[s].name, setting.suites[s].dirs[d].name)
         /\ Told(setting, results[i], s, d)
  BY <1>1 DEF SnapInv, RowsTrue, RowTrue
<1>3. PICK d \in DOMAIN setting.suites[s].dirs :
         /\ Under(results, i, setting.suites[s].name, setting.suites[s].dirs[d].name)
         /\ Told(setting, results[i], s, d)
  BY <1>2
<1>4. s \in 1 .. Len(setting.suites) /\ setting.suites[s].name # Empty
  <2>1. s \in 1 .. Len(setting.suites)
    BY <1>1, SettingShape
  <2> QED BY <1>1, <2>1, SuiteShape
<1>5. setting.suites[s].dirs[d].name # Empty
  <2>1. d \in 1 .. Len(setting.suites[s].dirs)
    BY <1>1, <1>4, SuiteShape
  <2> QED BY <1>1, <1>4, <2>1, DirShape
<1>6. SuiteOf(i) = setting.suites[s].name /\ CaseOf(i) = setting.suites[s].dirs[d].name
  BY <1>1, <1>3, <1>4, <1>5, ReaderFinds
<1> QED BY <1>1, <1>3, <1>6 DEF SnapOf, SnapIn

LEMMA BaselineIs ==
    ASSUME setting \in Settings, NEW i, NEW b, First(setting, b, CaseOf(i))
    PROVE  BaselineOf(i) = setting.base[b].files
<1> DEFINE c == CHOOSE y \in Named(CaseOf(i)) : \A other \in Named(CaseOf(i)) : y <= other
<1>1. b \in Named(CaseOf(i)) /\ \A other \in Named(CaseOf(i)) : b <= other
  BY DEF First, Named
<1>2. c \in Named(CaseOf(i)) /\ \A other \in Named(CaseOf(i)) : c <= other
  BY <1>1
<1>3. b \in Nat /\ c \in Nat
  BY <1>1, <1>2, SettingShape DEF Named
<1>4. b = c
  <2> HIDE DEF c
  <2> QED BY <1>1, <1>2, <1>3
<1> QED BY <1>4 DEF BaselineOf

LEMMA RowsAreTrueIs == SnapInv => RowsAreTrue
<1> SUFFICES ASSUME SnapInv, NEW i \in VerdictRows
             PROVE  IF results[i].snap = Empty THEN Named(CaseOf(i)) = {}
                    ELSE \E f \in SnapsNamed(i) :
                       CASE results[i].result = "PASS" ->
                               SnapOf(i) \in DOMAIN BaselineOf(i) /\ BaselineOf(i)[SnapOf(i)].bytes = f.bytes
                         [] results[i].result \in Differing ->
                               /\ SnapOf(i) \in DOMAIN BaselineOf(i)
                               /\ LET b == BaselineOf(i)[SnapOf(i)] IN
                                  /\ b.bytes # f.bytes
                                  /\ (results[i].result = "FAIL") = (b.size = f.size)
                                  /\ results[i].sizes \in {Empty, <<f.size, b.size>>}
                               /\ results[i].snap = <<SuiteOf(i), CaseOf(i), f.name>>
                         [] OTHER -> SnapOf(i) \notin DOMAIN BaselineOf(i)
  BY DEF RowsAreTrue
<1>1. PICK s \in DOMAIN setting.suites : \E d \in DOMAIN setting.suites[s].dirs :
                 /\ SuiteOf(i) = setting.suites[s].name /\ CaseOf(i) = setting.suites[s].dirs[d].name
                 /\ Told(setting, results[i], s, d)
  BY ReaderIs
<1>2. PICK d \in DOMAIN setting.suites[s].dirs :
                 /\ SuiteOf(i) = setting.suites[s].name /\ CaseOf(i) = setting.suites[s].dirs[d].name
                 /\ Told(setting, results[i], s, d)
  BY <1>1
<1>3. CASE results[i].snap = Empty
  BY <1>2, <1>3 DEF Told, NoneNamed, Named
<1>4. CASE results[i].snap # Empty
  <2>1. PICK k \in DOMAIN setting.suites[s].dirs[d].files : \E b \in DOMAIN setting.base :
           /\ First(setting, b, CaseOf(i))
           /\ Says(results[i], SuiteOf(i), CaseOf(i), setting.suites[s].dirs[d].files[k], setting.base[b].files)
    BY <1>2, <1>4 DEF Told
  <2>2. PICK b \in DOMAIN setting.base :
           /\ First(setting, b, CaseOf(i))
           /\ Says(results[i], SuiteOf(i), CaseOf(i), setting.suites[s].dirs[d].files[k], setting.base[b].files)
    BY <2>1
  <2> DEFINE f == setting.suites[s].dirs[d].files[k]
             g == setting.base[b].files
  <2>3. BaselineOf(i) = g /\ SnapOf(i) = f.name
    BY <2>2, BaselineIs, SaysIs, ReaderIs DEF SnapInv
  <2>4. f \in SnapsNamed(i)
    BY <1>2, <2>3 DEF SnapsNamed
  <2> HIDE DEF f, g
  <2>5. Says(results[i], SuiteOf(i), CaseOf(i), f, g)
    BY <2>2 DEF f, g
  <2>6. CASE results[i].result = "PASS"
    BY <1>4, <2>3, <2>4, <2>5, <2>6 DEF Says, Differing
  <2>7. CASE results[i].result \in Differing
    <3>1. /\ results[i].snap = <<SuiteOf(i), CaseOf(i), f.name>>
          /\ f.name \in DOMAIN g /\ g[f.name].bytes # f.bytes
          /\ (results[i].result = "FAIL") = (g[f.name].size = f.size)
          /\ results[i].sizes \in {Empty, <<f.size, g[f.name].size>>}
      BY <2>5, <2>7 DEF Says, Differing
    <3>2. results[i].result # "PASS"
      BY <2>7 DEF Differing
    <3> QED BY <1>4, <2>3, <2>4, <2>7, <3>1, <3>2
  <2>8. CASE results[i].result = "Not found in Base directory"
    <3>1. f.name \notin DOMAIN g /\ results[i].result \notin Differing /\ results[i].result # "PASS"
      BY <2>5, <2>8 DEF Says, Differing
    <3> QED BY <1>4, <2>3, <2>4, <3>1
  <2> QED BY <2>5, <2>6, <2>7, <2>8 DEF Says
<1> QED BY <1>3, <1>4

LEMMA SnapsAreComparedIs == SnapInv => SnapsAreCompared
<1> SUFFICES ASSUME SnapInv, at = "done", NEW w \in Wanted
             PROVE  Cardinality({v \in Wanted : NamesOf(v) = NamesOf(w)}) =
                    Cardinality({i \in VerdictRows :
                        results[i].snap # Empty /\ <<SuiteOf(i), CaseOf(i), SnapOf(i)>> = NamesOf(w)})
  BY DEF SnapsAreCompared
<1> DEFINE n == NamesOf(w)
<1>1. /\ setting \in Settings /\ Kept /\ snaps = <<>> /\ Len(<<>>) = 0
      /\ suiteno = Len(setting.suites) /\ suiteno \in 0 .. Len(setting.suites)
      /\ suiteno = 0 => dirno = 0
      /\ suiteno # 0 => dirno = Len(setting.suites[suiteno].dirs)
  BY DEF SnapInv, InHand, Dirs
<1>2. \A v : v \in Wanted <=> v \in FilesOf(setting) /\ IsWanted(setting, unread, v)
  BY DEF Wanted, FilesOf, IsWanted, Named, NoneNamed
<1>3. \A v : NamesOf(v) = FileNames(setting, v)
  BY DEF NamesOf, FileNames
<1>4. ASSUME NEW v \in FilesOf(setting) PROVE IsBehind(setting, suiteno, dirno, 0, v)
  <2>1. v[1] <= suiteno
    BY <1>1, FileShape
  <2> QED BY <1>1, <2>1, Behind
<1>5. {v \in Wanted : NamesOf(v) = n} = Counted(setting, unread, suiteno, dirno, 0, n)
  BY <1>2, <1>3, <1>4 DEF Counted
<1>6. n = <<n[1], n[2], n[3]>> /\ n[1] # Empty /\ n[2] # Empty /\ w \in FilesOf(setting)
  <2>1. w \in FilesOf(setting)
    BY <1>2
  <2>2. w[1] \in 1 .. Len(setting.suites) /\ w[2] \in 1 .. Len(setting.suites[w[1]].dirs)
    BY <1>1, <2>1, FileShape
  <2>3. setting.suites[w[1]].name # Empty
    BY <1>1, <2>2, SuiteShape
  <2>4. setting.suites[w[1]].dirs[w[2]].name # Empty
    <3>1. setting \in Settings
      BY <1>1
    <3> QED BY ONLY <2>2, <3>1, DirShape
  <2> QED BY <2>1, <2>3, <2>4 DEF NamesOf
<1>7. ASSUME NEW i \in VerdictRows
      PROVE  <<SuiteOf(i), CaseOf(i), SnapOf(i)>> = n
             <=> Under(results, i, n[1], n[2]) /\ SnapIn(results[i]) = n[3]
  <2> HIDE DEF n
  <2>1. /\ i \in DOMAIN results /\ IsList(results)
        /\ Under(results, i, SuiteOf(i), CaseOf(i)) /\ SnapOf(i) = SnapIn(results[i])
    BY ReaderIs DEF SnapInv, RowsTrue
  <2>2. Under(results, i, n[1], n[2]) => n[1] = SuiteOf(i) /\ n[2] = CaseOf(i)
    BY <1>6, <2>1, ReaderFinds
  <2>3. <<SuiteOf(i), CaseOf(i), SnapOf(i)>> = n => n[1] = SuiteOf(i) /\ n[2] = CaseOf(i) /\ n[3] = SnapOf(i)
    OBVIOUS
  <2> QED BY <1>6, <2>1, <2>2, <2>3
<1>8. {i \in VerdictRows : results[i].snap # Empty /\ <<SuiteOf(i), CaseOf(i), SnapOf(i)>> = n}
      = RowsFor(results, n)
  <2>1. VerdictRows = Marked(results)
    BY DEF VerdictRows, Marked
  <2> HIDE DEF n
  <2> QED BY <1>7, <2>1 DEF RowsFor
<1>9. CountsAgree(setting, unread, suiteno, dirno, 0, results)
  BY <1>1 DEF Kept
<1>10. Cardinality(Counted(setting, unread, suiteno, dirno, 0, n)) = Cardinality(RowsFor(results, n))
  BY <1>3, <1>6, <1>9 DEF CountsAgree
<1> QED BY <1>5, <1>8, <1>10

\* No two verdicts have one rank
LEMMA RankIs ==
    ASSUME NEW R, IsList(R), NEW i \in Marked(R), NEW j \in Marked(R), Rank(R, i) = Rank(R, j)
    PROVE  i = j
<1>1. IsFiniteSet(Marked(R)) /\ Marked(R) \in SUBSET (1 .. Len(R)) /\ Len(R) \in Nat
  BY MarkedIs, ListIs
<1>2. ASSUME NEW h \in Marked(R), NEW l \in Marked(R), h < l PROVE Rank(R, h) # Rank(R, l)
  <2> DEFINE A == {y \in Marked(R) : y <= h}
             B == {y \in Marked(R) : y <= l}
  <2>1. A \subseteq B /\ l \in B /\ l \notin A
    BY <1>1, <1>2
  <2>2. IsFiniteSet(B)
    BY <1>1, FS_Subset
  <2> HIDE DEF A, B
  <2>3. Cardinality(A) # Cardinality(B)
    BY <2>1, <2>2, FS_Subset
  <2> QED BY <2>3 DEF Rank, A, B
<1>3. i \in Nat /\ j \in Nat
  BY <1>1
<1> QED BY <1>2, <1>3

LEMMA DbIsTheReportIs == SnapInv => DbIsTheReport
<1> SUFFICES ASSUME SnapInv, setting.logging
             PROVE  /\ Len(db) + lost - Cardinality(VerdictRows) \in (IF at = "ended" THEN {0, 1} ELSE {0})
                    /\ lost = 0 => \A k \in DOMAIN db :
                        LET i == VerdictOf(k) IN
                        /\ db[k].suite = SuiteOf(i) /\ db[k].case = CaseOf(i)
                        /\ db[k].sizes = results[i].sizes
                        /\ db[k].result = (IF results[i].result = "Not found in Base directory"
                                           THEN "SKIP" ELSE results[i].result)
                        /\ results[i].snap # Empty => db[k].snap = SnapOf(i)
  BY DEF DbIsTheReport
<1>1. VerdictRows = Marked(results) /\ IsList(results)
  BY DEF VerdictRows, Marked, SnapInv, RowsTrue
<1>2. PICK extra \in (IF at = "ended" THEN {0, 1} ELSE {0}) : DbAgrees(results, db, lost, extra)
  BY DEF SnapInv, DbKept
<1>3. Len(db) + lost - Cardinality(VerdictRows) = extra
  <2>1. Cardinality(Marked(results)) \in Nat
    BY <1>1, MarkedIs
  <2> QED BY <1>1, <1>2, <2>1, ListIs DEF DbAgrees
<1>4. ASSUME lost = 0, NEW k \in DOMAIN db, NEW i, i = VerdictOf(k)
      PROVE  /\ db[k].suite = SuiteOf(i) /\ db[k].case = CaseOf(i)
             /\ db[k].sizes = results[i].sizes
             /\ db[k].result = (IF results[i].result = "Not found in Base directory"
                                THEN "SKIP" ELSE results[i].result)
             /\ results[i].snap # Empty => db[k].snap = SnapOf(i)
  <2>1. PICK j \in Marked(results) : Rank(results, j) = k /\ Matches(results, j, db[k])
    BY <1>2, <1>4 DEF DbAgrees
  <2>2. i \in VerdictRows /\ Cardinality({y \in VerdictRows : y <= i}) = k
    <3>1. Cardinality({y \in VerdictRows : y <= j}) = k
      BY <1>1, <2>1 DEF Rank
    <3> QED BY <1>1, <1>4, <2>1, <3>1 DEF VerdictOf
  <2>3. i = j
    BY <1>1, <2>1, <2>2, RankIs DEF Rank
  <2>4. Matches(results, i, db[k]) /\ i \in DOMAIN results /\ SnapOf(i) = SnapIn(results[i])
    BY <2>1, <2>2, <2>3, ReaderIs
  <2>5. db[k].suite = SuiteOf(i) /\ db[k].case = CaseOf(i)
    BY <1>1, <2>4, ReaderFinds DEF Matches
  <2> QED BY <2>4, <2>5 DEF Matches
<1> QED BY <1>2, <1>3, <1>4

\* Results.xls is true in every run of main, whatever the suites, the
\* baselines and the errors: under the names above a row is a snapshot with its
\* verdict and sizes; at the end every snapshot that could be read has its row;
\* and the database, as far as it takes the rows, says the same.  The names are
\* written once, and what a row says is in static fields (SuiteComparison.java).
THEOREM SnapReportTrue == SnapSpec => []SnapReportIsTrue
<1>1. SnapInv => SnapReportIsTrue
  BY RowsAreTrueIs, SnapsAreComparedIs, DbIsTheReportIs DEF SnapReportIsTrue
<1> QED BY <1>1, SnapStarts, SnapKeeps, PTL DEF SnapSpec

=============================================================================
