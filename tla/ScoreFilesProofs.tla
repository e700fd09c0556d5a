-------------------------- MODULE ScoreFilesProofs --------------------------
(***************************************************************************)
(* Theorems about ScoreFiles, for any data files, requests, labels,        *)
(* references, tolerances and errors: the files of a row are of one        *)
(* transaction, and what a run's outcome says of the scores it printed.    *)
(*                                                                         *)
(* The first needs only that Tx is one value while a row is worked on; the *)
(* others need what read_csv makes of a file, by induction over its lines, *)
(* and how far the printing moves a logit.                                 *)
(***************************************************************************)
EXTENDS ScoreFiles, WellFoundedInduction, TLAPS

\* The files of each row, and that results.csv is a sequence.
Shapes ==
  /\ file \in Files /\ request \in Requests
  /\ copy = [r \in Rows |-> copy[r]]
  /\ truth = [r \in Rows |-> truth[r]]
  /\ result = [r \in Rows |-> result[r]]
  /\ \E S : csv \in Seq(S)

\* Lines of results.csv are those of the row list, in order.
InOrder ==
  /\ Len(csv) <= Len(row_list)
  /\ \A i \in 1 .. Len(csv) : csv[i].row = row_list[i]

\* What has been written of the row at each stage.
RowData ==
  /\ pc \in {"stage", "truth", "compute", "decrypt"} => RowsLeft /\ copy[Row] = Tx
  /\ pc \in {"truth", "compute"} => staged = Tx
  /\ pc \in {"compute", "decrypt"} => truth[Row] \in {Label[Tx], -1}
  /\ pc = "decrypt" => result[Row] = Tx

Together ==
  \A i \in 1 .. Len(csv) :
    csv[i].truth \in {Label[csv[i].tx], -1} /\ csv[i].tx = copy[csv[i].row]

ScoreInv == Shapes /\ InOrder /\ RowData /\ Together

-----------------------------------------------------------------------------
\* A row list is a sequence of different rows.
LEMMA RowList ==
  ASSUME file \in Files, request \in Requests
  PROVE  /\ Len(row_list) \in Nat
         /\ \A i \in 1 .. Len(row_list) : row_list[i] \in Rows
         /\ \A i, j \in 1 .. Len(row_list) : row_list[i] = row_list[j] => i = j
<1>1. Len(file) \in Nat /\ \A i \in 1 .. Len(file) : i - 1 \in Rows
  BY ScoreAssumption
<1>2. CASE request \in [row : Rows]
  <2>1. row_list = <<request.row>> /\ request.row \in Rows
    BY <1>2 DEF row_list
  <2> QED BY <2>1
<1>3. CASE request \in [rows : Nat]
  <2> DEFINE n == IF request.rows < avail THEN request.rows ELSE avail
  <2>1. n \in Nat /\ n <= Len(file)
    BY <1>1, <1>3 DEF avail
  <2>2. row_list = [i \in 1 .. n |-> i - 1]
    BY <1>3 DEF row_list
  <2>3. row_list \in Seq(Int) /\ Len(row_list) = n
    <3> HIDE DEF n
    <3> QED BY <2>1, <2>2
  <2>4. \A i \in 1 .. n : i \in 1 .. Len(file) /\ row_list[i] = i - 1
    <3> HIDE DEF n
    <3> QED BY <1>1, <2>1, <2>2
  <2> HIDE DEF n
  <2>5. \A i \in 1 .. n : row_list[i] \in Rows
    BY <1>1, <2>4
  <2>6. \A i, j \in 1 .. n : row_list[i] = row_list[j] => i = j
    BY <2>1, <2>4
  <2> QED BY <2>1, <2>3, <2>5, <2>6
<1> QED BY <1>2, <1>3, ScoreAssumption

\* The same after a step.
LEMMA RowListNext ==
  ASSUME file' \in Files, request' \in Requests
  PROVE  Len(row_list') \in Nat
<1>1. (file \in Files /\ request \in Requests => Len(row_list) \in Nat)'
  BY RowList, PTL
<1> QED BY <1>1

\* A line at the end of results.csv leaves those before it.
LEMMA Appended ==
  ASSUME NEW S, NEW s \in Seq(S), NEW e
  PROVE  /\ Append(s, e) \in Seq(S \union {e})
         /\ Len(Append(s, e)) = Len(s) + 1
         /\ \A i \in 1 .. Len(s) : Append(s, e)[i] = s[i]
         /\ Append(s, e)[Len(s) + 1] = e
<1>1. s \in Seq(S \union {e})
  OBVIOUS
<1> QED BY <1>1

\* The row in work is a row, and no line is of it.
LEMMA NextRow ==
  ASSUME Shapes, InOrder, RowsLeft
  PROVE  /\ Row \in Rows
         /\ Len(csv) \in Nat
         /\ \A i \in 1 .. Len(csv) : csv[i].row \in Rows /\ csv[i].row # Row
<1>1. Len(csv) \in Nat
  BY DEF Shapes
<1>2. Len(csv) + 1 \in 1 .. Len(row_list)
  BY <1>1, RowList DEF Shapes, RowsLeft
<1>3. \A i \in 1 .. Len(csv) : i \in 1 .. Len(row_list) /\ i # Len(csv) + 1
  BY <1>1, <1>2, RowList DEF Shapes
<1> QED BY <1>1, <1>2, <1>3, RowList DEF Shapes, InOrder, Row

-----------------------------------------------------------------------------
LEMMA ScoreInit == Init => ScoreInv
<1> SUFFICES ASSUME Init PROVE ScoreInv
  OBVIOUS
<1>1. csv = << >> /\ Len(csv) = 0 /\ csv \in Seq({})
  BY DEF Init
<1>2. Shapes
  <2>1. \E S : csv \in Seq(S)
    BY <1>1
  <2> QED BY <2>1, Zenon DEF Init, Shapes
<1>3. InOrder
  BY <1>1, <1>2, RowList DEF InOrder, Shapes
<1> QED BY <1>1, <1>2, <1>3 DEF Init, ScoreInv, RowData, Together

\* The row in work is the same as long as the arguments and the lines are.
LEMMA SameRow ==
  ASSUME UNCHANGED <<file, request, csv>>
  PROVE  /\ row_list' = row_list
         /\ Row' = Row /\ Tx' = Tx /\ RowsLeft' = RowsLeft
         /\ InOrder' = InOrder
<1>1. row_list' = row_list
  BY DEF row_list, avail
<1>2. Row' = Row
  BY <1>1 DEF Row
<1>3. Tx' = Tx
  BY <1>1, <1>2 DEF Tx
<1>4. RowsLeft' = RowsLeft
  BY <1>1 DEF RowsLeft
<1>5. InOrder' = InOrder
  BY <1>1, Zenon DEF InOrder
<1> QED BY <1>1, <1>2, <1>3, <1>4, <1>5

\* What a step that touches no file and no line needs.
LEMMA QuietStep ==
  ASSUME ScoreInv, UNCHANGED <<file, request, csv, disk>>,
         pc' \in {pc, "idle"}
  PROVE  ScoreInv'
<1>1. copy' = copy /\ staged' = staged /\ truth' = truth /\ result' = result
  BY DEF disk
<1>2. Shapes'
  BY <1>1, Zenon DEF ScoreInv, Shapes
<1>3. InOrder'
  BY SameRow DEF ScoreInv
<1>4. RowData'
  BY <1>1, SameRow DEF ScoreInv, RowData
<1>5. Together'
  BY <1>1 DEF ScoreInv, Together
<1> QED BY <1>2, <1>3, <1>4, <1>5 DEF ScoreInv

-----------------------------------------------------------------------------
\* The steps that write

LEMMA BeginKeeps == ScoreInv /\ Begin => ScoreInv'
<1> SUFFICES ASSUME ScoreInv, Begin PROVE ScoreInv'
  OBVIOUS
<1>1. csv' = << >> /\ Len(csv') = 0 /\ csv' \in Seq({}) /\ pc' = "copy"
  BY DEF Begin
<1>2. Shapes'
  <2>1. file' \in Files /\ request' \in Requests
    BY DEF Begin, ScoreInv, Shapes
  <2>2. copy' = [r \in Rows |-> copy'[r]] /\ truth' = [r \in Rows |-> truth'[r]]
          /\ result' = [r \in Rows |-> result'[r]]
    BY DEF Begin, NoFiles, disk, ScoreInv, Shapes
  <2>3. \E S : csv' \in Seq(S)
    BY <1>1
  <2> QED BY <2>1, <2>2, <2>3, Zenon DEF Shapes
<1>3. InOrder'
  <2>1. Len(row_list') \in Nat
    BY <1>2, RowListNext DEF Shapes
  <2> QED BY <1>1, <2>1 DEF InOrder
<1> QED BY <1>1, <1>2, <1>3
      DEF ScoreInv, RowData, Together

LEMMA WriteCopyKeeps == ScoreInv /\ WriteCopy => ScoreInv'
<1> SUFFICES ASSUME ScoreInv, WriteCopy PROVE ScoreInv'
  OBVIOUS
<1>1. /\ UNCHANGED <<file, request, csv, staged, truth, result>>
      /\ pc' = "stage" /\ RowsLeft
      /\ copy' = [copy EXCEPT ![Row] = Tx]
  BY DEF WriteCopy, Step, run
<1>2. Row \in Rows /\ \A i \in 1 .. Len(csv) : csv[i].row \in Rows /\ csv[i].row # Row
  BY <1>1, NextRow DEF ScoreInv
<1>3. copy' = [r \in Rows |-> copy'[r]] /\ copy'[Row] = Tx
        /\ \A r \in Rows \ {Row} : copy'[r] = copy[r]
  BY <1>1, <1>2 DEF ScoreInv, Shapes
<1>4. Shapes'
  BY <1>1, <1>3, Zenon DEF ScoreInv, Shapes
<1>5. InOrder' /\ RowData'
  BY <1>1, <1>3, SameRow DEF ScoreInv, RowData
<1>6. Together'
  BY <1>1, <1>2, <1>3 DEF ScoreInv, Together
<1> QED BY <1>4, <1>5, <1>6 DEF ScoreInv

LEMMA StageKeeps == ScoreInv /\ Stage => ScoreInv'
<1> SUFFICES ASSUME ScoreInv, Stage PROVE ScoreInv'
  OBVIOUS
<1>1. /\ UNCHANGED <<file, request, csv, copy, truth, result>>
      /\ pc = "stage" /\ pc' = "truth" /\ staged' = Tx
  BY DEF Stage, Step, run
<1>2. Shapes'
  BY <1>1, Zenon DEF ScoreInv, Shapes
<1>3. InOrder' /\ RowData'
  BY <1>1, SameRow DEF ScoreInv, RowData
<1>4. Together'
  BY <1>1 DEF ScoreInv, Together
<1> QED BY <1>2, <1>3, <1>4 DEF ScoreInv

LEMMA WriteTruthKeeps == ScoreInv /\ WriteTruth => ScoreInv'
<1> SUFFICES ASSUME ScoreInv, WriteTruth PROVE ScoreInv'
  OBVIOUS
<1>1. /\ UNCHANGED <<file, request, csv, copy, staged, result>>
      /\ pc = "truth" /\ pc' = "compute"
      /\ \E written \in {Label[Tx], -1} : truth' = [truth EXCEPT ![Row] = written]
  BY DEF WriteTruth, Step, run
<1>2. Row \in Rows
  BY <1>1, NextRow DEF ScoreInv, RowData
<1>3. truth' = [r \in Rows |-> truth'[r]] /\ truth'[Row] \in {Label[Tx], -1}
  BY <1>1, <1>2 DEF ScoreInv, Shapes
<1>4. Shapes'
  BY <1>1, <1>3, Zenon DEF ScoreInv, Shapes
<1>5. InOrder' /\ RowData'
  BY <1>1, <1>3, SameRow DEF ScoreInv, RowData
<1>6. Together'
  BY <1>1 DEF ScoreInv, Together
<1> QED BY <1>4, <1>5, <1>6 DEF ScoreInv

LEMMA ComputeKeeps == ScoreInv /\ Compute => ScoreInv'
<1> SUFFICES ASSUME ScoreInv, Compute PROVE ScoreInv'
  OBVIOUS
<1>1. /\ UNCHANGED <<file, request, csv, copy, staged, truth>>
      /\ pc = "compute" /\ pc' = "decrypt"
      /\ result' = [result EXCEPT ![Row] = staged]
  BY DEF Compute, Step, run
<1>2. Row \in Rows
  BY <1>1, NextRow DEF ScoreInv, RowData
<1>3. result' = [r \in Rows |-> result'[r]] /\ result'[Row] = staged
  BY <1>1, <1>2 DEF ScoreInv, Shapes
<1>4. Shapes'
  BY <1>1, <1>3, Zenon DEF ScoreInv, Shapes
<1>5. InOrder' /\ RowData'
  BY <1>1, <1>3, SameRow DEF ScoreInv, RowData
<1>6. Together'
  BY <1>1 DEF ScoreInv, Together
<1> QED BY <1>4, <1>5, <1>6 DEF ScoreInv

LEMMA DecryptKeeps == ScoreInv /\ Decrypt => ScoreInv'
<1> SUFFICES ASSUME ScoreInv, Decrypt PROVE ScoreInv'
  OBVIOUS
<1>1. /\ UNCHANGED <<file, request, copy, staged, truth, result>>
      /\ pc = "decrypt" /\ pc' = "copy"
  BY DEF Decrypt, Step, run, disk
<1>2. PICK line : /\ csv' = Append(csv, line)
                  /\ line.row = Row /\ line.tx = result[Row] /\ line.truth = truth[Row]
  <2>1. PICK logits, pred :
          csv' = Append(csv, [row |-> Row, tx |-> result[Row], truth |-> truth[Row],
                              logits |-> logits, pred |-> pred])
    BY Zenon DEF Decrypt
  <2> QED BY <2>1
<1>3. PICK S : csv \in Seq(S)
  BY DEF ScoreInv, Shapes
<1>4. /\ csv' \in Seq(S \union {line}) /\ Len(csv) \in Nat /\ Len(csv') = Len(csv) + 1
      /\ \A i \in 1 .. Len(csv) : csv'[i] = csv[i]
      /\ csv'[Len(csv) + 1] = line
  BY <1>2, <1>3, Appended
<1>5. Shapes'
  <2>1. \E T : csv' \in Seq(T)
    BY <1>4
  <2> QED BY <1>1, <2>1, Zenon DEF ScoreInv, Shapes
<1>6. row_list' = row_list /\ Len(row_list) \in Nat
  BY <1>1, RowList DEF row_list, avail, ScoreInv, Shapes
<1>7. InOrder'
  <2>1. Len(csv) < Len(row_list) /\ line.row = row_list[Len(csv) + 1]
    BY <1>1, <1>2 DEF ScoreInv, RowData, RowsLeft, Row
  <2>2. \A i \in 1 .. Len(csv') : csv'[i].row = row_list[i]
    <3>1. \A i \in 1 .. Len(csv) : csv'[i].row = row_list[i]
      BY <1>4 DEF ScoreInv, InOrder
    <3>2. csv'[Len(csv) + 1].row = row_list[Len(csv) + 1]
      BY <1>4, <2>1
    <3> QED BY <1>4, <3>1, <3>2
  <2>3. Len(csv') <= Len(row_list)
    BY <1>4, <1>6, <2>1
  <2> QED BY <1>6, <2>2, <2>3 DEF InOrder
<1>8. Together'
  <2>1. line.truth \in {Label[line.tx], -1} /\ line.tx = copy[line.row]
    BY <1>1, <1>2 DEF ScoreInv, RowData
  <2> QED BY <1>1, <1>4, <2>1 DEF ScoreInv, Together
<1> QED BY <1>1, <1>5, <1>7, <1>8 DEF ScoreInv, RowData

LEMMA KillKeeps == ScoreInv /\ Kill => ScoreInv'
<1> SUFFICES ASSUME ScoreInv, Kill PROVE ScoreInv'
  OBVIOUS
<1>1. UNCHANGED <<file, request, csv>> /\ pc' = "idle"
  BY DEF Kill, run
<1>2. CASE UNCHANGED disk
  BY <1>1, <1>2, QuietStep
<1>3. CASE /\ pc = "truth" /\ truth' = [truth EXCEPT ![Row] = -1]
           /\ UNCHANGED <<copy, staged, result>>
  <2>1. truth' = [r \in Rows |-> truth'[r]]
    <3>1. Row \in Rows
      BY <1>3, NextRow DEF ScoreInv, RowData
    <3> QED BY <1>3, <3>1 DEF ScoreInv, Shapes
  <2>2. Shapes'
    BY <1>1, <1>3, <2>1, Zenon DEF ScoreInv, Shapes
  <2>3. InOrder'
    BY <1>1, SameRow DEF ScoreInv
  <2>4. Together'
    BY <1>1, <1>3 DEF ScoreInv, Together
  <2> QED BY <1>1, <2>2, <2>3, <2>4 DEF ScoreInv, RowData
<1> QED BY <1>2, <1>3 DEF Kill

-----------------------------------------------------------------------------
LEMMA ScoreNext == ScoreInv /\ [Next]_vars => ScoreInv'
<1> SUFFICES ASSUME ScoreInv, [Next]_vars PROVE ScoreInv'
  OBVIOUS
<1>1. CASE Begin
  BY <1>1, BeginKeeps
<1>2. CASE WriteCopy
  BY <1>2, WriteCopyKeeps
<1>3. CASE BadRow
  BY <1>3, QuietStep DEF BadRow, Step, run
<1>4. CASE Stage
  BY <1>4, StageKeeps
<1>5. CASE WriteTruth
  BY <1>5, WriteTruthKeeps
<1>6. CASE Compute
  BY <1>6, ComputeKeeps
<1>7. CASE Decrypt
  BY <1>7, DecryptKeeps
<1>8. CASE Kill
  BY <1>8, KillKeeps
<1>9. CASE Check
  BY <1>9, QuietStep DEF Check, run
<1>10. CASE NoFeatures
  BY <1>10, QuietStep DEF NoFeatures, run
<1>11. CASE Report
  BY <1>11, QuietStep DEF Report, Step, run
<1>12. CASE UNCHANGED vars
  BY <1>12, QuietStep DEF vars, disk
<1> QED
  BY <1>1, <1>2, <1>3, <1>4, <1>5, <1>6, <1>7, <1>8, <1>9, <1>10, <1>11, <1>12
  DEF Next, Finished

\* The files of each row at every step, whatever was killed or kept.
LEMMA ScoreInvariant == Spec => []ScoreInv
<1> QED BY ScoreInit, ScoreNext, PTL DEF Spec

\* results.csv sets a verdict against the label of the very transaction that was
\* decrypted, or against none, and the copy under the row's name is that transaction.
THEOREM FilesAreTogether == Spec => []FilesBelongTogether
<1>1. ScoreInv => FilesBelongTogether
  <2> SUFFICES ASSUME ScoreInv PROVE FilesBelongTogether
    OBVIOUS
  <2>1. PICK S : csv \in Seq(S)
    BY DEF ScoreInv, Shapes
  <2>2. DOMAIN csv = 1 .. Len(csv)
    BY <2>1
  <2> QED BY <2>2 DEF ScoreInv, Together, FilesBelongTogether
<1> QED BY <1>1, ScoreInvariant, PTL

-----------------------------------------------------------------------------
(* Induction *)

(* The least-number principle and the induction it gives, about sets: the   *)
(* theorems of NaturalsInduction are about operators.                      *)
LEMMA LeastNumber ==
  ASSUME NEW T, T \subseteq Nat, T # {}
  PROVE  \E n \in T : \A m \in T : n <= m
<1> DEFINE R == OpToRel(<, Nat)
<1>1. IsWellFoundedOn(R, Nat)
  BY NatLessThanWellFounded
<1>2. \A a, b \in Nat : a < b => <<a, b>> \in R
  BY DEF OpToRel
<1> HIDE DEF R
<1>3. PICK n \in T : \A m \in T : ~ (<<m, n>> \in R)
  BY <1>1, WFMin
<1>4. \A m \in T : m \in Nat /\ n \in Nat /\ ~(m < n)
  BY <1>2, <1>3
<1> QED BY <1>4

LEMMA SetInduction ==
  ASSUME NEW S, 0 \in S, \A n \in Nat : n \in S => n + 1 \in S
  PROVE  Nat \subseteq S
<1> DEFINE T == Nat \ S
<1> SUFFICES ASSUME T # {} PROVE FALSE
  OBVIOUS
<1>1. PICK n \in T : \A m \in T : n <= m
  BY LeastNumber
<1>2. n # 0 /\ n - 1 \in Nat /\ n - 1 \notin T
  BY <1>1
<1> QED BY <1>1, <1>2

-----------------------------------------------------------------------------
(* Reading a data file *)

(* The function by which read_csv defines what it has read: the rows kept   *)
(* after each of the first n lines.                                        *)
IsReading(g, n, lines) ==
  g = [i \in 0 .. n |-> IF i = 0 THEN << >>
                        ELSE IF lines[i] = Empty THEN g[i - 1]
                        ELSE Append(g[i - 1], lines[i])]

LEMMA ReadingExists ==
  ASSUME NEW n \in Nat, NEW lines
  PROVE  \E g : IsReading(g, n, lines)
<1> DEFINE S == {m \in Nat : \E g : IsReading(g, m, lines)}
<1>1. 0 \in S
  <2>1. IsReading([i \in 0 .. 0 |-> << >>], 0, lines)
    BY DEF IsReading
  <2> QED BY <2>1
<1>2. ASSUME NEW m \in Nat, m \in S
      PROVE  m + 1 \in S
  <2>1. PICK g : IsReading(g, m, lines)
    BY <1>2
  <2> DEFINE last == IF lines[m + 1] = Empty THEN g[m] ELSE Append(g[m], lines[m + 1])
             h == [i \in 0 .. m + 1 |-> IF i = m + 1 THEN last ELSE g[i]]
             e == [i \in 0 .. m + 1 |-> IF i = 0 THEN << >>
                                       ELSE IF lines[i] = Empty THEN h[i - 1]
                                       ELSE Append(h[i - 1], lines[i])]
  <2>2. ASSUME NEW i \in 0 .. m + 1
        PROVE  h[i] = e[i]
    <3>1. CASE i = m + 1
      <4>1. i # 0 /\ i - 1 = m /\ m \in 0 .. m + 1 /\ m # m + 1
        BY <3>1
      <4>2. h[i - 1] = g[m] /\ h[i] = last
        BY <3>1, <4>1
      <4> QED BY <3>1, <4>1, <4>2
    <3>2. CASE i # m + 1
      <4>1. i \in 0 .. m /\ (i # 0 => i - 1 \in 0 .. m + 1 /\ i - 1 # m + 1)
        BY <3>2
      <4>2. g[i] = IF i = 0 THEN << >> ELSE IF lines[i] = Empty THEN g[i - 1]
                   ELSE Append(g[i - 1], lines[i])
        BY <2>1, <4>1 DEF IsReading
      <4>3. h[i] = g[i] /\ (i # 0 => h[i - 1] = g[i - 1])
        BY <3>2, <4>1
      <4> QED BY <4>2, <4>3
    <3> QED BY <3>1, <3>2
  <2>3. h = e
    BY <2>2
  <2>4. IsReading(h, m + 1, lines)
    BY <2>3 DEF IsReading
  <2> QED BY <2>4
<1> HIDE DEF S
<1>3. n \in S
  BY <1>1, <1>2, SetInduction
<1> QED BY <1>3 DEF S

LEMMA ReadingStep ==
  ASSUME NEW n \in Nat, NEW lines, NEW g, IsReading(g, n, lines)
  PROVE  /\ g[0] = << >>
         /\ \A i \in Nat : i + 1 <= n =>
              g[i + 1] = IF lines[i + 1] = Empty THEN g[i] ELSE Append(g[i], lines[i + 1])
<1>1. 0 \in 0 .. n
  OBVIOUS
<1>2. \A i \in Nat : i + 1 <= n => i + 1 \in 0 .. n /\ i + 1 # 0 /\ (i + 1) - 1 = i
  OBVIOUS
<1> QED BY <1>1, <1>2 DEF IsReading

LEMMA ReadCsv ==
  ASSUME NEW lines, Len(lines) \in Nat
  PROVE  \E g : IsReading(g, Len(lines), lines) /\ read_csv(lines) = g[Len(lines)]
<1>1. read_csv(lines) = (CHOOSE g : IsReading(g, Len(lines), lines))[Len(lines)]
  BY DEF read_csv, IsReading
<1> QED BY <1>1, ReadingExists

(* No line is made up: what is kept is the file's, no longer than it, and   *)
(* without its empty lines.                                                *)
LEMMA RowsKept ==
  ASSUME NEW S, NEW lines \in Seq(S \union {Empty}), Empty \notin S
  PROVE  read_csv(lines) \in Seq(S) /\ Len(read_csv(lines)) <= Len(lines)
<1> DEFINE n == Len(lines)
<1>1. n \in Nat /\ \A i \in 1 .. n : lines[i] \in S \union {Empty}
  OBVIOUS
<1>2. PICK g : IsReading(g, n, lines) /\ read_csv(lines) = g[n]
  BY ReadCsv, <1>1
<1> HIDE DEF n
<1> DEFINE T == {i \in Nat : i <= n => g[i] \in Seq(S) /\ Len(g[i]) <= i}
<1>3. 0 \in T
  <2>1. g[0] = << >>
    BY <1>1, <1>2, ReadingStep
  <2>2. << >> \in Seq(S) /\ Len(<< >>) = 0
    OBVIOUS
  <2>3. g[0] \in Seq(S) /\ Len(g[0]) = 0
    BY <2>1, <2>2
  <2> QED BY <2>3
<1>4. ASSUME NEW i \in Nat, i \in T
      PROVE  i + 1 \in T
  <2> SUFFICES ASSUME i + 1 <= n PROVE g[i + 1] \in Seq(S) /\ Len(g[i + 1]) <= i + 1
    OBVIOUS
  <2>1. g[i] \in Seq(S) /\ Len(g[i]) <= i /\ i + 1 \in 1 .. n
    BY <1>1, <1>4
  <2>2. g[i + 1] = IF lines[i + 1] = Empty THEN g[i] ELSE Append(g[i], lines[i + 1])
    BY <1>1, <1>2, ReadingStep
  <2>3. lines[i + 1] # Empty => lines[i + 1] \in S
    BY <1>1, <2>1
  <2> QED BY <2>1, <2>2, <2>3
<1> HIDE DEF T
<1>5. n \in T
  BY <1>1, <1>3, <1>4, SetInduction
<1> QED BY <1>1, <1>2, <1>5 DEF T, n

(* Where no empty line stands before another, the rows kept are the lines   *)
(* at their own places.                                                    *)
LEMMA RowsInPlace ==
  ASSUME NEW S, NEW lines \in Seq(S),
         \A i, j \in 1 .. Len(lines) : lines[i] = Empty /\ i < j => lines[j] = Empty
  PROVE  \A k \in 1 .. Len(read_csv(lines)) : read_csv(lines)[k] = lines[k]
<1> DEFINE n == Len(lines)
<1>1. n \in Nat /\ \A i \in 1 .. n : lines[i] \in S
  OBVIOUS
<1>2. PICK g : IsReading(g, n, lines) /\ read_csv(lines) = g[n]
  BY ReadCsv, <1>1
<1>3. \A i, j \in 1 .. n : lines[i] = Empty /\ i < j => lines[j] = Empty
  OBVIOUS
<1> HIDE DEF n
<1> DEFINE T == {i \in Nat : i <= n =>
                   /\ g[i] \in Seq(S) /\ Len(g[i]) <= i
                   /\ \A k \in 1 .. Len(g[i]) : g[i][k] = lines[k]
                   /\ Len(g[i]) < i => lines[i] = Empty}
<1>4. 0 \in T
  <2>1. g[0] = << >>
    BY <1>1, <1>2, ReadingStep
  <2>2. << >> \in Seq(S) /\ Len(<< >>) = 0
    OBVIOUS
  <2>3. g[0] \in Seq(S) /\ Len(g[0]) = 0 /\ ~(0 < 0) /\ 1 .. 0 = {}
    BY <2>1, <2>2
  <2> QED BY <2>3
<1>5. ASSUME NEW i \in Nat, i \in T
      PROVE  i + 1 \in T
  <2> SUFFICES ASSUME i + 1 <= n
               PROVE  /\ g[i + 1] \in Seq(S) /\ Len(g[i + 1]) <= i + 1
                      /\ \A k \in 1 .. Len(g[i + 1]) : g[i + 1][k] = lines[k]
                      /\ Len(g[i + 1]) < i + 1 => lines[i + 1] = Empty
    OBVIOUS
  <2>1. /\ g[i] \in Seq(S) /\ Len(g[i]) <= i /\ i + 1 \in 1 .. n
        /\ \A k \in 1 .. Len(g[i]) : g[i][k] = lines[k]
        /\ Len(g[i]) < i => lines[i] = Empty
    BY <1>1, <1>5
  <2>2. g[i + 1] = IF lines[i + 1] = Empty THEN g[i] ELSE Append(g[i], lines[i + 1])
    BY <1>1, <1>2, ReadingStep
  <2>3. CASE lines[i + 1] = Empty
    BY <2>1, <2>2, <2>3
  <2>4. CASE lines[i + 1] # Empty
    <3>1. Len(g[i]) = i
      <4>1. SUFFICES ASSUME Len(g[i]) < i PROVE FALSE
        BY <2>1
      <4>2. i \in 1 .. n /\ i < i + 1 /\ lines[i] = Empty
        BY <1>1, <2>1, <4>1
      <4> QED BY <1>3, <2>1, <2>4, <4>2
    <3>2. g[i + 1] = Append(g[i], lines[i + 1]) /\ lines[i + 1] \in S
      BY <1>1, <2>1, <2>2, <2>4
    <3>3. /\ g[i + 1] \in Seq(S) /\ Len(g[i + 1]) = i + 1
          /\ \A k \in 1 .. i : g[i + 1][k] = g[i][k]
          /\ g[i + 1][i + 1] = lines[i + 1]
      BY <2>1, <3>1, <3>2
    <3> QED BY <2>1, <3>1, <3>3
  <2> QED BY <2>3, <2>4
<1> HIDE DEF T
<1>6. n \in T
  BY <1>1, <1>4, <1>5, SetInduction
<1> QED BY <1>1, <1>2, <1>6 DEF T

-----------------------------------------------------------------------------
(* Numbers *)

(* Printing moves a logit by half a millionth at most.                      *)
LEMMA PrintedIsNear ==
  ASSUME NEW x \in Int
  PROVE  Printed(x) \in Int /\ 2 * Abs(Printed(x) - x) <= Unit
<1> DEFINE q == x \div Unit
           r == x % Unit
           up == ~ (2 * r < Unit \/ (2 * r = Unit /\ q % 2 = 0))
<1>1. Unit \in Int /\ Unit > 0
  BY ScoreAssumption
<1>2. q \in Int /\ r \in Int /\ 0 <= r /\ r < Unit /\ x = Unit * q + r
  BY <1>1
<1>3. Printed(x) = Unit * (IF ~up THEN q ELSE q + 1)
  BY DEF Printed
<1>4. up => 2 * r >= Unit
  BY <1>1, <1>2
<1>5. ~up => 2 * r <= Unit
  BY <1>1, <1>2
<1> HIDE DEF q, r, up
<1>6. Unit * q \in Int /\ Unit * (q + 1) = Unit * q + Unit
  BY <1>1, <1>2
<1>7. CASE up
  <2>1. Printed(x) = Unit * q + Unit
    BY <1>3, <1>6, <1>7
  <2> QED BY <1>1, <1>2, <1>4, <1>6, <1>7, <2>1 DEF Abs
<1>8. CASE ~up
  <2>1. Printed(x) = Unit * q
    BY <1>3, <1>8
  <2> QED BY <1>1, <1>2, <1>5, <1>6, <1>8, <2>1 DEF Abs
<1> QED BY <1>7, <1>8

(* Logits as they are printed.                                             *)
AsPrinted(logits) == [i \in 0 .. 1 |-> Printed(logits[i])]

LEMMA LogitsPrinted ==
  ASSUME NEW logits \in [0 .. 1 -> Int]
  PROVE  /\ AsPrinted(logits) \in [0 .. 1 -> Int]
         /\ \A i \in 0 .. 1 : 2 * Abs(AsPrinted(logits)[i] - logits[i]) <= Unit
<1>1. \A i \in 0 .. 1 : Printed(logits[i]) \in Int /\ 2 * Abs(Printed(logits[i]) - logits[i]) <= Unit
  BY PrintedIsNear
<1> QED BY <1>1 DEF AsPrinted

(* Printing changes a verdict only where the logits nearly tie.             *)
LEMMA PrintingKeepsVerdict ==
  ASSUME NEW x \in [0 .. 1 -> Int]
  PROVE  is_fraud(AsPrinted(x)) = is_fraud(x) \/ Abs(x[1] - x[0]) <= Unit
<1> DEFINE p == AsPrinted(x)
<1>1. x[0] \in Int /\ x[1] \in Int /\ Unit \in Int
  BY ScoreAssumption
<1>2. p[0] \in Int /\ p[1] \in Int
        /\ 2 * Abs(p[0] - x[0]) <= Unit /\ 2 * Abs(p[1] - x[1]) <= Unit
  BY LogitsPrinted
<1> HIDE DEF p
<1>3. (p[1] > p[0]) = (x[1] > x[0]) \/ Abs(x[1] - x[0]) <= Unit
  BY <1>1, <1>2 DEF Abs
<1> QED BY <1>3 DEF is_fraud, p

(* Printing moves a deviation by half a millionth at most.                  *)
LEMMA PrintingKeepsDeviation ==
  ASSUME NEW x \in [0 .. 1 -> Int], NEW y \in [0 .. 1 -> Int]
  PROVE  /\ Deviation(x, y) \in Int /\ Deviation(AsPrinted(x), y) \in Int
         /\ 2 * Deviation(x, y) <= 2 * Deviation(AsPrinted(x), y) + Unit
         /\ 2 * Deviation(AsPrinted(x), y) <= 2 * Deviation(x, y) + Unit
<1> DEFINE p == AsPrinted(x)
<1>1. x[0] \in Int /\ x[1] \in Int /\ y[0] \in Int /\ y[1] \in Int /\ Unit \in Int
  BY ScoreAssumption
<1>2. p[0] \in Int /\ p[1] \in Int
        /\ 2 * Abs(p[0] - x[0]) <= Unit /\ 2 * Abs(p[1] - x[1]) <= Unit
  BY LogitsPrinted
<1> HIDE DEF p
<1>3. \A i \in 0 .. 1 :
        /\ Abs(x[i] - y[i]) \in Int /\ Abs(p[i] - y[i]) \in Int
        /\ 2 * Abs(x[i] - y[i]) <= 2 * Abs(p[i] - y[i]) + Unit
        /\ 2 * Abs(p[i] - y[i]) <= 2 * Abs(x[i] - y[i]) + Unit
  <2>1. SUFFICES ASSUME NEW i \in {0, 1}
                 PROVE  /\ Abs(x[i] - y[i]) \in Int /\ Abs(p[i] - y[i]) \in Int
                        /\ 2 * Abs(x[i] - y[i]) <= 2 * Abs(p[i] - y[i]) + Unit
                        /\ 2 * Abs(p[i] - y[i]) <= 2 * Abs(x[i] - y[i]) + Unit
    OBVIOUS
  <2>2. x[i] \in Int /\ y[i] \in Int /\ p[i] \in Int /\ 2 * Abs(p[i] - x[i]) <= Unit
    BY <1>1, <1>2
  <2> QED BY <1>1, <2>2 DEF Abs
<1>4. 0 \in 0 .. 1 /\ 1 \in 0 .. 1
  OBVIOUS
<1>5. /\ Deviation(x, y) \in Int /\ Deviation(p, y) \in Int
      /\ 2 * Deviation(x, y) <= 2 * Deviation(p, y) + Unit
      /\ 2 * Deviation(p, y) <= 2 * Deviation(x, y) + Unit
  BY <1>1, <1>3, <1>4 DEF Deviation, Larger
<1> QED BY <1>5 DEF p
-----------------------------------------------------------------------------
(* What a run has found                                                    *)

(* Encrypt has accepted the row in work.                                    *)
Accepted == pc \in {"stage", "truth", "compute", "decrypt"} => CanEncrypt

(* Each line of results.csv is of a row of the file, of its transaction,    *)
(* and its verdict that of its logits.                                     *)
Scored ==
  \A i \in 1 .. Len(csv) :
    /\ csv[i].row < Len(read_csv(file))
    /\ csv[i].tx = Own(csv[i])
    /\ csv[i].pred = is_fraud(csv[i].logits)

(* What the reference check makes of a line.                                *)
Compared(line) ==
  LET tx == read_features(line.row)
      logits == AsPrinted(line.logits)
  IN  Passes(is_fraud(logits) = is_fraud(Reference[tx]), Deviation(logits, Reference[tx]))

Confirmed ==
  \A i \in 1 .. Len(checks) :
    checks[i].tx = read_features(csv[i].row) /\ checks[i].ok = Compared(csv[i])

(* What the outcome says of the checks.                                     *)
Concluded ==
  /\ outcome \in {"done", "disagree"} => pc = "idle" /\ Len(checks) = Len(csv)
  /\ outcome = "done" => \A i \in 1 .. Len(checks) : checks[i].ok
  /\ outcome = "disagree" => \E i \in 1 .. Len(checks) : ~checks[i].ok

RunInv == TypeOK /\ Accepted /\ Scored /\ Confirmed /\ Concluded

LineSet == [row : Rows, tx : Transactions, truth : -1 .. 1,
            logits : [0 .. 1 -> Int], pred : BOOLEAN]
CheckSet == [tx : Transactions, ok : BOOLEAN]

(* A row encrypt accepts holds a transaction.                               *)
LEMMA RowHoldsTransaction ==
  ASSUME file \in Files, Readable, NEW r \in Nat, r < Len(read_csv(file))
  PROVE  read_csv(file)[r + 1] \in Transactions
<1>1. Empty \notin Transactions /\ file \in Seq(Transactions \union {Empty, Return})
  BY ScoreAssumption
<1>2. \A i \in 1 .. Len(file) : file[i] \in Transactions \union {Empty}
  BY <1>1 DEF Readable
<1>3. file \in Seq(Transactions \union {Empty})
  BY <1>1, <1>2
<1>4. read_csv(file) \in Seq(Transactions)
  BY <1>1, <1>3, RowsKept
<1>5. r + 1 \in 1 .. Len(read_csv(file))
  BY <1>4
<1> QED BY <1>4, <1>5

(* In a plain file the reference reads the transaction that was encrypted.  *)
LEMMA SameTransaction ==
  ASSUME file \in Files, Plain, NEW r \in Nat, r < Len(read_csv(file))
  PROVE  read_features(r) = read_csv(file)[r + 1]
<1> DEFINE S == (Transactions \union {Return}) \ {Empty}
<1>1. file \in Seq(S \union {Empty}) /\ Empty \notin S
  <2>1. S \union {Empty} = Transactions \union {Empty, Return}
    OBVIOUS
  <2> QED BY <2>1, ScoreAssumption
<1> HIDE DEF S
<1>2. read_csv(file) \in Seq(S) /\ Len(read_csv(file)) <= Len(file)
  BY <1>1, RowsKept
<1>3. \A i, j \in 1 .. Len(file) : file[i] = Empty /\ i < j => file[j] = Empty
  BY <1>1 DEF Plain
<1>4. \A k \in 1 .. Len(read_csv(file)) : read_csv(file)[k] = file[k]
  BY <1>1, <1>3, RowsInPlace
<1>5. r + 1 \in 1 .. Len(read_csv(file)) /\ r < Len(file)
  BY <1>1, <1>2
<1> QED BY <1>4, <1>5 DEF read_features

(* The row in work and its transaction.                                     *)
LEMMA RowInWork ==
  ASSUME ScoreInv, RowsLeft, CanEncrypt
  PROVE  Row \in Rows /\ Row \in Nat /\ Tx \in Transactions
<1>1. Row \in Rows /\ Row \in Nat
  BY NextRow, ScoreAssumption DEF ScoreInv
<1> QED BY <1>1, RowHoldsTransaction DEF ScoreInv, Shapes, CanEncrypt, Tx

(* A step that leaves the lines and the checks alone.                       *)
LEMMA TypeKept ==
  ASSUME TypeOK, InOrder', UNCHANGED <<run, csv, checks>>,
         pc' \in {"idle", "copy", "stage", "truth", "compute", "decrypt"},
         copy' \in [Rows -> Stored], staged' \in Stored,
         truth' \in [Rows -> -1 .. 1], result' \in [Rows -> Stored],
         outcome' \in {"running", "done", "disagree", "failed"}
  PROVE  TypeOK'
<1>1. file' \in Files /\ request' \in Requests /\ tol' \in Tolerances /\ runs' \in 0 .. MaxRuns
  BY DEF TypeOK, run
<1>2. /\ csv' \in Seq([row : Rows, tx : Transactions, truth : -1 .. 1,
                  logits : [0 .. 1 -> Int], pred : BOOLEAN])
      /\ checks' \in Seq([tx : Transactions, ok : BOOLEAN])
      /\ Len(checks') <= Len(csv')
  BY DEF TypeOK
<1>3. Len(csv') <= Len(row_list')
  BY DEF InOrder
<1> QED BY <1>1, <1>2, <1>3, Zenon DEF TypeOK

(* The lines and the checks mean the same as long as the file does.         *)
LEMMA SameLines ==
  ASSUME UNCHANGED <<file, tol, csv, checks>>
  PROVE  Scored' = Scored /\ Confirmed' = Confirmed
<1>1. Scored' = Scored
  BY DEF Scored, Own
<1>2. Confirmed' = Confirmed
  <2>1. \A x : read_features(x)' = read_features(x)
    BY DEF read_features
  <2>2. \A a, d : Passes(a, d)' = Passes(a, d)
    BY DEF Passes
  <2> QED BY <2>1, <2>2 DEF Confirmed, Compared
<1> QED BY <1>1, <1>2

LEMMA RowWorkKeeps ==
  ASSUME ScoreInv, ScoreInv', RunInv, WriteCopy \/ Stage \/ WriteTruth \/ Compute
  PROVE  RunInv'
<1>1. /\ UNCHANGED <<file, request, tol, runs, csv, checks, outcome>>
      /\ pc \in {"copy", "stage", "truth", "compute"}
      /\ pc' \in {"stage", "truth", "compute", "decrypt"}
  BY DEF WriteCopy, Stage, WriteTruth, Compute, Step, run
<1>2. RowsLeft /\ CanEncrypt
  BY DEF WriteCopy, Stage, WriteTruth, Compute, Step, ScoreInv, RowData, RunInv, Accepted
<1>3. Row \in Rows /\ Tx \in Transactions
  BY <1>2, RowInWork
<1>4. Label[Tx] \in 0 .. 1
  BY <1>3, ScoreAssumption
<1>5. TypeOK
  BY DEF RunInv
<1>6. /\ copy \in [Rows -> Stored] /\ staged \in Stored
      /\ truth \in [Rows -> -1 .. 1] /\ result \in [Rows -> Stored]
      /\ outcome \in {"running", "done", "disagree", "failed"}
  BY <1>5 DEF TypeOK
<1>7. Tx \in Stored
  BY <1>3 DEF Stored
<1>8. TypeOK'
  <2>1. copy' \in [Rows -> Stored] /\ staged' \in Stored
    BY <1>3, <1>6, <1>7 DEF WriteCopy, Stage, WriteTruth, Compute
  <2>2. truth' \in [Rows -> -1 .. 1]
    <3>1. {Label[Tx], -1} \subseteq -1 .. 1
      BY <1>4
    <3> QED BY <1>3, <1>6, <3>1 DEF WriteCopy, Stage, WriteTruth, Compute
  <2>3. result' \in [Rows -> Stored]
    BY <1>3, <1>6 DEF WriteCopy, Stage, WriteTruth, Compute
  <2>4. InOrder'
    BY DEF ScoreInv
  <2> QED BY <1>1, <1>5, <1>6, <2>1, <2>2, <2>3, <2>4, TypeKept DEF run
<1>9. Accepted'
  <2>1. CanEncrypt' = CanEncrypt
    BY <1>1, SameRow DEF CanEncrypt, Readable
  <2> QED BY <1>2, <2>1 DEF Accepted
<1>10. Scored' /\ Confirmed'
  BY <1>1, SameLines DEF RunInv
<1>11. Concluded'
  BY <1>1 DEF RunInv, Concluded
<1> QED BY <1>8, <1>9, <1>10, <1>11 DEF RunInv

LEMMA RunBegins ==
  ASSUME ScoreInv, ScoreInv', RunInv, Begin
  PROVE  RunInv'
<1>1. /\ csv' = << >> /\ checks' = << >> /\ outcome' = "running" /\ pc' = "copy"
      /\ runs' = runs + 1 /\ runs < MaxRuns
  BY DEF Begin
<1>2. Len(csv') = 0 /\ Len(checks') = 0 /\ 1 .. 0 = {}
        /\ csv' \in Seq(LineSet) /\ checks' \in Seq(CheckSet)
  BY <1>1
<1>3. file' \in Files /\ request' \in Requests /\ tol' \in Tolerances
  BY DEF Begin, RunInv, TypeOK
<1>4. TypeOK'
  <2>1. runs' \in 0 .. MaxRuns
    BY <1>1, ScoreAssumption DEF RunInv, TypeOK
  <2>2. /\ copy \in [Rows -> Stored] /\ staged \in Stored
        /\ truth \in [Rows -> -1 .. 1] /\ result \in [Rows -> Stored]
    BY DEF RunInv, TypeOK
  <2>3. CASE UNCHANGED disk
    <3>1. /\ copy' \in [Rows -> Stored] /\ staged' \in Stored
          /\ truth' \in [Rows -> -1 .. 1] /\ result' \in [Rows -> Stored]
      BY <2>2, <2>3 DEF disk
    <3> QED BY <1>1, <1>2, <1>3, <2>1, <3>1 DEF TypeOK, LineSet, CheckSet, ScoreInv, InOrder
  <2>4. CASE NoFiles
    <3>1. /\ copy' \in [Rows -> Stored] /\ staged' \in Stored
          /\ truth' \in [Rows -> -1 .. 1] /\ result' \in [Rows -> Stored]
      BY <2>4 DEF NoFiles, Stored
    <3> QED BY <1>1, <1>2, <1>3, <2>1, <3>1 DEF TypeOK, LineSet, CheckSet, ScoreInv, InOrder
  <2> QED BY <2>3, <2>4 DEF Begin
<1>5. Accepted' /\ Scored' /\ Confirmed' /\ Concluded'
  BY <1>1, <1>2 DEF Accepted, Scored, Confirmed, Concluded
<1> QED BY <1>4, <1>5 DEF RunInv

LEMMA RunScores ==
  ASSUME ScoreInv, ScoreInv', RunInv, Decrypt
  PROVE  RunInv'
<1>1. /\ UNCHANGED <<file, request, tol, runs, copy, staged, truth, result,
                     checks, outcome>>
      /\ pc = "decrypt" /\ pc' = "copy"
  BY DEF Decrypt, Step, run, disk
<1>2. /\ RowsLeft /\ CanEncrypt /\ result[Row] = Tx
  BY <1>1 DEF ScoreInv, RowData, RunInv, Accepted
<1>3. Row \in Rows /\ Row \in Nat /\ Tx \in Transactions
  BY <1>2, RowInWork
<1>4. PICK logits \in [0 .. 1 -> Int] :
        csv' = Append(csv, [row |-> Row, tx |-> Tx, truth |-> truth[Row],
                            logits |-> logits, pred |-> is_fraud(logits)])
  <2>1. PICK e0 \in Errors, e1 \in Errors :
          LET logits == [i \in 0 .. 1 |-> Reference[Tx][i] + (IF i = 0 THEN e0 ELSE e1)]
          IN  csv' = Append(csv, [row |-> Row, tx |-> Tx, truth |-> truth[Row],
                                  logits |-> logits, pred |-> is_fraud(logits)])
    BY <1>2 DEF Decrypt
  <2> DEFINE logits == [i \in 0 .. 1 |-> Reference[Tx][i] + (IF i = 0 THEN e0 ELSE e1)]
  <2>2. logits \in [0 .. 1 -> Int]
    BY <1>3, ScoreAssumption
  <2> QED BY <2>1, <2>2
<1> DEFINE line == [row |-> Row, tx |-> Tx, truth |-> truth[Row],
                    logits |-> logits, pred |-> is_fraud(logits)]
<1>5. line \in LineSet
  <2>1. truth[Row] \in -1 .. 1
    BY <1>3 DEF RunInv, TypeOK
  <2>2. is_fraud(logits) \in BOOLEAN
    BY DEF is_fraud
  <2> QED BY <1>3, <2>1, <2>2 DEF LineSet
<1>6. line.row = Row /\ line.tx = Tx /\ line.logits = logits /\ line.pred = is_fraud(logits)
  OBVIOUS
<1>7. csv' = Append(csv, line)
  BY <1>4
<1> HIDE DEF line
<1>8. csv \in Seq(LineSet) /\ checks \in Seq(CheckSet)
        /\ Len(checks) <= Len(csv) /\ Len(csv) \in Nat /\ Len(checks) \in Nat
  BY DEF RunInv, TypeOK, LineSet, CheckSet
<1>9. /\ csv' \in Seq(LineSet) /\ Len(csv') = Len(csv) + 1
      /\ \A i \in 1 .. Len(csv) : csv'[i] = csv[i]
      /\ csv'[Len(csv) + 1] = line
  BY <1>5, <1>7, <1>8
<1>10. TypeOK'
  <2>1. /\ file' \in Files /\ request' \in Requests /\ tol' \in Tolerances
        /\ runs' \in 0 .. MaxRuns
        /\ copy' \in [Rows -> Stored] /\ staged' \in Stored
        /\ truth' \in [Rows -> -1 .. 1] /\ result' \in [Rows -> Stored]
        /\ outcome' \in {"running", "done", "disagree", "failed"}
    BY <1>1 DEF RunInv, TypeOK
  <2>2. checks' \in Seq(CheckSet) /\ Len(checks') <= Len(csv')
    BY <1>1, <1>8, <1>9
  <2>3. Len(csv') <= Len(row_list')
    BY DEF ScoreInv, InOrder
  <2>4. pc' \in {"idle", "copy", "stage", "truth", "compute", "decrypt"}
    BY <1>1
  <2> QED BY <1>9, <2>1, <2>2, <2>3, <2>4, Zenon DEF TypeOK, LineSet, CheckSet
<1>11. Scored'
  <2>1. line.row < Len(read_csv(file)) /\ line.tx = Own(line) /\ line.pred = is_fraud(line.logits)
    BY <1>2, <1>6 DEF CanEncrypt, Own, Tx
  <2>2. \A i \in 1 .. Len(csv) :
          /\ csv'[i].row < Len(read_csv(file)) /\ csv'[i].tx = Own(csv'[i])
          /\ csv'[i].pred = is_fraud(csv'[i].logits)
    BY <1>9 DEF RunInv, Scored
  <2>3. \A i \in 1 .. Len(csv') :
          /\ csv'[i].row < Len(read_csv(file)) /\ csv'[i].tx = Own(csv'[i])
          /\ csv'[i].pred = is_fraud(csv'[i].logits)
    <3>1. \A i \in 1 .. Len(csv') : i \in 1 .. Len(csv) \/ i = Len(csv) + 1
      BY <1>8, <1>9
    <3> QED BY <1>9, <2>1, <2>2, <3>1
  <2> QED BY <1>1, <2>3 DEF Scored, Own
<1>12. Confirmed'
  <2>1. \A i \in 1 .. Len(checks) : csv'[i] = csv[i]
    BY <1>8, <1>9
  <2>2. \A i \in 1 .. Len(checks) :
          checks[i].tx = read_features(csv'[i].row) /\ checks[i].ok = Compared(csv'[i])
    BY <2>1 DEF RunInv, Confirmed
  <2>3. \A x : read_features(x)' = read_features(x')
    BY <1>1 DEF read_features
  <2> QED BY <1>1, <2>2 DEF Confirmed, Compared, read_features, Passes
<1>13. Accepted' /\ Concluded'
  BY <1>1 DEF RunInv, Accepted, Concluded
<1> QED BY <1>10, <1>11, <1>12, <1>13 DEF RunInv

LEMMA RunChecks ==
  ASSUME ScoreInv, ScoreInv', RunInv, Check
  PROVE  RunInv'
<1>1. /\ UNCHANGED <<file, request, tol, runs, pc, copy, staged, truth, result,
                     csv, outcome>>
      /\ pc = "copy" /\ Len(checks) < Len(csv)
      /\ read_features(Line.row) \in Transactions
  BY DEF Check, Checking, run, disk
<1> DEFINE line == [tx |-> read_features(Line.row), ok |-> Compared(Line)]
<1>2. checks' = Append(checks, line)
  BY DEF Check, Compared, AsPrinted
<1>3. line \in CheckSet
  <2>1. Compared(Line) \in BOOLEAN
    BY DEF Compared, Passes
  <2> QED BY <1>1, <2>1 DEF CheckSet
<1>4. line.tx = read_features(Line.row) /\ line.ok = Compared(Line)
  OBVIOUS
<1> HIDE DEF line
<1>5. csv \in Seq(LineSet) /\ checks \in Seq(CheckSet)
        /\ Len(csv) \in Nat /\ Len(checks) \in Nat
  BY DEF RunInv, TypeOK, LineSet, CheckSet
<1>6. /\ checks' \in Seq(CheckSet) /\ Len(checks') = Len(checks) + 1
      /\ \A i \in 1 .. Len(checks) : checks'[i] = checks[i]
      /\ checks'[Len(checks) + 1] = line
  BY <1>2, <1>3, <1>5
<1>7. TypeOK'
  <2>1. /\ file' \in Files /\ request' \in Requests /\ tol' \in Tolerances
        /\ runs' \in 0 .. MaxRuns
        /\ copy' \in [Rows -> Stored] /\ staged' \in Stored
        /\ truth' \in [Rows -> -1 .. 1] /\ result' \in [Rows -> Stored]
        /\ outcome' \in {"running", "done", "disagree", "failed"}
        /\ pc' \in {"idle", "copy", "stage", "truth", "compute", "decrypt"}
    BY <1>1 DEF RunInv, TypeOK
  <2>2. csv' \in Seq(LineSet) /\ Len(checks') <= Len(csv')
    BY <1>1, <1>5, <1>6
  <2>3. Len(csv') <= Len(row_list')
    BY DEF ScoreInv, InOrder
  <2> QED BY <1>6, <2>1, <2>2, <2>3, Zenon DEF TypeOK, LineSet, CheckSet
<1>8. Confirmed'
  <2>1. \A i \in 1 .. Len(checks') : i \in 1 .. Len(checks) \/ i = Len(checks) + 1
    BY <1>5, <1>6
  <2>2. \A i \in 1 .. Len(checks') :
          checks'[i].tx = read_features(csv[i].row) /\ checks'[i].ok = Compared(csv[i])
    BY <1>4, <1>6, <2>1 DEF RunInv, Confirmed, Line
  <2> QED BY <1>1, <2>2 DEF Confirmed, Compared, read_features, Passes
<1>9. Scored'
  BY <1>1 DEF RunInv, Scored, Own
<1>10. Accepted' /\ Concluded'
  BY <1>1 DEF RunInv, Accepted, Concluded
<1> QED BY <1>7, <1>8, <1>9, <1>10 DEF RunInv

LEMMA RunStops ==
  ASSUME ScoreInv, ScoreInv', RunInv,
         BadRow \/ NoFeatures \/ Kill \/ Report
  PROVE  RunInv'
<1>1. /\ UNCHANGED <<file, request, tol, runs, csv, checks>> /\ pc' = "idle"
      /\ outcome' \in {"done", "disagree", "failed"}
  BY DEF BadRow, NoFeatures, Kill, Report, Step, run, disk
<1>2. /\ copy \in [Rows -> Stored] /\ staged \in Stored
      /\ truth \in [Rows -> -1 .. 1] /\ result \in [Rows -> Stored]
  BY DEF RunInv, TypeOK
<1>3. /\ copy' = copy /\ staged' = staged /\ result' = result
      /\ \/ UNCHANGED disk
         \/ pc = "truth" /\ truth' = [truth EXCEPT ![Row] = -1]
  BY DEF BadRow, NoFeatures, Kill, Report, disk
<1>4. truth' \in [Rows -> -1 .. 1]
  <2>1. CASE UNCHANGED disk
    BY <1>2, <2>1 DEF disk
  <2>2. CASE pc = "truth" /\ truth' = [truth EXCEPT ![Row] = -1]
    <3>1. Row \in Rows
      BY <2>2, RowInWork DEF ScoreInv, RowData, RunInv, Accepted
    <3> QED BY <1>2, <2>2, <3>1
  <2> QED BY <1>3, <2>1, <2>2
<1>5. TypeOK'
  BY <1>1, <1>2, <1>3, <1>4, TypeKept DEF RunInv, ScoreInv, run
<1>6. Scored' /\ Confirmed'
  BY <1>1, SameLines DEF RunInv
<1>7. Accepted'
  BY <1>1 DEF Accepted
<1>8. Concluded'
  <2>1. CASE outcome' = "failed"
    BY <2>1 DEF Concluded
  <2>2. CASE outcome' # "failed"
    <3>1. /\ Len(checks) = Len(csv)
          /\ outcome' = IF \A i \in DOMAIN checks : checks[i].ok THEN "done" ELSE "disagree"
      BY <2>2 DEF BadRow, NoFeatures, Kill, Report
    <3>2. DOMAIN checks = 1 .. Len(checks)
      BY DEF RunInv, TypeOK
    <3> QED BY <1>1, <3>1, <3>2 DEF Concluded
  <2> QED BY <2>1, <2>2
<1> QED BY <1>5, <1>6, <1>7, <1>8 DEF RunInv

LEMMA RunInit == Init => RunInv
<1> SUFFICES ASSUME Init PROVE RunInv
  OBVIOUS
<1>1. /\ csv = << >> /\ checks = << >> /\ outcome = "failed" /\ pc = "idle"
      /\ Len(csv) = 0 /\ Len(checks) = 0 /\ 1 .. 0 = {}
      /\ csv \in Seq(LineSet) /\ checks \in Seq(CheckSet)
  BY DEF Init
<1>2. TypeOK
  <2>1. Len(csv) <= Len(row_list)
    BY ScoreInit DEF ScoreInv, InOrder
  <2>2. /\ copy \in [Rows -> Stored] /\ staged \in Stored
        /\ truth \in [Rows -> -1 .. 1] /\ result \in [Rows -> Stored]
    BY DEF Init, Stored
  <2> QED BY <1>1, <2>1, <2>2, ScoreAssumption DEF Init, TypeOK, LineSet, CheckSet
<1> QED BY <1>1, <1>2 DEF RunInv, Accepted, Scored, Confirmed, Concluded

LEMMA RunNext ==
  ASSUME ScoreInv, ScoreInv', RunInv, [Next]_vars
  PROVE  RunInv'
<1>1. CASE Begin
  BY <1>1, RunBegins
<1>2. CASE WriteCopy \/ Stage \/ WriteTruth \/ Compute
  BY <1>2, RowWorkKeeps
<1>3. CASE Decrypt
  BY <1>3, RunScores
<1>4. CASE Check
  BY <1>4, RunChecks
<1>5. CASE BadRow \/ NoFeatures \/ Kill \/ Report
  BY <1>5, RunStops
<1>6. CASE UNCHANGED vars
  <2>1. UNCHANGED <<file, request, tol, pc, runs, copy, staged, truth, result, csv,
                    checks, outcome>>
    BY <1>6 DEF vars
  <2>2. TypeOK'
    BY <2>1, TypeKept DEF RunInv, TypeOK, ScoreInv, run
  <2>3. Scored' /\ Confirmed' /\ Concluded'
    BY <2>1, SameLines DEF RunInv, Concluded
  <2>4. Accepted'
    BY <2>1, SameRow DEF RunInv, Accepted, CanEncrypt, Readable
  <2> QED BY <2>2, <2>3, <2>4 DEF RunInv
<1> QED BY <1>1, <1>2, <1>3, <1>4, <1>5, <1>6 DEF Next, Finished

LEMMA RunInvariant == Spec => []RunInv
<1>1. RunInv /\ ScoreInv /\ ScoreInv' /\ [Next]_vars => RunInv'
  BY RunNext
<1> QED BY <1>1, RunInit, ScoreInvariant, PTL DEF Spec

-----------------------------------------------------------------------------
(* What the outcome says                                                   *)

(* Every variable has its type, no line of results.csv is checked twice and *)
(* none is written of a row that was not asked for.                        *)
THEOREM ScoresTypeCorrect == Spec => []TypeOK
<1>1. RunInv => TypeOK
  BY DEF RunInv
<1> QED BY <1>1, RunInvariant, PTL

(* The lines as the properties read them.                                   *)
LEMMA LineFacts ==
  ASSUME RunInv
  PROVE  /\ DOMAIN csv = 1 .. Len(csv) /\ DOMAIN checks = 1 .. Len(checks)
         /\ Len(checks) <= Len(csv) /\ Len(csv) \in Nat /\ Len(checks) \in Nat
         /\ tol \in Nat
         /\ \A i \in 1 .. Len(csv) :
              /\ csv[i].logits \in [0 .. 1 -> Int]
              /\ Own(csv[i]) \in Transactions
              /\ Reference[Own(csv[i])] \in [0 .. 1 -> Int]
<1>1. csv \in Seq(LineSet) /\ checks \in Seq(CheckSet) /\ Len(checks) <= Len(csv)
  BY DEF RunInv, TypeOK, LineSet, CheckSet
<1>2. tol \in Nat
  BY ScoreAssumption DEF RunInv, TypeOK
<1>3. ASSUME NEW i \in 1 .. Len(csv)
      PROVE  /\ csv[i].logits \in [0 .. 1 -> Int]
             /\ Own(csv[i]) \in Transactions
             /\ Reference[Own(csv[i])] \in [0 .. 1 -> Int]
  <2>1. csv[i] \in LineSet /\ csv[i].tx = Own(csv[i])
    BY <1>1 DEF RunInv, Scored
  <2>2. csv[i].logits \in [0 .. 1 -> Int] /\ csv[i].tx \in Transactions
    BY <2>1 DEF LineSet
  <2> QED BY <2>1, <2>2, ScoreAssumption
<1> QED BY <1>1, <1>2, <1>3

(* In a plain file a line is compared with the reference of its own         *)
(* transaction.                                                            *)
LEMMA ComparedWithOwn ==
  ASSUME RunInv, Plain, NEW i \in 1 .. Len(csv)
  PROVE  /\ read_features(csv[i].row) = Own(csv[i])
         /\ Compared(csv[i]) =
              Passes(is_fraud(AsPrinted(csv[i].logits)) = is_fraud(Reference[Own(csv[i])]),
                     Deviation(AsPrinted(csv[i].logits), Reference[Own(csv[i])]))
<1>1. csv[i].row \in Nat
  <2>1. csv \in Seq(LineSet)
    BY DEF RunInv, TypeOK, LineSet
  <2>2. csv[i] \in LineSet
    BY <2>1
  <2> QED BY <2>2, ScoreAssumption DEF LineSet
<1>2. file \in Files /\ csv[i].row < Len(read_csv(file))
  BY DEF RunInv, TypeOK, Scored
<1>3. read_features(csv[i].row) = Own(csv[i])
  BY <1>1, <1>2, SameTransaction DEF Own
<1> QED BY <1>3 DEF Compared

(* "mirror src/fraud_bench_common.h read_csv": the harness, which counts    *)
(* lines, and the encrypt stage, which counts those that are not empty,    *)
(* take a row number for the same transaction in every plain file.         *)
THEOREM ReadersAlwaysAgree == Spec => []ReadersAgree
<1>1. RunInv => ReadersAgree
  <2> SUFFICES ASSUME RunInv, Plain, NEW i \in DOMAIN checks
               PROVE  checks[i].tx = csv[i].tx
    BY DEF ReadersAgree
  <2>1. i \in 1 .. Len(checks) /\ i \in 1 .. Len(csv)
    BY LineFacts
  <2> QED BY <2>1, ComparedWithOwn DEF RunInv, Confirmed, Scored
<1> QED BY <1>1, RunInvariant, PTL

(* After "Done" every verdict decrypt printed is the reference's, near ties *)
(* excepted.                                                               *)
THEOREM DoneConfirmsVerdicts == Spec => []VerdictsConfirmed
<1>1. RunInv => VerdictsConfirmed
  <2> SUFFICES ASSUME RunInv, outcome = "done", Plain, NEW i \in DOMAIN csv
               PROVE  csv[i].pred = is_fraud(Reference[Own(csv[i])]) \/ NearTie(csv[i])
    BY DEF VerdictsConfirmed
  <2>1. i \in 1 .. Len(csv) /\ checks[i].ok /\ checks[i].ok = Compared(csv[i])
    BY LineFacts DEF RunInv, Concluded, Confirmed
  <2>2. is_fraud(AsPrinted(csv[i].logits)) = is_fraud(Reference[Own(csv[i])])
    BY <2>1, ComparedWithOwn DEF Passes
  <2>3. \/ is_fraud(AsPrinted(csv[i].logits)) = is_fraud(csv[i].logits)
        \/ Abs(csv[i].logits[1] - csv[i].logits[0]) <= Unit
    BY <2>1, LineFacts, PrintingKeepsVerdict
  <2> QED BY <2>1, <2>2, <2>3 DEF RunInv, Scored, NearTie
<1> QED BY <1>1, RunInvariant, PTL

(* After "Done" with a tolerance no logit, before it was printed, is off by *)
(* more than the tolerance and half a millionth.                           *)
THEOREM DoneCatchesDrift == Spec => []DriftCaught
<1>1. RunInv => DriftCaught
  <2> SUFFICES ASSUME RunInv, outcome = "done", Plain, tol # 0, NEW i \in DOMAIN csv
               PROVE  2 * Off(csv[i]) <= 2 * tol + Unit
    BY DEF DriftCaught
  <2>1. i \in 1 .. Len(csv) /\ checks[i].ok /\ checks[i].ok = Compared(csv[i])
    BY LineFacts DEF RunInv, Concluded, Confirmed
  <2> DEFINE d == Deviation(AsPrinted(csv[i].logits), Reference[Own(csv[i])])
  <2>2. d <= tol
    BY <2>1, ComparedWithOwn DEF Passes
  <2>3. Off(csv[i]) \in Int /\ d \in Int /\ 2 * Off(csv[i]) <= 2 * d + Unit
    BY <2>1, LineFacts, PrintingKeepsDeviation DEF Off
  <2>4. tol \in Nat /\ Unit \in Int
    BY LineFacts, ScoreAssumption
  <2> HIDE DEF d
  <2> QED BY <2>2, <2>3, <2>4
<1> QED BY <1>1, RunInvariant, PTL

(* A run is refused only for a row whose verdict is wrong or nearly tied, or*)
(* whose logits are off by more than the tolerance less half a millionth.  *)
THEOREM RefusalsHaveCause == Spec => []RefusedForCause
<1>1. RunInv => RefusedForCause
  <2> SUFFICES ASSUME RunInv, outcome = "disagree", Plain
               PROVE  \E i \in DOMAIN csv :
                        \/ tol # 0 /\ 2 * Off(csv[i]) > 2 * tol - Unit
                        \/ csv[i].pred # is_fraud(Reference[Own(csv[i])])
                        \/ NearTie(csv[i])
    BY DEF RefusedForCause
  <2>1. PICK i \in 1 .. Len(csv) : ~ Compared(csv[i])
    BY LineFacts DEF RunInv, Concluded, Confirmed
  <2> DEFINE d == Deviation(AsPrinted(csv[i].logits), Reference[Own(csv[i])])
  <2>2. \/ is_fraud(AsPrinted(csv[i].logits)) # is_fraud(Reference[Own(csv[i])])
        \/ tol # 0 /\ ~ (d <= tol)
    BY <2>1, ComparedWithOwn DEF Passes
  <2>3. i \in DOMAIN csv
    BY LineFacts
  <2>4. CASE is_fraud(AsPrinted(csv[i].logits)) # is_fraud(Reference[Own(csv[i])])
    <3>1. \/ is_fraud(AsPrinted(csv[i].logits)) = is_fraud(csv[i].logits)
          \/ Abs(csv[i].logits[1] - csv[i].logits[0]) <= Unit
      BY LineFacts, PrintingKeepsVerdict
    <3> QED BY <2>3, <2>4, <3>1 DEF RunInv, Scored, NearTie
  <2>5. CASE tol # 0 /\ ~ (d <= tol)
    <3>1. Off(csv[i]) \in Int /\ d \in Int /\ 2 * d <= 2 * Off(csv[i]) + Unit
      BY LineFacts, PrintingKeepsDeviation DEF Off
    <3>2. tol \in Nat /\ Unit \in Int
      BY LineFacts, ScoreAssumption
    <3> HIDE DEF d
    <3>3. 2 * Off(csv[i]) > 2 * tol - Unit
      BY <2>5, <3>1, <3>2
    <3> QED BY <2>3, <2>5, <3>3
  <2> QED BY <2>2, <2>4, <2>5
<1> QED BY <1>1, RunInvariant, PTL
=============================================================================
