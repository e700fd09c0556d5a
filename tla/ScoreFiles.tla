----------------------------- MODULE ScoreFiles -----------------------------
(***************************************************************************)
(* From a line of the data file to "Done": which line a row number means   *)
(* to each of its three readers, the files a row leaves in the io-dir in   *)
(* the order they are written, what decrypt keeps of a score in            *)
(* results.csv, and how the harness compares that with the reference in    *)
(* the clear.                                                              *)
(*                                                                         *)
(* Runs follow one another on one io-dir (--io-dir lets data files share   *)
(* it), kept or wiped between them, and may be killed before any write or  *)
(* within one.  FraudPipeline has what keys and traces do to them; here    *)
(* keys fit and a replay evaluates the staged input, up to an error from   *)
(* Errors, which may be large.  Logits are integers, Unit of them to the   *)
(* last of the six decimals printed.                                       *)
(***************************************************************************)
EXTENDS Integers, Sequences

CONSTANTS
  Transactions,    \* lines of a data file that hold a transaction
  Label,           \* the label of each
  Reference,       \* and its two logits in the clear
  Files,           \* data files: sequences of lines, without the header
  Rows,            \* bound: row numbers
  Requests,        \* [row |-> r] for --row r, [rows |-> n] for the first n
  Errors,          \* what an evaluation may be off by
  Tolerances,      \* --reference-tol
  Unit,            \* one millionth
  MaxRuns,         \* bound: runs
  Empty,           \* a line with nothing in it
  Return,          \* a line with nothing but a carriage return in it
  Absent

ASSUME ScoreAssumption ==
  /\ Unit \in Nat \ {0} /\ Unit % 2 = 0 /\ MaxRuns \in Nat
  /\ Label \in [Transactions -> 0 .. 1]
  /\ Reference \in [Transactions -> [0 .. 1 -> Int]]
  /\ Errors \subseteq Int /\ Tolerances \subseteq Nat
  /\ {Empty, Return, Absent} \intersect Transactions = {}
  /\ Files \subseteq Seq(Transactions \union {Empty, Return})
  /\ Rows \subseteq Nat
  /\ \A f \in Files : \A i \in 1 .. Len(f) : i - 1 \in Rows
  /\ Requests \subseteq [row : Rows] \union [rows : Nat]

VARIABLES
  file, request, tol,   \* the arguments
  pc, runs,
  copy,                 \* cipher_input_<row>.bin
  staged,               \* cipher_input.bin
  truth,                \* truth_<row>.txt: a label, or -1 for none
  result,               \* cipher_result_<row>.bin
  csv,                  \* lines of results.csv
  checks,               \* what the reference check says of each
  outcome               \* of the run: "running", "done", "disagree", "failed"

vars == <<file, request, tol, pc, runs, copy, staged, truth, result, csv, checks, outcome>>
run == <<file, request, tol, runs>>
disk == <<copy, staged, truth, result>>

-----------------------------------------------------------------------------
\* Reading the data file

\* Mutant: the first transaction is taken for the header.
HeaderTwice(lines) ==
  LET rows[i \in 0 .. Len(lines)] ==
        IF i <= 1 THEN << >>
        ELSE IF lines[i] = Empty THEN rows[i - 1]
        ELSE Append(rows[i - 1], lines[i])
  IN  rows[Len(lines)]

\* The encrypt stage leaves out empty lines; it cannot make a label of a
\* carriage return.
read_csv(lines) ==
  LET rows[i \in 0 .. Len(lines)] ==
        IF i = 0 THEN << >>
        ELSE IF lines[i] = Empty THEN rows[i - 1]
        ELSE Append(rows[i - 1], lines[i])
  IN  rows[Len(lines)]
Readable == \A i \in DOMAIN file : file[i] # Return

\* The harness counts lines, whatever they hold.
avail == Len(file)

row_list ==
  IF "row" \in DOMAIN request THEN <<request.row>>
  ELSE [i \in 1 .. (IF request.rows < avail THEN request.rows ELSE avail) |-> i - 1]

\* The reference counts lines too; an empty one has no columns to read.
read_features(row) == IF row < Len(file) THEN file[row + 1] ELSE Empty

-----------------------------------------------------------------------------
\* Numbers

Abs(x) == IF x < 0 THEN -x ELSE x
Larger(x, y) == IF x >= y THEN x ELSE y

\* To the nearest multiple of Unit, halfway to the even one.
Printed(x) ==
  LET q == x \div Unit   r == x % Unit
  IN  Unit * (IF 2 * r < Unit \/ (2 * r = Unit /\ q % 2 = 0) THEN q ELSE q + 1)

is_fraud(logits) == logits[1] > logits[0]

Deviation(x, y) == Larger(Abs(x[0] - y[0]), Abs(x[1] - y[1]))

-----------------------------------------------------------------------------
\* The loop over the rows

NoFiles ==
  /\ copy' = [r \in Rows |-> Absent] /\ staged' = Absent
  /\ truth' = [r \in Rows |-> -1] /\ result' = [r \in Rows |-> Absent]

Init ==
  /\ file \in Files /\ request \in Requests /\ tol \in Tolerances
  /\ pc = "idle" /\ runs = 0
  /\ copy = [r \in Rows |-> Absent] /\ staged = Absent
  /\ truth = [r \in Rows |-> -1] /\ result = [r \in Rows |-> Absent]
  /\ csv = << >> /\ checks = << >> /\ outcome = "failed"

\* The first run has the arguments of Init.
Begin ==
  /\ pc = "idle" /\ pc' = "copy" /\ runs < MaxRuns /\ runs' = runs + 1
  /\ IF runs = 0 THEN UNCHANGED <<file, request, tol>>
     ELSE file' \in Files /\ request' \in Requests /\ tol' \in Tolerances
  /\ csv' = << >> /\ checks' = << >> /\ outcome' = "running"
  /\ UNCHANGED disk \/ NoFiles                             \* --keep or not

Row == row_list[Len(csv) + 1]
RowsLeft == Len(csv) < Len(row_list)
Tx == read_csv(file)[Row + 1]
CanEncrypt == Readable /\ Row < Len(read_csv(file))

Step(from, to) == pc = from /\ pc' = to

WriteCopy ==
  /\ RowsLeft /\ CanEncrypt
  /\ Step("copy", "stage")
  /\ copy' = [copy EXCEPT ![Row] = Tx]
  /\ UNCHANGED <<run, staged, truth, result, csv, checks, outcome>>

\* Mutant: encrypt does not look at the number of rows.
BadRowWritten ==
  /\ RowsLeft /\ ~CanEncrypt
  /\ Step("copy", "stage")
  /\ copy' = [copy EXCEPT ![Row] = Empty]
  /\ UNCHANGED <<run, staged, truth, result, csv, checks, outcome>>

\* "Bad row", or a label that is not a number: encrypt exits with 1.
BadRow ==
  /\ RowsLeft /\ ~CanEncrypt
  /\ Step("copy", "idle")
  /\ outcome' = "failed"
  /\ UNCHANGED <<run, disk, csv, checks>>

Stage ==
  /\ Step("stage", "truth")
  /\ staged' = Tx
  /\ UNCHANGED <<run, copy, truth, result, csv, checks, outcome>>

\* Mutant: a label that is there is not written again.
KeepTruth ==
  /\ Step("truth", "compute")
  /\ truth' = [truth EXCEPT ![Row] = IF @ = -1 THEN Label[Tx] ELSE @]
  /\ UNCHANGED <<run, copy, staged, result, csv, checks, outcome>>

\* Nobody looks at whether the label could be written: the file may stay empty.
WriteTruth ==
  /\ Step("truth", "compute")
  /\ \E written \in {Label[Tx], -1} : truth' = [truth EXCEPT ![Row] = written]
  /\ UNCHANGED <<run, copy, staged, result, csv, checks, outcome>>

\* The replay reads the staged input.
Compute ==
  /\ Step("compute", "decrypt")
  /\ result' = [result EXCEPT ![Row] = staged]
  /\ UNCHANGED <<run, copy, staged, truth, csv, checks, outcome>>

\* The verdict is that of the logits before they are printed.
Decrypt ==
  /\ Step("decrypt", "copy")
  /\ \E e0, e1 \in Errors :
       LET tx == result[Row]
           logits == [i \in 0 .. 1 |-> Reference[tx][i] + (IF i = 0 THEN e0 ELSE e1)]
       IN  csv' = Append(csv, [row |-> Row, tx |-> tx, truth |-> truth[Row],
                               logits |-> logits, pred |-> is_fraud(logits)])
  /\ UNCHANGED <<run, disk, checks, outcome>>

\* A kill; within the write of the label it leaves a file without one.
Kill ==
  /\ pc # "idle" /\ pc' = "idle" /\ outcome' = "failed"
  /\ \/ UNCHANGED disk
     \/ /\ pc = "truth" /\ truth' = [truth EXCEPT ![Row] = -1]
              /\ UNCHANGED <<copy, staged, result>>
  /\ UNCHANGED <<run, csv, checks>>

-----------------------------------------------------------------------------
\* The summary

Checking == pc = "copy" /\ ~RowsLeft /\ Len(checks) < Len(csv)
Line == csv[Len(checks) + 1]

\* Mutant: either will do.
VerdictOrDeviation(agrees, dev) == agrees \/ (tol # 0 /\ dev <= tol)

\* Mutant: no exception for a tolerance of 0.
VerdictAndDeviation(agrees, dev) == agrees /\ dev <= tol

\* Mutant: the verdict alone counts.
Lenient(agrees, dev) == agrees

Passes(agrees, dev) == agrees /\ (tol = 0 \/ dev <= tol)

\* reference_check() on the next line of results.csv, of which it takes the row
\* number and the printed logits.
Check ==
  /\ Checking /\ read_features(Line.row) \in Transactions
  /\ LET tx == read_features(Line.row)
         logits == [i \in 0 .. 1 |-> Printed(Line.logits[i])]
         dev == Deviation(logits, Reference[tx])
         agrees == is_fraud(logits) = is_fraud(Reference[tx])
     IN  checks' = Append(checks, [tx |-> tx, ok |-> Passes(agrees, dev)])
  /\ UNCHANGED <<run, pc, disk, csv, outcome>>

\* A line without columns: the harness dies of the exception.
NoFeatures ==
  /\ Checking /\ read_features(Line.row) \notin Transactions
  /\ pc' = "idle" /\ outcome' = "failed"
  /\ UNCHANGED <<run, disk, csv, checks>>

Report ==
  /\ Step("copy", "idle")
  /\ ~RowsLeft /\ Len(checks) = Len(csv)
  /\ outcome' = IF checks = << >> THEN "failed"
                ELSE IF \A i \in DOMAIN checks : checks[i].ok THEN "done"
                ELSE "disagree"
  /\ UNCHANGED <<run, disk, csv, checks>>

Finished == pc = "idle" /\ runs = MaxRuns /\ UNCHANGED vars

Next ==
  \/ Begin \/ WriteCopy \/ BadRow \/ Stage \/ WriteTruth \/ Compute \/ Decrypt
  \/ Kill \/ Check \/ NoFeatures \/ Report \/ Finished

Spec == Init /\ [][Next]_vars

-----------------------------------------------------------------------------
\* Properties

Stored == Transactions \union {Absent}

\* What the files and the checks hold, and that no line is checked twice.
TypeOK ==
  /\ file \in Files /\ request \in Requests /\ tol \in Tolerances
  /\ pc \in {"idle", "copy", "stage", "truth", "compute", "decrypt"}
  /\ runs \in 0 .. MaxRuns
  /\ copy \in [Rows -> Stored] /\ staged \in Stored
  /\ truth \in [Rows -> -1 .. 1] /\ result \in [Rows -> Stored]
  /\ csv \in Seq([row : Rows, tx : Transactions, truth : -1 .. 1,
                  logits : [0 .. 1 -> Int], pred : BOOLEAN])
  /\ checks \in Seq([tx : Transactions, ok : BOOLEAN])
  /\ Len(checks) <= Len(csv) /\ Len(csv) <= Len(row_list)
  /\ outcome \in {"running", "done", "disagree", "failed"}

\* No empty line stands before a transaction.
Plain == \A i \in DOMAIN file : file[i] = Empty =>
           \A j \in DOMAIN file : j > i => file[j] = Empty
Own(line) == read_csv(file)[line.row + 1]
Off(line) == Deviation(line.logits, Reference[Own(line)])
NearTie(line) == Abs(line.logits[1] - line.logits[0]) <= Unit

\* "Done": the verdict decrypt printed for each row is that of the row's own
\* transaction in the clear, whatever the tolerance and whatever lay in the
\* io-dir; the printing of the logits can hide a difference between the two only
\* where they are a millionth apart.
VerdictsConfirmed ==
  outcome = "done" /\ Plain =>
    \A i \in DOMAIN csv :
      csv[i].pred = is_fraud(Reference[Own(csv[i])]) \/ NearTie(csv[i])

\* "drift that keeps the verdict is still caught": after "Done" with a tolerance
\* no logit is further off than that and half of what the printing takes away.
DriftCaught ==
  outcome = "done" /\ Plain /\ tol # 0 =>
    \A i \in DOMAIN csv : 2 * Off(csv[i]) <= 2 * tol + Unit

\* A run is refused only for cause: a row well within the tolerance, its verdict
\* kept and no near tie, is never the reason.
RefusedForCause ==
  outcome = "disagree" /\ Plain =>
    \E i \in DOMAIN csv :
      \/ tol # 0 /\ 2 * Off(csv[i]) > 2 * tol - Unit
      \/ csv[i].pred # is_fraud(Reference[Own(csv[i])])
      \/ NearTie(csv[i])

\* "mirror src/fraud_bench_common.h read_csv": a line is compared with the
\* transaction that was encrypted for it, unless an empty line stands between.
ReadersAgree == Plain => \A i \in DOMAIN checks : checks[i].tx = csv[i].tx

\* results.csv sets a verdict against the label of the very transaction that
\* was decrypted, or against none where the label was not written, and the copy
\* kept as evidence under the row's name is that transaction, whatever an
\* earlier run left of labels, copies and results.
FilesBelongTogether ==
  \A i \in DOMAIN csv : /\ csv[i].truth \in {Label[csv[i].tx], -1}
                        /\ csv[i].tx = copy[csv[i].row]
=============================================================================
