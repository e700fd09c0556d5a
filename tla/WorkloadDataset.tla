-------------------------- MODULE WorkloadDataset --------------------------
(***************************************************************************)
(* data/make_workload_dataset.py: the transactions of the default dataset, *)
(* one fraud in every block, so that each workload size is a prefix with a *)
(* known number of frauds.  The shuffles put the sources in any order; that*)
(* order is what the numbers below count.                                  *)
(***************************************************************************)
EXTENDS Naturals, Sequences, SequencesExt

CONSTANTS MaxTotal   \* bound: --total

ASSUME DatasetAssumption == MaxTotal \in Nat

VARIABLES
  total, n_fraud,    \* --total, and what --fraud-pct makes of it
  b, li,             \* the block of the loop, legitimate rows used up
  rows,
  written            \* the file is written

vars == <<total, n_fraud, b, li, rows, written>>

\* The checks before the loop; the sources are large enough.
Init ==
  /\ total \in 1 .. MaxTotal /\ n_fraud \in 1 .. total
  /\ b = 0 /\ li = 0 /\ rows = << >> /\ written = FALSE

block == total \div n_fraud

fraud(i) == [is_fraud |-> TRUE, source |-> i]
legit(from, to) ==
  [i \in 1 .. (IF to > total - n_fraud THEN total - n_fraud ELSE to) - from |->
     [is_fraud |-> FALSE, source |-> from + i - 1]]

\* Mutant: the rows a block has used are not counted.
RepeatBlock ==
  /\ b < n_fraud
  /\ \E pos \in (IF b = 0 THEN {0} ELSE 0 .. block - 1) :
       rows' = rows \o InsertAt(legit(li, li + block - 1), pos + 1, fraud(b))
  /\ b' = b + 1
  /\ UNCHANGED <<total, n_fraud, li, written>>

\* Mutant: the first block is like the others.
AnyPosition ==
  /\ b < n_fraud
  /\ \E pos \in 0 .. block - 1 :
       rows' = rows \o InsertAt(legit(li, li + block - 1), pos + 1, fraud(b))
  /\ b' = b + 1 /\ li' = li + block - 1
  /\ UNCHANGED <<total, n_fraud, written>>

Block ==
  /\ b < n_fraud
  /\ \E pos \in (IF b = 0 THEN {0} ELSE 0 .. block - 1) :
       rows' = rows \o InsertAt(legit(li, li + block - 1), pos + 1, fraud(b))
  /\ b' = b + 1 /\ li' = li + block - 1
  /\ UNCHANGED <<total, n_fraud, written>>

\* Rows are topped up with legitimate ones.
Write ==
  /\ b = n_fraud /\ ~written
  /\ rows' = rows \o legit(li, li + (total - Len(rows)))
  /\ written' = TRUE
  /\ UNCHANGED <<total, n_fraud, b, li>>

Finished == written /\ UNCHANGED vars

Next == Block \/ Write \/ Finished

Spec == Init /\ [][Next]_vars

-----------------------------------------------------------------------------
\* Properties

Frauds(n) == {i \in 1 .. n : rows[i].is_fraud}

\* "so every size lands on an exact, known fraud count": a prefix of k blocks
\* has k frauds, the first of them in row 0 ("single demonstrates a catch").
PrefixesAreExact ==
  \A k \in 1 .. b :
    /\ 1 \in Frauds(k * block)
    /\ \A j \in 1 .. k :
         \E i \in Frauds(k * block) :
           Frauds(k * block) \intersect ((j - 1) * block + 1 .. j * block) = {i}

\* The file has the rows asked for and none of them twice, whatever the block
\* length leaves over.
WorkloadIsWhole ==
  written =>
    /\ Len(rows) = total
    /\ IsInjective(rows)
    /\ rows[total].is_fraud => total % n_fraud = 0
=============================================================================
