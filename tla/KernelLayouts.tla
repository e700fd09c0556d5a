--------------------------- MODULE KernelLayouts ---------------------------
(***************************************************************************)
(* What the generated kernel (src/fraud_model_lib.inc.cc) makes of the     *)
(* network before it meets a ciphertext: the weights as diagonals, laid    *)
(* out over a vector of slots; the biases, constants and the transaction   *)
(* in the same layout; the shape of each layer's product.                  *)
(***************************************************************************)
EXTENDS CkksEvaluator, Sequences

CONSTANTS
  Layout,                              \* slots of a layout, 16384 in the code
  W1, b1, W2, b2, W3, b3,              \* weights and biases, row by row
  Scale, C_Lin, C_T3, C_Lin2, C_T32, C_Bias    \* constants of the activation

N_IN == 82
N_H1 == 128
N_H2 == 64
N_OUT == 2

ASSUME KernelAssumption ==
  /\ Layout \in Nat \ {0} /\ Layout % N_H1 = 0
  /\ Slots % Layout = 0
  /\ W1 \in [0 .. N_H1 - 1 -> [0 .. N_IN - 1 -> Value]]
  /\ W2 \in [0 .. N_H2 - 1 -> [0 .. N_H1 - 1 -> Value]]
  /\ W3 \in [0 .. N_OUT - 1 -> [0 .. N_H2 - 1 -> Value]]
  /\ b1 \in [0 .. N_H1 - 1 -> Value]
  /\ b2 \in [0 .. N_H2 - 1 -> Value]
  /\ b3 \in [0 .. N_OUT - 1 -> Value]
  /\ {Scale, C_Lin, C_T3, C_Lin2, C_T32, C_Bias} \subseteq Value

-----------------------------------------------------------------------------
\* Layouts and plaintexts

\* Of each layer: number of diagonals, baby steps, and the rotations that fold
\* the partial sums of one row onto each other.
\* Mutant: sixteen baby steps for the widest layer.
SixteenBabies ==
  << [diagonals |-> 128, babies |-> 16, folds |-> << >>],
     [diagonals |-> 64, babies |-> 8, folds |-> <<64>>],
     [diagonals |-> 2, babies |-> 2, folds |-> <<32, 16, 8, 4, 2>>] >>

Shape ==
  << [diagonals |-> 128, babies |-> 12, folds |-> << >>],
     [diagonals |-> 64, babies |-> 8, folds |-> <<64>>],
     [diagonals |-> 2, babies |-> 2, folds |-> <<32, 16, 8, 4, 2>>] >>

\* Whether position j of a row of 128 is one of the 82 features.
IsFeature(j) == (j + 46) % 128 >= 46

W1Diagonal(d, s) ==
  IF IsFeature(d + s) THEN W1[s % 128][(d + s) % 128] ELSE 0
W2Diagonal(d, s) == W2[s % 64][127 - ((Layout + 127 - d - s) % 128)]
W3Diagonal(d, s) == W3[1 - ((s + 1) % 2)][63 - ((Layout + 63 - d - s) % 64)]

Diagonal(l, d, s) ==
  CASE l = 1 -> W1Diagonal(d, s)
    [] l = 2 -> W2Diagonal(d, s)
    [] l = 3 -> W3Diagonal(d, s)

Bias(l, s) ==
  CASE l = 1 -> b1[s % 128] [] l = 2 -> b2[s % 64] [] l = 3 -> b3[s % 2]

\* Mutant: the rest of the ciphertext is left empty.
PaddedWithZeros(v) == [s \in Slot |-> IF s < Layout THEN v[s] ELSE 0]

\* A layout is repeated until the ciphertext is full.
Fill(v) == [s \in Slot |-> v[s % Layout]]

\* The diagonal of a giant step as the circuit needs it: rotated right by what the
\* step rotates left.
PreRotated(l, d, by) ==
  Fill([s \in 0 .. Layout - 1 |-> Diagonal(l, d, (s - by) % Layout)])

BiasPlain(l) == Fill([s \in 0 .. Layout - 1 |-> Bias(l, s)])

Const(c) == Fill([s \in 0 .. Layout - 1 |-> c])

PackedInput(v) ==
  Fill([s \in 0 .. Layout - 1 |-> IF IsFeature(s) THEN v[s % 128] ELSE 0])
=============================================================================
