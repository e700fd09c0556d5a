--------------------------- MODULE PlaintextStore ---------------------------
(***************************************************************************)
(* How the weights reach the circuit (src/fraud_model_lib.inc.cc):         *)
(* run_inference__preprocessing rotates the diagonals of each giant step,  *)
(* encodes 205 plaintexts and returns them in sixteen vectors;             *)
(* run_inference__preprocessed unpacks the vectors under other numbers and *)
(* multiplies by what it unpacked.  The code is generated and unrolled:    *)
(* nothing but four sequences of literal indices says which plaintext is   *)
(* which.                                                                  *)
(*                                                                         *)
(* The code is straight-line and writes each of its names once, so the     *)
(* module is a chain of definitions in the order of the code.              *)
(***************************************************************************)
EXTENDS KernelLayouts

\* What the layout functions return, row by row.
W1Row(d) == [s \in 0 .. Layout - 1 |-> W1Diagonal(d, s)]
W2Row(d) == [s \in 0 .. Layout - 1 |-> W2Diagonal(d, s)]
W3Row(d) == [s \in 0 .. Layout - 1 |-> W3Diagonal(d, s)]
B1Row == [s \in 0 .. Layout - 1 |-> Bias(1, s)]
B2Row == [s \in 0 .. Layout - 1 |-> Bias(2, s)]
B3Row == [s \in 0 .. Layout - 1 |-> Bias(3, s)]

-----------------------------------------------------------------------------
\* The rotations

\* Mutant: the slices have the length of the other one.
SlicesSwapped(row, n) ==
  LET head == [i \in 0 .. n - 1 |-> row[i]]
      tail == [i \in 0 .. Layout - n - 1 |-> row[n + i]]
  IN  [s \in 0 .. Layout - 1 |->
         IF s < Layout - n THEN tail[s] ELSE head[s - (Layout - n)]]

\* All but the last n elements go to n and up, the last n to 0 and up.
RightBy(row, n) ==
  LET head == [i \in 0 .. Layout - n - 1 |-> row[i]]
      tail == [i \in 0 .. n - 1 |-> row[Layout - n + i]]
  IN  [s \in 0 .. Layout - 1 |-> IF s < n THEN tail[s] ELSE head[s - n]]

\* Rows first to last of the second and of the first layer, each rotated by n.
RotateW2(first, last, n) == [d \in first .. last |-> RightBy(W2Row(d), n)]
RotateW1(first, last, n) == [d \in first .. last |-> RightBy(W1Row(d), n)]

\* One block of the generated code for every giant step.
W2GiantStep1 == RotateW2(8, 15, 8)
W2GiantStep2 == RotateW2(16, 23, 16)
W2GiantStep3 == RotateW2(24, 31, 24)
W2GiantStep4 == RotateW2(32, 39, 32)
W2GiantStep5 == RotateW2(40, 47, 40)
W2GiantStep6 == RotateW2(48, 55, 48)
W2GiantStep7 == RotateW2(56, 63, 56)
W1GiantStep1 == RotateW1(12, 23, 12)
W1GiantStep2 == RotateW1(24, 35, 24)
W1GiantStep3 == RotateW1(36, 47, 36)
W1GiantStep4 == RotateW1(48, 59, 48)
W1GiantStep5 == RotateW1(60, 71, 60)
W1GiantStep6 == RotateW1(72, 83, 72)
W1GiantStep7 == RotateW1(84, 95, 84)
W1GiantStep8 == RotateW1(96, 107, 96)
W1GiantStep9 == RotateW1(108, 119, 108)
W1GiantStep10 == RotateW1(120, 127, 120)

\* The rows the blocks leave, by their number in the layout.
rotW2 ==
  [d \in 8 .. 63 |->
     << W2GiantStep1, W2GiantStep2, W2GiantStep3, W2GiantStep4, W2GiantStep5,
        W2GiantStep6, W2GiantStep7 >>[d \div 8][d]]

rotW1 ==
  [d \in 12 .. 127 |->
     << W1GiantStep1, W1GiantStep2, W1GiantStep3, W1GiantStep4, W1GiantStep5,
        W1GiantStep6, W1GiantStep7, W1GiantStep8, W1GiantStep9,
        W1GiantStep10 >>[d \div 12][d]]

-----------------------------------------------------------------------------
\* The plaintexts pt, pt1, ... pt204 of the preprocessing

\* v0 ... v7
Constants == <<Scale, C_Lin, 2, 1, C_T3, C_Lin2, C_T32, C_Bias>>

\* The diagonals of the first giant step of a layer are not rotated.
EncodeW1Plain(i) == Fill(W1Row(i))
EncodeW1Rotated(i) == Fill(rotW1[i])
EncodeB1 == Fill(B1Row)
EncodeConstants(i) == Const(Constants[i - 128])
EncodeW2Plain(i) == Fill(W2Row(i - 137))
EncodeW2Rotated(i) == Fill(rotW2[i - 137])
EncodeB2 == Fill(B2Row)
EncodeW3(i) == Fill(W3Row(i - 202))
EncodeB3 == Fill(B3Row)

encoded ==
  [i \in 0 .. 204 |->
     CASE i \in 0 .. 11    -> EncodeW1Plain(i)
       [] i \in 12 .. 127  -> EncodeW1Rotated(i)
       [] i = 128          -> EncodeB1
       [] i \in 129 .. 136 -> EncodeConstants(i)
       [] i \in 137 .. 144 -> EncodeW2Plain(i)
       [] i \in 145 .. 200 -> EncodeW2Rotated(i)
       [] i = 201          -> EncodeB2
       [] i \in 202 .. 203 -> EncodeW3(i)
       [] i = 204          -> EncodeB3]

-----------------------------------------------------------------------------
\* The way to the circuit

\* arg0 holds what is added or subtracted, arg1 ... arg15 what is multiplied by,
\* in fourteens; the constant 1 (pt132) is in both.
Added == <<128, 132, 136, 201, 204>>

\* Mutant: the constant 1 is only among what is subtracted.
OnesNotMultiplied ==
  [i \in 1 .. 201 |-> IF i <= 128 THEN i - 1
                      ELSE IF i <= 131 THEN i
                      ELSE IF i <= 199 THEN i + 1 ELSE i + 2]

Multiplied ==
  [i \in 1 .. 201 |-> IF i <= 128 THEN i - 1
                      ELSE IF i <= 135 THEN i
                      ELSE IF i <= 199 THEN i + 1 ELSE i + 2]

arg0 == [i \in 1 .. 5 |-> encoded[Added[i]]]
arg(b) == [i \in 1 .. (IF b = 15 THEN 5 ELSE 14) |->
             encoded[Multiplied[14 * (b - 1) + i]]]

\* The circuit's pt, pt1, ... pt205: pt ... pt4 from arg0, the rest from the others.
operand ==
  [i \in 0 .. 205 |->
     IF i < 5 THEN arg0[i + 1]
     ELSE arg(1 + (i - 5) \div 14)[((i - 5) % 14) + 1]]

\* The operand of the product with diagonal d of layer l, and of its bias.
WeightOperand(l, d) == operand[<<5, 140, 204>>[l] + d]
BiasOperand(l) == operand[<<0, 3, 4>>[l]]
=============================================================================
