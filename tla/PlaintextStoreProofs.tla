------------------------ MODULE PlaintextStoreProofs ------------------------
(***************************************************************************)
(* For every network and every size of layout and ciphertext, the circuit  *)
(* finds each plaintext under the number it uses.                          *)
(***************************************************************************)
EXTENDS PlaintextStore, KernelLayoutsProofs, TLAPS

(* The amount by which the giant step of a diagonal rotates. *)
StepOf(l, d) == d - (d % Shape[l].babies)

(* A diagonal of layer l as its giant step wants it. *)
Turned(l, d) ==
  [s \in 0 .. Layout - 1 |-> Diagonal(l, d, (s - StepOf(l, d)) % Layout)]

(* The plaintext the preprocessing encodes under number i. *)
Expected(i) ==
  IF i <= 127 THEN PreRotated(1, i, StepOf(1, i))
  ELSE IF i = 128 THEN BiasPlain(1)
  ELSE IF i <= 136 THEN Const(Constants[i - 128])
  ELSE IF i <= 200 THEN PreRotated(2, i - 137, StepOf(2, i - 137))
  ELSE IF i = 201 THEN BiasPlain(2)
  ELSE IF i <= 203 THEN PreRotated(3, i - 202, StepOf(3, i - 202))
  ELSE BiasPlain(3)

(* The number in the preprocessing of the circuit's operand i. *)
Origin(i) == IF i < 5 THEN Added[i + 1] ELSE Multiplied[i - 4]

-----------------------------------------------------------------------------
(* Rotation by two slices *)

LEMMA LayoutSize == Layout \in Nat /\ Layout >= 128
<1>1. Layout \in Nat \ {0} /\ Layout % 128 = 0
  BY KernelAssumption DEF N_H1
<1> QED BY <1>1

LEMMA WrapOnce ==
  ASSUME NEW m \in Nat \ {0}, NEW a \in Int
  PROVE  /\ 0 <= a /\ a < m => a % m = a
         /\ -m <= a /\ a < 0 => a % m = a + m
<1>1. 0 <= a /\ a < m => a % m = a
  OBVIOUS
<1>2. ASSUME -m <= a, a < 0 PROVE a % m = a + m
  <2>1. a \div m = -1
    BY <1>2
  <2> QED BY <2>1
<1> QED BY <1>1, <1>2

(* Two slices put back in the other order are a rotation to the right. *)
LEMMA RightByRotates ==
  ASSUME NEW row, NEW n \in 0 .. Layout
  PROVE  RightBy(row, n) = [s \in 0 .. Layout - 1 |-> row[(s - n) % Layout]]
<1> DEFINE head == [i \in 0 .. Layout - n - 1 |-> row[i]]
           tail == [i \in 0 .. n - 1 |-> row[Layout - n + i]]
<1>1. ASSUME NEW s \in 0 .. Layout - 1
      PROVE  (IF s < n THEN tail[s] ELSE head[s - n]) = row[(s - n) % Layout]
  <2>1. CASE s < n
    <3>1. (s - n) % Layout = Layout - n + s
      BY <2>1, LayoutSize, WrapOnce
    <3>2. tail[s] = row[Layout - n + s]
      BY <2>1, LayoutSize
    <3> QED BY <2>1, <3>1, <3>2
  <2>2. CASE ~(s < n)
    <3>1. (s - n) % Layout = s - n
      BY <2>2, LayoutSize, WrapOnce
    <3>2. head[s - n] = row[s - n]
      BY <2>2, LayoutSize
    <3> QED BY <2>2, <3>1, <3>2
  <2> QED BY <2>1, <2>2
<1> QED BY <1>1 DEF RightBy

LEMMA TurnedRows ==
  /\ \A d \in 0 .. 127 : \A n \in 0 .. 120 :
       n = StepOf(1, d) => RightBy(W1Row(d), n) = Turned(1, d)
  /\ \A d \in 0 .. 63 : \A n \in 0 .. 56 :
       n = StepOf(2, d) => RightBy(W2Row(d), n) = Turned(2, d)
<1>1. \A s \in 0 .. Layout - 1, n \in 0 .. 120 : (s - n) % Layout \in 0 .. Layout - 1
  BY LayoutSize
<1>2. ASSUME NEW d \in 0 .. 127, NEW n \in 0 .. 120, n = StepOf(1, d)
      PROVE  RightBy(W1Row(d), n) = Turned(1, d)
  <2>1. RightBy(W1Row(d), n) = [s \in 0 .. Layout - 1 |-> W1Row(d)[(s - n) % Layout]]
    BY RightByRotates, LayoutSize
  <2>2. \A t \in 0 .. Layout - 1 : W1Row(d)[t] = Diagonal(1, d, t)
    BY DEF W1Row, Diagonal
  <2>3. \A s \in 0 .. Layout - 1 : W1Row(d)[(s - n) % Layout] = Diagonal(1, d, (s - n) % Layout)
    BY <1>1, <2>2
  <2> QED BY <1>2, <2>1, <2>3 DEF Turned
<1>3. ASSUME NEW d \in 0 .. 63, NEW n \in 0 .. 56, n = StepOf(2, d)
      PROVE  RightBy(W2Row(d), n) = Turned(2, d)
  <2>1. RightBy(W2Row(d), n) = [s \in 0 .. Layout - 1 |-> W2Row(d)[(s - n) % Layout]]
    BY RightByRotates, LayoutSize
  <2>2. \A t \in 0 .. Layout - 1 : W2Row(d)[t] = Diagonal(2, d, t)
    BY DEF W2Row, Diagonal
  <2>3. \A s \in 0 .. Layout - 1 : W2Row(d)[(s - n) % Layout] = Diagonal(2, d, (s - n) % Layout)
    <3>1. n \in 0 .. 120
      OBVIOUS
    <3> QED BY <1>1, <2>2, <3>1
  <2> QED BY <1>3, <2>1, <2>3 DEF Turned
<1> QED BY <1>2, <1>3

LEMMA StepFacts ==
  /\ \A d \in 0 .. 127 : StepOf(1, d) = d - (d % 12)
  /\ \A d \in 0 .. 127 : StepOf(2, d) = d - (d % 8)
  /\ \A d \in 0 .. 127 : StepOf(3, d) = d - (d % 2)
  /\ \A l \in 1 .. 3, d \in 0 .. 127 : StepOf(l, d) \in 0 .. 127
<1>1. /\ \A d : StepOf(1, d) = d - (d % 12)
      /\ \A d : StepOf(2, d) = d - (d % 8)
      /\ \A d : StepOf(3, d) = d - (d % 2)
  BY DEF StepOf, Shape
<1>2. \A d \in 0 .. 127 : d - (d % 12) \in 0 .. 127 /\ d - (d % 8) \in 0 .. 127 /\ d - (d % 2) \in 0 .. 127
  OBVIOUS
<1>3. \A l \in 1 .. 3 : l = 1 \/ l = 2 \/ l = 3
  OBVIOUS
<1> QED BY <1>1, <1>2, <1>3

(* What is encoded under each number is a vector over the slots. *)
LEMMA ExpectedTyped ==
  ASSUME NEW i \in 0 .. 204
  PROVE  Expected(i) \in Vector
<1>1. \A l \in 1 .. 3, d \in 0 .. 127 : StepOf(l, d) \in Nat
  BY StepFacts
<1>2. \A j \in 1 .. 8 : Constants[j] \in Value
  <2>1. {Scale, C_Lin, 2, 1, C_T3, C_Lin2, C_T32, C_Bias} \subseteq Value
    BY KernelAssumption, EvaluatorAssumption DEF Value
  <2>2. \A j \in 1 .. 8 : Constants[j] \in {Scale, C_Lin, 2, 1, C_T3, C_Lin2, C_T32, C_Bias}
    BY DEF Constants
  <2> QED BY <2>1, <2>2
<1>3. \A l \in 1 .. 3, d \in 0 .. 127 : PreRotated(l, d, StepOf(l, d)) \in Vector
  <2> TAKE l \in 1 .. 3, d \in 0 .. 127
  <2>1. d \in Nat /\ StepOf(l, d) \in Nat
    BY <1>1
  <2> QED BY <2>1, PreRotatedTyped
<1>4. CASE i \in 0 .. 127
  <2>1. PreRotated(1, i, StepOf(1, i)) \in Vector
    BY <1>3, <1>4
  <2> QED BY <1>4, <2>1 DEF Expected
<1>5. CASE i \in 128 .. 136
  BY <1>2, <1>5, BiasTyped, ConstTyped DEF Expected
<1>6. CASE i \in 137 .. 200
  <2>1. i - 137 \in 0 .. 127
    BY <1>6
  <2>2. PreRotated(2, i - 137, StepOf(2, i - 137)) \in Vector
    BY <1>3, <2>1
  <2> QED BY <1>6, <2>2 DEF Expected
<1>7. CASE i \in 201 .. 204
  <2>1. CASE i \in 202 .. 203
    <3>1. i - 202 \in 0 .. 127
      BY <2>1
    <3>2. PreRotated(3, i - 202, StepOf(3, i - 202)) \in Vector
      BY <1>3, <3>1
    <3> QED BY <2>1, <3>2 DEF Expected
  <2>2. BiasPlain(2) \in Vector /\ BiasPlain(3) \in Vector
    BY BiasTyped
  <2> QED BY <1>7, <2>1, <2>2 DEF Expected
<1> QED BY <1>4, <1>5, <1>6, <1>7

-----------------------------------------------------------------------------
(* The blocks of rotations *)

(* Each block rotates the diagonals of its giant step, and no others, by   *)
(* the amount of that step.                                                *)
LEMMA RotW2 == \A d \in 8 .. 63 : rotW2[d] = Turned(2, d)
<1>1. SUFFICES ASSUME NEW d \in 8 .. 63
               PROVE  rotW2[d] = Turned(2, d)
  OBVIOUS
<1>2. CASE d \in 8 .. 15
  <2>1. d \div 8 = 1 /\ 8 = StepOf(2, d)
    BY <1>2, StepFacts
  <2>2. rotW2[d] = W2GiantStep1[d]
    BY <2>1 DEF rotW2
  <2>3. rotW2[d] = RightBy(W2Row(d), 8)
    BY <1>2, <2>2 DEF W2GiantStep1, RotateW2
  <2> QED BY <2>1, <2>3, TurnedRows
<1>3. CASE d \in 16 .. 23
  <2>1. d \div 8 = 2 /\ 16 = StepOf(2, d)
    BY <1>3, StepFacts
  <2>2. rotW2[d] = W2GiantStep2[d]
    BY <2>1 DEF rotW2
  <2>3. rotW2[d] = RightBy(W2Row(d), 16)
    BY <1>3, <2>2 DEF W2GiantStep2, RotateW2
  <2> QED BY <2>1, <2>3, TurnedRows
<1>4. CASE d \in 24 .. 31
  <2>1. d \div 8 = 3 /\ 24 = StepOf(2, d)
    BY <1>4, StepFacts
  <2>2. rotW2[d] = W2GiantStep3[d]
    BY <2>1 DEF rotW2
  <2>3. rotW2[d] = RightBy(W2Row(d), 24)
    BY <1>4, <2>2 DEF W2GiantStep3, RotateW2
  <2> QED BY <2>1, <2>3, TurnedRows
<1>5. CASE d \in 32 .. 39
  <2>1. d \div 8 = 4 /\ 32 = StepOf(2, d)
    BY <1>5, StepFacts
  <2>2. rotW2[d] = W2GiantStep4[d]
    BY <2>1 DEF rotW2
  <2>3. rotW2[d] = RightBy(W2Row(d), 32)
    BY <1>5, <2>2 DEF W2GiantStep4, RotateW2
  <2> QED BY <2>1, <2>3, TurnedRows
<1>6. CASE d \in 40 .. 47
  <2>1. d \div 8 = 5 /\ 40 = StepOf(2, d)
    BY <1>6, StepFacts
  <2>2. rotW2[d] = W2GiantStep5[d]
    BY <2>1 DEF rotW2
  <2>3. rotW2[d] = RightBy(W2Row(d), 40)
    BY <1>6, <2>2 DEF W2GiantStep5, RotateW2
  <2> QED BY <2>1, <2>3, TurnedRows
<1>7. CASE d \in 48 .. 55
  <2>1. d \div 8 = 6 /\ 48 = StepOf(2, d)
    BY <1>7, StepFacts
  <2>2. rotW2[d] = W2GiantStep6[d]
    BY <2>1 DEF rotW2
  <2>3. rotW2[d] = RightBy(W2Row(d), 48)
    BY <1>7, <2>2 DEF W2GiantStep6, RotateW2
  <2> QED BY <2>1, <2>3, TurnedRows
<1>8. CASE d \in 56 .. 63
  <2>1. d \div 8 = 7 /\ 56 = StepOf(2, d)
    BY <1>8, StepFacts
  <2>2. rotW2[d] = W2GiantStep7[d]
    BY <2>1 DEF rotW2
  <2>3. rotW2[d] = RightBy(W2Row(d), 56)
    BY <1>8, <2>2 DEF W2GiantStep7, RotateW2
  <2> QED BY <2>1, <2>3, TurnedRows
<1> QED BY <1>2, <1>3, <1>4, <1>5, <1>6, <1>7, <1>8

(* Each block rotates the diagonals of its giant step, and no others, by   *)
(* the amount of that step.                                                *)
LEMMA RotW1 == \A d \in 12 .. 127 : rotW1[d] = Turned(1, d)
<1>1. SUFFICES ASSUME NEW d \in 12 .. 127
               PROVE  rotW1[d] = Turned(1, d)
  OBVIOUS
<1>2. CASE d \in 12 .. 23
  <2>1. d \div 12 = 1 /\ 12 = StepOf(1, d)
    BY <1>2, StepFacts
  <2>2. rotW1[d] = W1GiantStep1[d]
    BY <2>1 DEF rotW1
  <2>3. rotW1[d] = RightBy(W1Row(d), 12)
    BY <1>2, <2>2 DEF W1GiantStep1, RotateW1
  <2> QED BY <2>1, <2>3, TurnedRows
<1>3. CASE d \in 24 .. 35
  <2>1. d \div 12 = 2 /\ 24 = StepOf(1, d)
    BY <1>3, StepFacts
  <2>2. rotW1[d] = W1GiantStep2[d]
    BY <2>1 DEF rotW1
  <2>3. rotW1[d] = RightBy(W1Row(d), 24)
    BY <1>3, <2>2 DEF W1GiantStep2, RotateW1
  <2> QED BY <2>1, <2>3, TurnedRows
<1>4. CASE d \in 36 .. 47
  <2>1. d \div 12 = 3 /\ 36 = StepOf(1, d)
    BY <1>4, StepFacts
  <2>2. rotW1[d] = W1GiantStep3[d]
    BY <2>1 DEF rotW1
  <2>3. rotW1[d] = RightBy(W1Row(d), 36)
    BY <1>4, <2>2 DEF W1GiantStep3, RotateW1
  <2> QED BY <2>1, <2>3, TurnedRows
<1>5. CASE d \in 48 .. 59
  <2>1. d \div 12 = 4 /\ 48 = StepOf(1, d)
    BY <1>5, StepFacts
  <2>2. rotW1[d] = W1GiantStep4[d]
    BY <2>1 DEF rotW1
  <2>3. rotW1[d] = RightBy(W1Row(d), 48)
    BY <1>5, <2>2 DEF W1GiantStep4, RotateW1
  <2> QED BY <2>1, <2>3, TurnedRows
<1>6. CASE d \in 60 .. 71
  <2>1. d \div 12 = 5 /\ 60 = StepOf(1, d)
    BY <1>6, StepFacts
  <2>2. rotW1[d] = W1GiantStep5[d]
    BY <2>1 DEF rotW1
  <2>3. rotW1[d] = RightBy(W1Row(d), 60)
    BY <1>6, <2>2 DEF W1GiantStep5, RotateW1
  <2> QED BY <2>1, <2>3, TurnedRows
<1>7. CASE d \in 72 .. 83
  <2>1. d \div 12 = 6 /\ 72 = StepOf(1, d)
    BY <1>7, StepFacts
  <2>2. rotW1[d] = W1GiantStep6[d]
    BY <2>1 DEF rotW1
  <2>3. rotW1[d] = RightBy(W1Row(d), 72)
    BY <1>7, <2>2 DEF W1GiantStep6, RotateW1
  <2> QED BY <2>1, <2>3, TurnedRows
<1>8. CASE d \in 84 .. 95
  <2>1. d \div 12 = 7 /\ 84 = StepOf(1, d)
    BY <1>8, StepFacts
  <2>2. rotW1[d] = W1GiantStep7[d]
    BY <2>1 DEF rotW1
  <2>3. rotW1[d] = RightBy(W1Row(d), 84)
    BY <1>8, <2>2 DEF W1GiantStep7, RotateW1
  <2> QED BY <2>1, <2>3, TurnedRows
<1>9. CASE d \in 96 .. 107
  <2>1. d \div 12 = 8 /\ 96 = StepOf(1, d)
    BY <1>9, StepFacts
  <2>2. rotW1[d] = W1GiantStep8[d]
    BY <2>1 DEF rotW1
  <2>3. rotW1[d] = RightBy(W1Row(d), 96)
    BY <1>9, <2>2 DEF W1GiantStep8, RotateW1
  <2> QED BY <2>1, <2>3, TurnedRows
<1>10. CASE d \in 108 .. 119
  <2>1. d \div 12 = 9 /\ 108 = StepOf(1, d)
    BY <1>10, StepFacts
  <2>2. rotW1[d] = W1GiantStep9[d]
    BY <2>1 DEF rotW1
  <2>3. rotW1[d] = RightBy(W1Row(d), 108)
    BY <1>10, <2>2 DEF W1GiantStep9, RotateW1
  <2> QED BY <2>1, <2>3, TurnedRows
<1>11. CASE d \in 120 .. 127
  <2>1. d \div 12 = 10 /\ 120 = StepOf(1, d)
    BY <1>11, StepFacts
  <2>2. rotW1[d] = W1GiantStep10[d]
    BY <2>1 DEF rotW1
  <2>3. rotW1[d] = RightBy(W1Row(d), 120)
    BY <1>11, <2>2 DEF W1GiantStep10, RotateW1
  <2> QED BY <2>1, <2>3, TurnedRows
<1> QED BY <1>2, <1>3, <1>4, <1>5, <1>6, <1>7, <1>8, <1>9, <1>10, <1>11

-----------------------------------------------------------------------------
(* The plaintexts *)

(* A diagonal of a first giant step is not rotated: its step is 0. *)
LEMMA UnrotatedFill ==
  /\ \A d \in 0 .. 11 : Fill(W1Row(d)) = PreRotated(1, d, StepOf(1, d))
  /\ \A d \in 0 .. 7 : Fill(W2Row(d)) = PreRotated(2, d, StepOf(2, d))
  /\ \A d \in 0 .. 1 : Fill(W3Row(d)) = PreRotated(3, d, StepOf(3, d))
<1>1. \A s \in 0 .. Layout - 1 : (s - 0) % Layout = s
  BY LayoutSize, WrapOnce
<1>2. /\ \A d \in 0 .. 11 : StepOf(1, d) = 0
      /\ \A d \in 0 .. 7 : StepOf(2, d) = 0
      /\ \A d \in 0 .. 1 : StepOf(3, d) = 0
  BY StepFacts
<1>3. \A l, d : [s \in 0 .. Layout - 1 |-> Diagonal(l, d, (s - 0) % Layout)]
                 = [s \in 0 .. Layout - 1 |-> Diagonal(l, d, s)]
  BY <1>1
<1>4. \A d : /\ W1Row(d) = [s \in 0 .. Layout - 1 |-> Diagonal(1, d, s)]
             /\ W2Row(d) = [s \in 0 .. Layout - 1 |-> Diagonal(2, d, s)]
             /\ W3Row(d) = [s \in 0 .. Layout - 1 |-> Diagonal(3, d, s)]
  BY DEF W1Row, W2Row, W3Row, Diagonal
<1>5. \A d : /\ Fill(W1Row(d)) = PreRotated(1, d, 0)
             /\ Fill(W2Row(d)) = PreRotated(2, d, 0)
             /\ Fill(W3Row(d)) = PreRotated(3, d, 0)
  BY <1>3, <1>4 DEF PreRotated
<1> QED BY <1>2, <1>5

LEMMA TurnedFill ==
  ASSUME NEW l, NEW d
  PROVE  Fill(Turned(l, d)) = PreRotated(l, d, StepOf(l, d))
BY DEF Turned, PreRotated

LEMMA EncodedAsExpected == \A i \in 0 .. 204 : encoded[i] = Expected(i)
<1>1. SUFFICES ASSUME NEW i \in 0 .. 204 PROVE encoded[i] = Expected(i)
  OBVIOUS
<1>2. CASE i \in 0 .. 11
  <2>1. encoded[i] = Fill(W1Row(i))
    BY <1>2 DEF encoded, EncodeW1Plain
  <2> QED BY <1>2, <2>1, UnrotatedFill DEF Expected
<1>3. CASE i \in 12 .. 127
  <2>1. encoded[i] = Fill(rotW1[i])
    BY <1>3 DEF encoded, EncodeW1Rotated
  <2> QED BY <1>3, <2>1, RotW1, TurnedFill DEF Expected
<1>4. CASE i = 128
  <2>1. encoded[i] = Fill(B1Row)
    BY <1>4 DEF encoded, EncodeB1
  <2> QED BY <1>4, <2>1 DEF B1Row, BiasPlain, Expected
<1>5. CASE i \in 129 .. 136
  <2>1. encoded[i] = Const(Constants[i - 128])
    BY <1>5 DEF encoded, EncodeConstants
  <2> QED BY <1>5, <2>1 DEF Expected
<1>6. CASE i \in 137 .. 144
  <2>1. encoded[i] = Fill(W2Row(i - 137))
    BY <1>6 DEF encoded, EncodeW2Plain
  <2>2. i - 137 \in 0 .. 7
    BY <1>6
  <2> QED BY <1>6, <2>1, <2>2, UnrotatedFill DEF Expected
<1>7. CASE i \in 145 .. 200
  <2>1. encoded[i] = Fill(rotW2[i - 137])
    BY <1>7 DEF encoded, EncodeW2Rotated
  <2>2. i - 137 \in 8 .. 63
    BY <1>7
  <2> QED BY <1>7, <2>1, <2>2, RotW2, TurnedFill DEF Expected
<1>8. CASE i = 201
  <2>1. encoded[i] = Fill(B2Row)
    BY <1>8 DEF encoded, EncodeB2
  <2> QED BY <1>8, <2>1 DEF B2Row, BiasPlain, Expected
<1>9. CASE i \in 202 .. 203
  <2>1. encoded[i] = Fill(W3Row(i - 202))
    BY <1>9 DEF encoded, EncodeW3
  <2>2. i - 202 \in 0 .. 1
    BY <1>9
  <2> QED BY <1>9, <2>1, <2>2, UnrotatedFill DEF Expected
<1>10. CASE i = 204
  <2>1. encoded[i] = Fill(B3Row)
    BY <1>10 DEF encoded, EncodeB3
  <2> QED BY <1>10, <2>1 DEF B3Row, BiasPlain, Expected
<1> QED BY <1>2, <1>3, <1>4, <1>5, <1>6, <1>7, <1>8, <1>9, <1>10

-----------------------------------------------------------------------------
(* The way to the circuit *)

LEMMA AddedFacts == \A i \in 1 .. 5 : Added[i] \in 0 .. 204
BY DEF Added

LEMMA MultipliedFacts == \A i \in 1 .. 201 : Multiplied[i] \in 0 .. 204
BY DEF Multiplied

(* What was packed into vector b at place j is taken out under 14b + j - 10. *)
LEMMA OperandOrigin == \A i \in 0 .. 205 : operand[i] = Expected(Origin(i))
<1>1. SUFFICES ASSUME NEW i \in 0 .. 205 PROVE operand[i] = Expected(Origin(i))
  OBVIOUS
<1>2. CASE i < 5
  <2>1. operand[i] = arg0[i + 1] /\ i + 1 \in 1 .. 5
    BY <1>2 DEF operand
  <2>2. arg0[i + 1] = encoded[Added[i + 1]]
    BY <2>1 DEF arg0
  <2> QED BY <1>2, <2>1, <2>2, AddedFacts, EncodedAsExpected DEF Origin
<1>3. CASE i >= 5
  <2>1. PICK b \in 1 .. 15, j \in 1 .. 14 :
          /\ b = 1 + (i - 5) \div 14 /\ j = ((i - 5) % 14) + 1
          /\ 14 * (b - 1) + j = i - 4
          /\ b = 15 => j <= 5
    BY <1>3
  <2>2. operand[i] = arg(b)[j]
    BY <1>3, <2>1 DEF operand
  <2>3. j \in 1 .. (IF b = 15 THEN 5 ELSE 14)
    BY <2>1
  <2>4. arg(b)[j] = encoded[Multiplied[i - 4]]
    BY <2>1, <2>3 DEF arg
  <2>5. i - 4 \in 1 .. 201
    BY <1>3
  <2>6. Origin(i) = Multiplied[i - 4]
    BY <1>3 DEF Origin
  <2>7. Multiplied[i - 4] \in 0 .. 204
    BY <2>5, MultipliedFacts
  <2>8. encoded[Multiplied[i - 4]] = Expected(Multiplied[i - 4])
    BY <2>7, EncodedAsExpected
  <2> QED BY <2>2, <2>4, <2>6, <2>8
<1> QED BY <1>1, <1>2, <1>3

LEMMA OperandTyped == \A i \in 0 .. 205 : operand[i] \in Vector
<1>1. \A i \in 0 .. 205 : Origin(i) \in 0 .. 204
  <2> TAKE i \in 0 .. 205
  <2>1. i < 5 => i + 1 \in 1 .. 5
    OBVIOUS
  <2>2. i >= 5 => i - 4 \in 1 .. 201
    OBVIOUS
  <2> QED BY <2>1, <2>2, AddedFacts, MultipliedFacts DEF Origin
<1> QED BY <1>1, OperandOrigin, ExpectedTyped

(* Every plaintext is under the number by which the circuit asks for it:   *)
(* what it multiplies by and adds is the diagonal, turned for its giant    *)
(* step, the bias or the constant the product is defined by.               *)
THEOREM StoreServesCircuit ==
  /\ \A l \in 1 .. 3 : \A d \in 0 .. Shape[l].diagonals - 1 :
       WeightOperand(l, d) = PreRotated(l, d, StepOf(l, d))
  /\ \A l \in 1 .. 3 : BiasOperand(l) = BiasPlain(l)
  /\ operand[1] = Const(1) /\ operand[2] = Const(C_Bias)
  /\ \A i \in 1 .. 7 :
       operand[132 + i] = Const(<<Scale, C_Lin, 2, 1, C_T3, C_Lin2, C_T32>>[i])
<1>1. \A d \in 0 .. 127 : WeightOperand(1, d) = PreRotated(1, d, StepOf(1, d))
  <2> TAKE d \in 0 .. 127
  <2>1. Origin(5 + d) = d
    BY DEF Origin, Multiplied
  <2>2. WeightOperand(1, d) = operand[5 + d]
    BY DEF WeightOperand
  <2> QED BY OperandOrigin, <2>1, <2>2 DEF Expected
<1>2. \A d \in 0 .. 63 : WeightOperand(2, d) = PreRotated(2, d, StepOf(2, d))
  <2> TAKE d \in 0 .. 63
  <2>1. Origin(140 + d) = 137 + d
    BY DEF Origin, Multiplied
  <2>2. WeightOperand(2, d) = operand[140 + d]
    BY DEF WeightOperand
  <2>3. (137 + d) - 137 = d
    OBVIOUS
  <2> QED BY OperandOrigin, <2>1, <2>2, <2>3 DEF Expected
<1>3. \A d \in 0 .. 1 : WeightOperand(3, d) = PreRotated(3, d, StepOf(3, d))
  <2> TAKE d \in 0 .. 1
  <2>1. Origin(204 + d) = 202 + d
    BY DEF Origin, Multiplied
  <2>2. WeightOperand(3, d) = operand[204 + d]
    BY DEF WeightOperand
  <2>3. (202 + d) - 202 = d
    OBVIOUS
  <2> QED BY OperandOrigin, <2>1, <2>2, <2>3 DEF Expected
<1>4. \A l \in 1 .. 3 : \A d \in 0 .. Shape[l].diagonals - 1 :
        WeightOperand(l, d) = PreRotated(l, d, StepOf(l, d))
  <2>1. Shape[1].diagonals = 128 /\ Shape[2].diagonals = 64 /\ Shape[3].diagonals = 2
    BY DEF Shape
  <2>2. \A l \in 1 .. 3 : l = 1 \/ l = 2 \/ l = 3
    OBVIOUS
  <2> QED BY <1>1, <1>2, <1>3, <2>1, <2>2
<1>5. \A l \in 1 .. 3 : BiasOperand(l) = BiasPlain(l)
  <2>1. BiasOperand(1) = operand[0] /\ BiasOperand(2) = operand[3] /\ BiasOperand(3) = operand[4]
    BY DEF BiasOperand
  <2>2. Origin(0) = 128 /\ Origin(3) = 201 /\ Origin(4) = 204
    BY DEF Origin, Added
  <2>3. Expected(128) = BiasPlain(1) /\ Expected(201) = BiasPlain(2) /\ Expected(204) = BiasPlain(3)
    BY DEF Expected
  <2>4. \A l \in 1 .. 3 : l = 1 \/ l = 2 \/ l = 3
    OBVIOUS
  <2> QED BY OperandOrigin, <2>1, <2>2, <2>3, <2>4
<1>6. operand[1] = Const(1) /\ operand[2] = Const(C_Bias)
  <2>1. Origin(1) = 132 /\ Origin(2) = 136
    BY DEF Origin, Added
  <2>2. Expected(132) = Const(Constants[4]) /\ Expected(136) = Const(Constants[8])
    BY DEF Expected
  <2> QED BY OperandOrigin, <2>1, <2>2 DEF Constants
<1>7. \A i \in 1 .. 7 :
        operand[132 + i] = Const(<<Scale, C_Lin, 2, 1, C_T3, C_Lin2, C_T32>>[i])
  <2> TAKE i \in 1 .. 7
  <2>1. Origin(132 + i) = 128 + i
    BY DEF Origin, Multiplied
  <2>2. operand[132 + i] = Expected(128 + i)
    BY OperandOrigin, <2>1
  <2>3. Expected(128 + i) = Const(Constants[(128 + i) - 128])
    BY DEF Expected
  <2>4. (128 + i) - 128 = i
    OBVIOUS
  <2>5. Constants[i] = <<Scale, C_Lin, 2, 1, C_T3, C_Lin2, C_T32>>[i]
    BY DEF Constants
  <2> QED BY <2>2, <2>3, <2>4, <2>5
<1> QED BY <1>4, <1>5, <1>6, <1>7
=============================================================================
