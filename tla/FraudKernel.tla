---------------------------- MODULE FraudKernel ----------------------------
(***************************************************************************)
(* The inference circuit (src/fraud_model_lib.inc.cc): the transaction is  *)
(* packed and encrypted; each layer is a product by diagonals in baby and  *)
(* giant steps, folded where the matrix is wider than high; between layers *)
(* the activation; two logits are decrypted.                               *)
(*                                                                         *)
(* One action is one group of operations with a result the next group      *)
(* uses.  The order in which the terms of a sum are added is left out.     *)
(***************************************************************************)
EXTENDS PlaintextStore

CONSTANTS
  Features,                            \* feature vectors that may be scored
  None                                 \* a register not written yet

VARIABLES
  x,        \* the transaction
  layer,    \* 1, 2 or 3
  step,     \* what comes next in the layer
  k,        \* index of the diagonal or the fold that comes next
  ct,       \* input of the layer, and its result once it is complete
  baby,     \* rotations of the input by the baby steps
  part,     \* sum of the products of the giant step so far
  acc,      \* sum of the giant steps so far
  logits    \* what the client decrypts

vars == <<x, layer, step, k, ct, baby, part, acc, logits>>

ASSUME InputAssumption ==
  /\ Features \subseteq [0 .. N_IN - 1 -> Value]
  /\ None \notin Ciphertext

Babies == Shape[layer].babies
Diagonals == Shape[layer].diagonals
Folds == Shape[layer].folds

\* EvalRotateKeyGen
GeneratedKeys ==
  {64, 7, 40, 2, 9, 16, 4, 11, 120, 56, 108, 6, 96, 32, 84, 1, 8, 72, 60, 3,
   48, 10, 36, 24, 5, 12}

\* The parameters of the circuit: its levels, and a key for every rotation.
ASSUME ParametersAssumption ==
  /\ Depth = 15
  /\ GeneratedKeys \subseteq RotationKeys

-----------------------------------------------------------------------------
\* The circuit

\* The activation; in the names of the code these are ct280 to ct323 (layer 1)
\* and ct480 to ct523 (layer 2).  A product by 1 (pt136) only raises the scale.
ChebyRelu(z) ==
  LET Times(c, pt) == EvalMultPlain(c, operand[pt])
      Minus(c, pt) == EvalSubPlain(c, operand[pt])
      scaled == Times(z, 133)                                    \* ct280
      u == ModReduce(scaled)                                     \* ct281
      twiceU == Times(u, 135)                                    \* ct283
      t2 == Relinearize(Minus(
              EvalMultNoRelin(ModReduce(twiceU),
                              ModReduce(LevelReduce(scaled, 1))),
              1))                                                \* ct287
      t2Low == ModReduce(t2)                                     \* ct290
      t3 == ModReduce(EvalSub(
              Relinearize(EvalMultNoRelin(ModReduce(LevelReduce(twiceU, 1)), t2Low)),
              ModReduce(Times(LevelReduce(scaled, 2), 136))))    \* ct293, ct296
      t4 == Relinearize(Minus(
              EvalMultNoRelin(ModReduce(Times(t2Low, 135)),
                              ModReduce(LevelReduce(t2, 1))),
              1))                                                \* ct307, ct311
      mixed == EvalAdd(
              ModReduce(Times(LevelReduce(Times(u, 138), 2), 136)),
              Times(t3, 139))                                    \* ct304, ct302
      linear == EvalAddPlain(Times(u, 134), operand[2])          \* ct282
      high == EvalAdd(
              ModReduce(Times(Times(t3, 137), 136)),
              Relinearize(EvalMultNoRelin(ModReduce(mixed), ModReduce(t4))))
                                                                 \* ct319, ct316
  IN  EvalAdd(ModReduce(Times(LevelReduce(linear, 3), 136)), high)  \* ct323

\* The later layers take the activation's result before its last rescale.
Lowered(c) == IF layer = 1 THEN c ELSE ModReduce(c)

Init ==
  /\ x \in Features
  /\ layer = 1
  /\ step = "encrypt"
  /\ k = 0
  /\ ct = None
  /\ baby = << >>
  /\ part = None
  /\ acc = None
  /\ logits = << >>

Encrypt ==
  /\ step = "encrypt"
  /\ ct' = Encrypted(PackedInput(x))
  /\ step' = "baby"
  /\ UNCHANGED <<x, layer, k, baby, part, acc, logits>>

\* The loop runs in parallel; its iterations write different elements.
BabySteps ==
  /\ step = "baby"
  /\ baby' = [r \in 0 .. Babies - 1 |->
                Lowered(IF r = 0 THEN ct ELSE EvalRotate(ct, r))]
  /\ k' = 0
  /\ step' = "multiply"
  /\ UNCHANGED <<x, layer, ct, part, acc, logits>>

\* A giant step multiplies as many diagonals as there are baby steps, the last
\* one in layer 1 only 8.
Multiply ==
  /\ step = "multiply"
  /\ LET r == k % Babies
         term == EvalMultPlain(baby[r], WeightOperand(layer, k))
     IN  part' = IF r = 0 THEN term ELSE EvalAdd(part, term)
  /\ k' = k + 1
  /\ step' = IF k' % Babies = 0 \/ k' = Diagonals THEN "giant" ELSE step
  /\ UNCHANGED <<x, layer, ct, baby, acc, logits>>

GiantStep ==
  /\ step = "giant"
  /\ LET by == ((k - 1) \div Babies) * Babies
     IN  acc' = IF by = 0 THEN part ELSE EvalAdd(acc, EvalRotate(part, by))
  /\ IF k < Diagonals THEN step' = "multiply" /\ k' = k
                      ELSE step' = "fold" /\ k' = 1
  /\ UNCHANGED <<x, layer, ct, baby, part, logits>>

\* The bias is added after the last rotation and before the last addition.
Fold ==
  /\ step = "fold"
  /\ k <= Len(Folds)
  /\ acc' = EvalAdd(IF k = Len(Folds) THEN EvalAddPlain(acc, BiasOperand(layer)) ELSE acc,
                    EvalRotate(acc, Folds[k]))
  /\ k' = k + 1
  /\ UNCHANGED <<x, layer, step, ct, baby, part, logits>>

\* Mutant: the result of the last layer is not rescaled.
EndWithoutRescale ==
  /\ step = "fold"
  /\ k > Len(Folds)
  /\ ct' = IF layer = 1 THEN ModReduce(EvalAddPlain(acc, BiasOperand(layer)))
           ELSE IF layer = 2 THEN ModReduce(acc) ELSE acc
  /\ step' = IF layer = 3 THEN "decrypt" ELSE "activate"
  /\ UNCHANGED <<x, layer, k, baby, part, acc, logits>>

EndLayer ==
  /\ step = "fold"
  /\ k > Len(Folds)
  /\ ct' = ModReduce(IF Folds = << >> THEN EvalAddPlain(acc, BiasOperand(layer)) ELSE acc)
  /\ step' = IF layer = 3 THEN "decrypt" ELSE "activate"
  /\ UNCHANGED <<x, layer, k, baby, part, acc, logits>>

Activate ==
  /\ step = "activate"
  /\ ct' = ChebyRelu(ct)
  /\ layer' = layer + 1
  /\ step' = "baby"
  /\ UNCHANGED <<x, k, baby, part, acc, logits>>

\* Mutant: no modulo in the client's loop.
DecryptAll ==
  /\ step = "decrypt"
  /\ logits' = [i \in 0 .. Layout - 1 |-> ct.slots[i] \otimes DeltaInv]
  /\ step' = "done"
  /\ UNCHANGED <<x, layer, k, ct, baby, part, acc>>

\* The client sets the scale to one Delta and keeps the last slot of each parity.
DecryptResult ==
  /\ step = "decrypt"
  /\ logits' = [i \in 0 .. N_OUT - 1 |->
                  ct.slots[Layout - N_OUT + i] \otimes DeltaInv]
  /\ step' = "done"
  /\ UNCHANGED <<x, layer, k, ct, baby, part, acc>>

Done == step = "done" /\ UNCHANGED vars

Next ==
  \/ Encrypt \/ BabySteps \/ Multiply \/ GiantStep \/ Fold \/ EndLayer \/ Activate
  \/ DecryptResult \/ Done

Spec == Init /\ [][Next]_vars

-----------------------------------------------------------------------------
\* Properties

Registers == {ct, part, acc} \ {None}

\* Every register holds a ciphertext and every counter is in the range of the
\* layer's steps; the client gets two logits.
TypeOK ==
  /\ x \in Features
  /\ layer \in 1 .. 3
  /\ step \in {"encrypt", "baby", "multiply", "giant", "fold", "activate", "decrypt", "done"}
  /\ k \in 0 .. 128
  /\ Registers \subseteq Ciphertext
  /\ step \in {"multiply", "giant"} => baby \in [0 .. Babies - 1 -> Ciphertext]
  /\ logits \in [0 .. N_OUT - 1 -> Value] \union {<< >>}

\* FIXEDMANUAL leaves scales and moduli to the kernel: it never adds operands
\* of different scale or modulus, never multiplies or rescales beyond the
\* modulus that is left, never rotates by an amount without a key or a
\* product that was not relinearised.
NoIllegalStep == \A c \in Registers : c.legal

\* The client resets the scale of the result to one Delta (fraud_client_decrypt
\* line 54), so the circuit must end there; and it spends exactly the 15 levels
\* the parameters provide.
ReadyToDecrypt ==
  step = "decrypt" => ct.degree = 1 /\ ct.level = Depth /\ ct.parts = 2

\* Rows of the vector the kernel holds between the layers.
Width ==
  CASE step = "activate" -> Shape[layer].diagonals
    [] step \in {"decrypt", "done"} -> N_OUT
    [] OTHER -> IF layer = 3 THEN N_H2 ELSE N_H1

\* The diagonal method reads beyond the end of the vector: between layers the
\* vector must be repeated through all slots of the ciphertext, not only those
\* of a layout.
EverySlotFilled ==
  ct # None => \A s \in Slot : ct.slots[s] = ct.slots[s % Width]

\* The plaintext under the number the circuit uses next is the one it means: the
\* diagonal of the layer, rotated right by its giant step, the bias, or the
\* constants of the activation.  Through the blocks of rotations, the encoding,
\* the sixteen vectors and the unpacking no index slipped.
OperandsInPlace ==
  /\ step = "multiply" => WeightOperand(layer, k) = PreRotated(layer, k, k - (k % Babies))
  /\ step = "fold" => BiasOperand(layer) = BiasPlain(layer)
  /\ step = "activate" =>
       /\ operand[1] = Const(1)
       /\ operand[2] = Const(C_Bias)
       /\ \A i \in 1 .. 7 :
            operand[132 + i] = Const(<<Scale, C_Lin, 2, 1, C_T3, C_Lin2, C_T32>>[i])

\* What the kernel holds, as a stage of the network in the clear.
clearStage ==
  CASE step = "activate" -> (IF layer = 1 THEN "z1" ELSE "z2")
    [] step \in {"decrypt", "done"} -> "logits"
    [] OTHER -> <<"x", "h1", "h2">>[layer]

clearWidth == IF clearStage = "x" THEN N_IN ELSE Width

clearVec ==
  CASE step = "encrypt" -> x
    [] step = "done" -> logits
    [] OTHER -> [i \in 0 .. clearWidth - 1 |-> Decoded(ct)[i]]

Clear == INSTANCE CleartextModel WITH stage <- clearStage, vec <- clearVec

\* Layer by layer the encrypted computation gives what the reference in the
\* clear gives, from the same weights and constants.
ImplementsCleartext == Clear!Spec

\* "The degree-5 polynomial is evaluated on ciphertexts" (docs/DESIGN.md:70):
\* where seven neurons have pre-activations at equal distances, the sixth
\* difference of the activations is 0.  The product of T3 and T4 has degree 7.
ActivationHasDegreeFive ==
  layer = 2 /\ step = "baby" =>
    LET z == Clear!Matvec(N_H1, N_IN, W1, b1, x)
        h == Decoded(ct)
    IN  \A i \in 0 .. N_H1 - 7 :
          (\A j \in i .. i + 5 : z[j + 1] \ominus z[j] = z[i + 1] \ominus z[i])
            => (h[i] - 6 * h[i + 1] + 15 * h[i + 2] - 20 * h[i + 3]
                  + 15 * h[i + 4] - 6 * h[i + 5] + h[i + 6]) % P = 0
=============================================================================
