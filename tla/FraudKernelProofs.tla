------------------------- MODULE FraudKernelProofs -------------------------
(***************************************************************************)
(* What FraudKernel guarantees for all weights and transactions, and for   *)
(* every modulus, scaling factor and number of slots.  KernelInv says at   *)
(* which level and scale every register is, which makes each operation     *)
(* legal; ValueInv says which partial sum it holds in each slot, which     *)
(* makes the circuit a refinement of CleartextModel.  Between the two      *)
(* stands what the mathematics needs: sums by induction over their terms,  *)
(* positions of values in a row, rows of the matrices as sums of diagonals *)
(* that folds complete.                                                    *)
(***************************************************************************)
EXTENDS FraudKernel, PlaintextStoreProofs, WellFoundedInduction, TLAPS

-----------------------------------------------------------------------------
LEMMA PackedTyped ==
  ASSUME NEW v \in Features
  PROVE  PackedInput(v) \in Vector
<1>1. \A s \in 0 .. Layout - 1 : IsFeature(s) => s % 128 \in 0 .. N_IN - 1
  BY DEF IsFeature, N_IN
<1>2. v \in [0 .. N_IN - 1 -> Value] /\ 0 \in Value
  BY InputAssumption, EvaluatorAssumption DEF Value
<1>3. \A s \in 0 .. Layout - 1 : (IF IsFeature(s) THEN v[s % 128] ELSE 0) \in Value
  BY <1>1, <1>2
<1> QED BY <1>3, FillTyped DEF PackedInput

-----------------------------------------------------------------------------
(* The activation *)

LEMMA ConstSlot ==
  ASSUME NEW v, NEW s \in Slot
  PROVE  Const(v)[s] = v
BY KernelAssumption, EvaluatorAssumption DEF Const, Fill, Slot

(* What the activation's constants are at any slot.                        *)
LEMMA ConstantAt ==
  ASSUME NEW s \in Slot
  PROVE  /\ operand[1][s] = 1 /\ operand[2][s] = C_Bias
         /\ operand[133][s] = Scale /\ operand[134][s] = C_Lin
         /\ operand[135][s] = 2 /\ operand[136][s] = 1
         /\ operand[137][s] = C_T3 /\ operand[138][s] = C_Lin2
         /\ operand[139][s] = C_T32
<1>1. /\ operand[1] = Const(1) /\ operand[2] = Const(C_Bias)
      /\ \A i \in 1 .. 7 :
           operand[132 + i] = Const(<<Scale, C_Lin, 2, 1, C_T3, C_Lin2, C_T32>>[i])
  BY StoreServesCircuit
<1>2. /\ operand[133] = Const(Scale) /\ operand[134] = Const(C_Lin)
      /\ operand[135] = Const(2) /\ operand[136] = Const(1)
      /\ operand[137] = Const(C_T3) /\ operand[138] = Const(C_Lin2)
      /\ operand[139] = Const(C_T32)
  BY <1>1
<1> QED BY <1>1, <1>2, ConstSlot

(* T3 by the recurrence of the circuit and by the formula of the reference. *)
LEMMA ThirdChebyshev ==
  ASSUME NEW u \in Int
  PROVE  ((u \otimes 2) \otimes (((u \otimes 2) \otimes u) \ominus 1)) \ominus (u \otimes 1)
           = (4 \otimes (u \otimes (u \otimes u))) \ominus (3 \otimes u)
<1> DEFINE t == (u * 2) * u - 1
<1>1. /\ u * 2 \in Int /\ (u * 2) * u \in Int /\ t \in Int /\ (u * 2) * t \in Int
      /\ u * u \in Int /\ u * (u * u) \in Int /\ 4 * (u * (u * u)) \in Int
      /\ 3 * u \in Int /\ u * 1 = u
  OBVIOUS
<1>2. (u \otimes 2) \otimes u = ((u * 2) * u) % P
  BY <1>1, ModOperand DEF \otimes
<1>3. ((u \otimes 2) \otimes u) \ominus 1 = t % P
  BY <1>1, <1>2, ModOperand DEF \ominus
<1>4. (u \otimes 2) \otimes (((u \otimes 2) \otimes u) \ominus 1) = ((u * 2) * t) % P
  <2>1. (u \otimes 2) \otimes (t % P) = (((u * 2) % P) * (t % P)) % P
    BY DEF \otimes
  <2>2. @ = ((u * 2) * (t % P)) % P
    <3>1. t % P \in Int
      BY <1>1, Modulus
    <3> QED BY <1>1, <3>1, ModOperand
  <2>3. @ = ((u * 2) * t) % P
    BY <1>1, ModOperand
  <2> QED BY <1>3, <2>1, <2>2, <2>3
<1>5. ((u \otimes 2) \otimes (((u \otimes 2) \otimes u) \ominus 1)) \ominus (u \otimes 1)
        = ((u * 2) * t - u) % P
  <2>1. u \otimes 1 = u % P
    BY <1>1 DEF \otimes
  <2>2. (((u * 2) * t) % P) \ominus (u % P) = ((((u * 2) * t) % P) - (u % P)) % P
    BY DEF \ominus
  <2>3. @ = ((((u * 2) * t) % P) - u) % P
    <3>1. ((u * 2) * t) % P \in Int
      BY <1>1, Modulus
    <3> QED BY <3>1, ModOperand
  <2>4. @ = ((u * 2) * t - u) % P
    BY <1>1, ModOperand
  <2> QED BY <1>4, <2>1, <2>2, <2>3, <2>4
<1>6. (4 \otimes (u \otimes (u \otimes u))) \ominus (3 \otimes u)
        = (4 * (u * (u * u)) - 3 * u) % P
  <2>1. u \otimes (u \otimes u) = (u * (u * u)) % P
    BY <1>1, ModOperand DEF \otimes
  <2>2. 4 \otimes (u \otimes (u \otimes u)) = (4 * (u * (u * u))) % P
    BY <1>1, <2>1, ModOperand DEF \otimes
  <2>3. ((4 * (u * (u * u))) % P) \ominus (3 \otimes u)
          = (((4 * (u * (u * u))) % P) - ((3 * u) % P)) % P
    BY DEF \otimes, \ominus
  <2>4. @ = (((4 * (u * (u * u))) % P) - 3 * u) % P
    <3>1. (4 * (u * (u * u))) % P \in Int
      BY <1>1, Modulus
    <3> QED BY <1>1, <3>1, ModOperand
  <2>5. @ = (4 * (u * (u * u)) - 3 * u) % P
    BY <1>1, ModOperand
  <2> QED BY <2>2, <2>3, <2>4, <2>5
<1>7. (u * 2) * t - u = 4 * (u * (u * u)) - 3 * u
  OBVIOUS
<1> QED BY <1>5, <1>6, <1>7

(* The activation as the circuit computes it is that of the reference.      *)
LEMMA ReluValue ==
  ASSUME NEW a \in Int
  PROVE  LET u == a \otimes Scale
             t2 == ((u \otimes 2) \otimes u) \ominus 1
             t3 == ((u \otimes 2) \otimes t2) \ominus (u \otimes 1)
             t4 == ((t2 \otimes 2) \otimes t2) \ominus 1
             mixed == ((u \otimes C_Lin2) \otimes 1) \oplus (t3 \otimes C_T32)
             linear == (u \otimes C_Lin) \oplus C_Bias
             high == ((t3 \otimes C_T3) \otimes 1) \oplus (mixed \otimes t4)
         IN  (linear \otimes 1) \oplus high = Clear!cheby_relu(a)
<1> DEFINE u == a \otimes Scale
           t2 == ((u \otimes 2) \otimes u) \ominus 1
           t3 == ((u \otimes 2) \otimes t2) \ominus (u \otimes 1)
           t4 == ((t2 \otimes 2) \otimes t2) \ominus 1
           mixed == ((u \otimes C_Lin2) \otimes 1) \oplus (t3 \otimes C_T32)
           linear == (u \otimes C_Lin) \oplus C_Bias
           high == ((t3 \otimes C_T3) \otimes 1) \oplus (mixed \otimes t4)
           c2 == (2 \otimes (u \otimes u)) \ominus 1
           c3 == (4 \otimes (u \otimes (u \otimes u))) \ominus (3 \otimes u)
           c4 == (2 \otimes (c2 \otimes c2)) \ominus 1
           cmixed == (C_Lin2 \otimes u) \oplus (C_T32 \otimes c3)
<1>1. /\ C_Lin \in Int /\ C_T3 \in Int /\ C_Lin2 \in Int /\ C_T32 \in Int
      /\ C_Bias \in Int /\ Scale \in Int
  BY KernelAssumption DEF Value
<1>2. Clear!cheby_relu(a) =
        ((C_Bias \oplus (C_Lin \otimes u)) \oplus (C_T3 \otimes c3)) \oplus (cmixed \otimes c4)
  <2>1. Scale \otimes a = u
    BY <1>1, Ring
  <2> QED BY <2>1 DEF Clear!cheby_relu, Clear!\oplus, \oplus, Clear!\ominus, \ominus,
                      Clear!\otimes, \otimes
<1>3. u \in Int
  BY <1>1, IntClosed
<1> HIDE DEF u
<1>4. t3 = c3 /\ t3 \in Int
  <2>1. u \otimes 2 \in Int /\ u \otimes 1 \in Int
    <3>1. 1 \in Int /\ 2 \in Int
      OBVIOUS
    <3> QED BY <1>3, <3>1, IntClosed
  <2>2. (u \otimes 2) \otimes u \in Int
    BY <1>3, <2>1, IntClosed
  <2>3. t2 \in Int
    BY <2>2, IntClosed
  <2>4. (u \otimes 2) \otimes t2 \in Int
    BY <2>1, <2>3, IntClosed
  <2>5. t3 \in Int
    BY <2>1, <2>4, IntClosed
  <2> QED BY <1>3, <2>5, ThirdChebyshev
<1>5. t2 = c2 /\ t2 \in Int
  <2>1. (u \otimes 2) \otimes u = 2 \otimes (u \otimes u)
    BY <1>3, Ring
  <2>2. u \otimes u \in Int
    BY <1>3, IntClosed
  <2>3. 2 \otimes (u \otimes u) \in Int
    BY <2>2, IntClosed
  <2> QED BY <2>1, <2>3, IntClosed
<1> HIDE DEF t2, t3, c2, c3
<1>6. t4 = c4 /\ t4 \in Int
  <2>1. (t2 \otimes 2) \otimes t2 = 2 \otimes (t2 \otimes t2)
    BY <1>5, Ring
  <2>2. t2 \otimes t2 \in Int
    BY <1>5, IntClosed
  <2>3. 2 \otimes (t2 \otimes t2) \in Int
    BY <2>2, IntClosed
  <2> QED BY <1>5, <2>1, <2>3, IntClosed
<1> HIDE DEF t4, c4
<1>7. /\ u \otimes C_Lin2 \in Value /\ t3 \otimes C_T32 \in Int
      /\ u \otimes C_Lin \in Int /\ t3 \otimes C_T3 \in Value
  BY <1>1, <1>3, <1>4, IntClosed, ValueClosed
<1>8. mixed = cmixed /\ mixed \in Int
  <2>1. (u \otimes C_Lin2) \otimes 1 = C_Lin2 \otimes u
    BY <1>1, <1>3, <1>7, Unit, Ring
  <2>2. t3 \otimes C_T32 = C_T32 \otimes c3
    BY <1>1, <1>4, Ring
  <2>3. C_Lin2 \otimes u \in Int
    BY <1>1, <1>3, IntClosed
  <2> QED BY <1>7, <2>1, <2>2, <2>3, IntClosed
<1> HIDE DEF mixed, cmixed
<1>9. linear = C_Bias \oplus (C_Lin \otimes u) /\ linear \in Value /\ linear \in Int
  <2>1. u \otimes C_Lin = C_Lin \otimes u
    BY <1>1, <1>3, Ring
  <2>2. (u \otimes C_Lin) \oplus C_Bias = C_Bias \oplus (u \otimes C_Lin)
    BY <1>1, <1>7, Ring
  <2>3. linear \in Value
    BY <1>1, <1>7, ValueClosed
  <2> QED BY <2>1, <2>2, <2>3 DEF Value
<1>10. high = (C_T3 \otimes c3) \oplus (cmixed \otimes c4)
  BY <1>1, <1>4, <1>6, <1>7, <1>8, Unit, Ring
<1> HIDE DEF linear
<1>11. (linear \oplus (C_T3 \otimes c3)) \oplus (cmixed \otimes c4) = linear \oplus high
  <2>1. C_T3 \otimes c3 \in Int /\ cmixed \otimes c4 \in Int
    BY <1>1, <1>4, <1>6, <1>8, IntClosed
  <2> QED BY <1>9, <1>10, <2>1, Ring
<1>12. (linear \otimes 1) \oplus high = Clear!cheby_relu(a)
  BY <1>2, <1>9, <1>11, Unit
<1> QED BY <1>12 DEF high, linear, mixed, t4, t3, t2, u

(* A sound ciphertext that stands for w at slot s.                         *)
Means(c, s, l, d, p, w) == Sound(c, l, d, p) /\ Val(c, s) = w

(* The activation leaves a ciphertext five levels lower and with one more   *)
(* factor of the scale, if six levels are left; it stands, slot by slot,    *)
(* for the activation of the reference.                                    *)
LEMMA ReluSound ==
  ASSUME NEW l \in Nat, l + 6 <= Depth, NEW z, Sound(z, l, 1, 2), NEW s \in Slot
  PROVE  Means(ChebyRelu(z), s, l + 5, 2, 2, Clear!cheby_relu(Val(z, s)))
<1> DEFINE Times(c, pt) == EvalMultPlain(c, operand[pt])
           Minus(c, pt) == EvalSubPlain(c, operand[pt])
           scaled == Times(z, 133)
           u == ModReduce(scaled)
           twiceU == Times(u, 135)
           t2 == Relinearize(Minus(
                   EvalMultNoRelin(ModReduce(twiceU),
                                   ModReduce(LevelReduce(scaled, 1))),
                   1))
           t2Low == ModReduce(t2)
           t3 == ModReduce(EvalSub(
                   Relinearize(EvalMultNoRelin(ModReduce(LevelReduce(twiceU, 1)), t2Low)),
                   ModReduce(Times(LevelReduce(scaled, 2), 136))))
           t4 == Relinearize(Minus(
                   EvalMultNoRelin(ModReduce(Times(t2Low, 135)),
                                   ModReduce(LevelReduce(t2, 1))),
                   1))
           mixed == EvalAdd(
                   ModReduce(Times(LevelReduce(Times(u, 138), 2), 136)),
                   Times(t3, 139))
           linear == EvalAddPlain(Times(u, 134), operand[2])
           high == EvalAdd(
                   ModReduce(Times(Times(t3, 137), 136)),
                   Relinearize(EvalMultNoRelin(ModReduce(mixed), ModReduce(t4))))
           v1 == Val(z, s) \otimes Scale
           v2 == ((v1 \otimes 2) \otimes v1) \ominus 1
           v3 == ((v1 \otimes 2) \otimes v2) \ominus (v1 \otimes 1)
           v4 == ((v2 \otimes 2) \otimes v2) \ominus 1
           vmixed == ((v1 \otimes C_Lin2) \otimes 1) \oplus (v3 \otimes C_T32)
           vlinear == (v1 \otimes C_Lin) \oplus C_Bias
           vhigh == ((v3 \otimes C_T3) \otimes 1) \oplus (vmixed \otimes v4)
<1>0. Depth \in Nat
  BY EvaluatorAssumption
(* The library's operations as this circuit uses them. *)
<1>1. \A i \in 0 .. 5, d, e \in 1 .. 3 : \A c, w :
        Means(c, s, l + i, d, 2, w) /\ i + d <= 6 /\ e = d + 1 =>
          \A pt \in 0 .. 205 : Means(Times(c, pt), s, l + i, e, 2, w \otimes operand[pt][s])
  <2> SUFFICES ASSUME NEW i \in 0 .. 5, NEW d \in 1 .. 3, NEW c, NEW w,
                      Means(c, s, l + i, d, 2, w), i + d <= 6, NEW pt \in 0 .. 205
               PROVE  Means(Times(c, pt), s, l + i, d + 1, 2, w \otimes operand[pt][s])
    OBVIOUS
  <2>1. Fits(l + i, d + 1) /\ Sound(c, l + i, d, 2) /\ Val(c, s) = w
    BY <1>0 DEF Fits, Means
  <2>2. operand[pt] \in Vector
    BY OperandTyped
  <2>3. Sound(Times(c, pt), l + i, d + 1, 2)
    BY <2>1, <2>2, MultPlainSound
  <2>4. Val(Times(c, pt), s) = w \otimes operand[pt][s]
    BY <2>1, <2>2, MultPlainVal
  <2> QED BY <2>3, <2>4 DEF Means
<1>2. \A i, j \in 0 .. 5, d, e \in 1 .. 3 : \A c, w :
        Means(c, s, l + i, d, 2, w) /\ d = e + 1 /\ j = i + 1 =>
          Means(ModReduce(c), s, l + j, e, 2, w)
  <2> SUFFICES ASSUME NEW i \in 0 .. 5, NEW j \in 0 .. 5, NEW d \in 1 .. 3, NEW e \in 1 .. 3,
                      NEW c, NEW w, Means(c, s, l + i, d, 2, w), d = e + 1, j = i + 1
               PROVE  Means(ModReduce(c), s, l + j, e, 2, w)
    OBVIOUS
  <2>1. (l + i) + 1 = l + j /\ d - 1 = e /\ l + i \in Nat /\ l + i < Depth /\ d > 1
    BY <1>0
  <2>2. Sound(c, l + i, e + 1, 2) /\ Val(c, s) = w
    BY DEF Means
  <2>3. Sound(ModReduce(c), (l + i) + 1, d - 1, 2)
    BY <2>1, <2>2, ModReduceSound
  <2>4. Val(ModReduce(c), s) = w
    BY <2>2, ModReduceVal
  <2> QED BY <2>1, <2>3, <2>4 DEF Means
<1>3. \A i, n, j \in 0 .. 5 : \A c, w : Means(c, s, l + i, 2, 2, w) /\ i + n <= 4 /\ j = i + n =>
        Means(LevelReduce(c, n), s, l + j, 2, 2, w)
  <2> SUFFICES ASSUME NEW i \in 0 .. 5, NEW n \in 0 .. 5, i + n <= 4, NEW c, NEW w,
                      Means(c, s, l + i, 2, 2, w)
               PROVE  Means(LevelReduce(c, n), s, l + (i + n), 2, 2, w)
    OBVIOUS
  <2>1. (l + i) + n = l + (i + n) /\ l + i \in Nat /\ n \in Nat
    OBVIOUS
  <2>2. Fits((l + i) + n, 2)
    BY <1>0, <2>1 DEF Fits
  <2>3. Sound(c, l + i, 2, 2) /\ Val(c, s) = w /\ c \in Ciphertext
    BY DEF Means, Sound
  <2>4. Sound(LevelReduce(c, n), l + (i + n), 2, 2)
    BY <2>1, <2>2, <2>3, LevelReduceSound
  <2> QED BY <2>3, <2>4, LevelReduceVal DEF Means
<1>4. \A i \in 0 .. 5 : \A c, e, w, y :
        Means(c, s, l + i, 1, 2, w) /\ Means(e, s, l + i, 1, 2, y) =>
          /\ Sound(EvalMultNoRelin(c, e), l + i, 2, 3)
          /\ Means(Relinearize(EvalMultNoRelin(c, e)), s, l + i, 2, 2, w \otimes y)
          /\ Means(Relinearize(Minus(EvalMultNoRelin(c, e), 1)), s, l + i, 2, 2,
                   (w \otimes y) \ominus 1)
  <2> SUFFICES ASSUME NEW i \in 0 .. 5, NEW c, NEW e, NEW w, NEW y,
                      Means(c, s, l + i, 1, 2, w), Means(e, s, l + i, 1, 2, y)
               PROVE  /\ Sound(EvalMultNoRelin(c, e), l + i, 2, 3)
                      /\ Means(Relinearize(EvalMultNoRelin(c, e)), s, l + i, 2, 2, w \otimes y)
                      /\ Means(Relinearize(Minus(EvalMultNoRelin(c, e), 1)), s, l + i, 2, 2,
                               (w \otimes y) \ominus 1)
    OBVIOUS
  <2> DEFINE prod == EvalMultNoRelin(c, e)
  <2>1. Fits(l + i, 2)
    BY <1>0 DEF Fits
  <2>2. Sound(prod, l + i, 2, 3)
    BY <2>1, MultSound DEF Means
  <2>3. Val(Relinearize(prod), s) = w \otimes y
    BY MultVal DEF Means
  <2>4. operand[1] \in Vector /\ operand[1][s] = 1 /\ 2 \in 1 .. 4
    BY OperandTyped, ConstantAt
  <2> HIDE DEF prod
  <2>5. Val(Relinearize(prod), s) = Val(prod, s)
    BY <2>2 DEF Val, Relinearize, Sound, Ciphertext
  <2>6. Sound(Minus(prod, 1), l + i, 2, 3) /\ Val(Minus(prod, 1), s) = Val(prod, s) \ominus 1
    BY <2>2, <2>4, AddPlainSound, AddPlainVal
  <2> HIDE DEF Minus
  <2>7. Val(Relinearize(Minus(prod, 1)), s) = Val(Minus(prod, 1), s)
    BY <2>6 DEF Val, Relinearize, Sound, Ciphertext
  <2> QED BY <2>2, <2>3, <2>5, <2>6, <2>7, RelinearizeSound DEF Means, prod
<1>5. \A i \in 0 .. 5 : \A c, w : Means(c, s, l + i, 2, 2, w) =>
        Means(EvalAddPlain(c, operand[2]), s, l + i, 2, 2, w \oplus C_Bias)
  <2>1. operand[2] \in Vector /\ operand[2][s] = C_Bias /\ 2 \in 1 .. 4
    BY OperandTyped, ConstantAt
  <2> QED BY <2>1, AddPlainSound, AddPlainVal DEF Means
<1>7. \A i \in 0 .. 5 : \A c, e, w, y :
        Means(c, s, l + i, 2, 2, w) /\ Means(e, s, l + i, 2, 2, y) =>
          /\ Means(EvalAdd(c, e), s, l + i, 2, 2, w \oplus y)
          /\ Means(EvalSub(c, e), s, l + i, 2, 2, w \ominus y)
  <2> SUFFICES ASSUME NEW i \in 0 .. 5, NEW c, NEW e, NEW w, NEW y,
                      Means(c, s, l + i, 2, 2, w), Means(e, s, l + i, 2, 2, y)
               PROVE  /\ Means(EvalAdd(c, e), s, l + i, 2, 2, w \oplus y)
                      /\ Means(EvalSub(c, e), s, l + i, 2, 2, w \ominus y)
    OBVIOUS
  <2>1. 2 \in 1 .. 4
    OBVIOUS
  <2>2. Sound(c, l + i, 2, 2) /\ Val(c, s) = w /\ Sound(e, l + i, 2, 2) /\ Val(e, s) = y
    BY DEF Means
  <2>3. Sound(EvalAdd(c, e), l + i, 2, 2) /\ Sound(EvalSub(c, e), l + i, 2, 2)
    BY <2>2, AddSound
  <2>4. Val(EvalAdd(c, e), s) = w \oplus y /\ Val(EvalSub(c, e), s) = w \ominus y
    BY <2>1, <2>2, AddVal
  <2> QED BY <2>3, <2>4 DEF Means
<1>6. /\ operand[133][s] = Scale /\ operand[134][s] = C_Lin
      /\ operand[135][s] = 2 /\ operand[136][s] = 1
      /\ operand[137][s] = C_T3 /\ operand[138][s] = C_Lin2
      /\ operand[139][s] = C_T32
  BY ConstantAt
<1> HIDE DEF Times, Minus, v1, v2, v3, v4, vmixed, vlinear, vhigh
<1>10. Means(z, s, l + 0, 1, 2, Val(z, s))
  BY DEF Means
<1>11. Means(scaled, s, l + 0, 2, 2, v1)
  BY <1>1, <1>6, <1>10 DEF v1
<1> HIDE DEF scaled
<1>12. Means(u, s, l + 1, 1, 2, v1)
  BY <1>2, <1>11
<1> HIDE DEF u
<1>13. Means(twiceU, s, l + 1, 2, 2, v1 \otimes 2)
  BY <1>1, <1>6, <1>12
<1> HIDE DEF twiceU
<1>14. Means(t2, s, l + 2, 2, 2, v2)
  <2>1. Means(ModReduce(twiceU), s, l + 2, 1, 2, v1 \otimes 2)
    BY <1>2, <1>13
  <2>2. Means(LevelReduce(scaled, 1), s, l + 1, 2, 2, v1)
    BY <1>3, <1>11
  <2>3. Means(ModReduce(LevelReduce(scaled, 1)), s, l + 2, 1, 2, v1)
    BY <1>2, <2>2
  <2> QED BY <1>4, <2>1, <2>3 DEF v2
<1> HIDE DEF t2
<1>15. Means(t2Low, s, l + 3, 1, 2, v2)
  BY <1>2, <1>14
<1> HIDE DEF t2Low
<1>16. Means(t3, s, l + 4, 1, 2, v3)
  <2>1. Means(LevelReduce(twiceU, 1), s, l + 2, 2, 2, v1 \otimes 2)
    BY <1>3, <1>13
  <2>2. Means(ModReduce(LevelReduce(twiceU, 1)), s, l + 3, 1, 2, v1 \otimes 2)
    BY <1>2, <2>1
  <2>3. Means(Relinearize(EvalMultNoRelin(ModReduce(LevelReduce(twiceU, 1)), t2Low)),
              s, l + 3, 2, 2, (v1 \otimes 2) \otimes v2)
    BY <1>4, <1>15, <2>2
  <2>4. Means(LevelReduce(scaled, 2), s, l + 2, 2, 2, v1)
    BY <1>3, <1>11
  <2>5. Means(Times(LevelReduce(scaled, 2), 136), s, l + 2, 3, 2, v1 \otimes 1)
    BY <1>1, <1>6, <2>4
  <2>6. Means(ModReduce(Times(LevelReduce(scaled, 2), 136)), s, l + 3, 2, 2, v1 \otimes 1)
    BY <1>2, <2>5
  <2>7. Means(EvalSub(
                Relinearize(EvalMultNoRelin(ModReduce(LevelReduce(twiceU, 1)), t2Low)),
                ModReduce(Times(LevelReduce(scaled, 2), 136))), s, l + 3, 2, 2, v3)
    BY <1>7, <2>3, <2>6 DEF v3
  <2> QED BY <1>2, <2>7
<1> HIDE DEF t3
<1>17. Means(t4, s, l + 4, 2, 2, v4)
  <2>1. Means(Times(t2Low, 135), s, l + 3, 2, 2, v2 \otimes 2)
    BY <1>1, <1>6, <1>15
  <2>2. Means(ModReduce(Times(t2Low, 135)), s, l + 4, 1, 2, v2 \otimes 2)
    BY <1>2, <2>1
  <2>3. Means(LevelReduce(t2, 1), s, l + 3, 2, 2, v2)
    BY <1>3, <1>14
  <2>4. Means(ModReduce(LevelReduce(t2, 1)), s, l + 4, 1, 2, v2)
    BY <1>2, <2>3
  <2> QED BY <1>4, <2>2, <2>4 DEF v4
<1> HIDE DEF t4
<1>18. Means(mixed, s, l + 4, 2, 2, vmixed)
  <2>1. Means(Times(u, 138), s, l + 1, 2, 2, v1 \otimes C_Lin2)
    BY <1>1, <1>6, <1>12
  <2>2. Means(LevelReduce(Times(u, 138), 2), s, l + 3, 2, 2, v1 \otimes C_Lin2)
    BY <1>3, <2>1
  <2>3. Means(Times(LevelReduce(Times(u, 138), 2), 136), s, l + 3, 3, 2,
              (v1 \otimes C_Lin2) \otimes 1)
    BY <1>1, <1>6, <2>2
  <2>4. Means(ModReduce(Times(LevelReduce(Times(u, 138), 2), 136)), s, l + 4, 2, 2,
              (v1 \otimes C_Lin2) \otimes 1)
    BY <1>2, <2>3
  <2>5. Means(Times(t3, 139), s, l + 4, 2, 2, v3 \otimes C_T32)
    BY <1>1, <1>6, <1>16
  <2> QED BY <1>7, <2>4, <2>5 DEF vmixed
<1> HIDE DEF mixed
<1>19. Means(linear, s, l + 1, 2, 2, vlinear)
  <2>1. Means(Times(u, 134), s, l + 1, 2, 2, v1 \otimes C_Lin)
    BY <1>1, <1>6, <1>12
  <2> QED BY <1>5, <2>1 DEF vlinear
<1> HIDE DEF linear
<1>20. Means(high, s, l + 5, 2, 2, vhigh)
  <2>1. Means(Times(t3, 137), s, l + 4, 2, 2, v3 \otimes C_T3)
    BY <1>1, <1>6, <1>16
  <2>2. Means(Times(Times(t3, 137), 136), s, l + 4, 3, 2, (v3 \otimes C_T3) \otimes 1)
    BY <1>1, <1>6, <2>1
  <2>3. Means(ModReduce(Times(Times(t3, 137), 136)), s, l + 5, 2, 2, (v3 \otimes C_T3) \otimes 1)
    BY <1>2, <2>2
  <2>4. /\ Means(ModReduce(mixed), s, l + 5, 1, 2, vmixed)
        /\ Means(ModReduce(t4), s, l + 5, 1, 2, v4)
    BY <1>2, <1>17, <1>18
  <2>5. Means(Relinearize(EvalMultNoRelin(ModReduce(mixed), ModReduce(t4))), s, l + 5, 2, 2,
              vmixed \otimes v4)
    BY <1>4, <2>4
  <2> QED BY <1>7, <2>3, <2>5 DEF vhigh
<1> HIDE DEF high
<1>21. Means(EvalAdd(ModReduce(Times(LevelReduce(linear, 3), 136)), high), s, l + 5, 2, 2,
             (vlinear \otimes 1) \oplus vhigh)
  <2>1. Means(LevelReduce(linear, 3), s, l + 4, 2, 2, vlinear)
    BY <1>3, <1>19
  <2>2. Means(Times(LevelReduce(linear, 3), 136), s, l + 4, 3, 2, vlinear \otimes 1)
    BY <1>1, <1>6, <2>1
  <2>3. Means(ModReduce(Times(LevelReduce(linear, 3), 136)), s, l + 5, 2, 2, vlinear \otimes 1)
    BY <1>2, <2>2
  <2> QED BY <1>7, <1>20, <2>3
<1>22. ChebyRelu(z) = EvalAdd(ModReduce(Times(LevelReduce(linear, 3), 136)), high)
  BY DEF ChebyRelu, Times, Minus, scaled, u, twiceU, t2, t2Low, t3, t4, mixed, linear, high
<1>23. (vlinear \otimes 1) \oplus vhigh = Clear!cheby_relu(Val(z, s))
  <2>1. Val(z, s) \in Int
    BY ValTyped
  <2> QED BY <2>1, ReluValue DEF v1, v2, v3, v4, vmixed, vlinear, vhigh
<1> QED BY <1>21, <1>22, <1>23

-----------------------------------------------------------------------------
(* Induction *)

(* The least-number principle and the induction it gives, about sets: the   *)
(* theorems of NaturalsInduction are about operators.                      *)
LEMMA LeastNumber ==
  ASSUME NEW T, T \subseteq Nat, T # {}
  PROVE  \E n \in T : \A m \in T : n <= m
<1> DEFINE R == OpToRel(<, Nat)
<1>1. IsWellFoundedOn(R, Nat)
  BY NatLessThanWellFounded
<1>2. \A a, b \in Nat : a < b => <<a, b>> \in R
  BY DEF OpToRel
<1> HIDE DEF R
<1>3. PICK n \in T : \A m \in T : ~ (<<m, n>> \in R)
  BY <1>1, WFMin
<1>4. \A m \in T : m \in Nat /\ n \in Nat /\ ~(m < n)
  BY <1>2, <1>3
<1> QED BY <1>4

LEMMA SetInduction ==
  ASSUME NEW S, 0 \in S, \A n \in Nat : n \in S => n + 1 \in S
  PROVE  Nat \subseteq S
<1> DEFINE T == Nat \ S
<1> SUFFICES ASSUME T # {} PROVE FALSE
  OBVIOUS
<1>1. PICK n \in T : \A m \in T : n <= m
  BY LeastNumber
<1>2. n # 0 /\ n - 1 \in Nat /\ n - 1 \notin T
  BY <1>1
<1> QED BY <1>1, <1>2

-----------------------------------------------------------------------------
(* Sums *)

Sum(n, f) == Clear!SumBelow(n, f)

(* The function by which SumBelow defines its sum: the sums of the first    *)
(* terms of f, up to n of them.                                            *)
IsPartial(g, n, f) ==
  g = [i \in 0 .. n |-> IF i = 0 THEN 0 ELSE g[i - 1] \oplus f[i - 1]]

LEMMA PartialExists ==
  ASSUME NEW n \in Nat, NEW f
  PROVE  \E g : IsPartial(g, n, f)
<1> DEFINE S == {m \in Nat : \E g : IsPartial(g, m, f)}
<1>1. 0 \in S
  <2>1. IsPartial([i \in 0 .. 0 |-> 0], 0, f)
    BY DEF IsPartial
  <2> QED BY <2>1
<1>2. ASSUME NEW m \in Nat, m \in S
      PROVE  m + 1 \in S
  <2>1. PICK g : IsPartial(g, m, f)
    BY <1>2
  <2> DEFINE h == [i \in 0 .. m + 1 |-> IF i = m + 1 THEN g[m] \oplus f[m] ELSE g[i]]
             e == [i \in 0 .. m + 1 |-> IF i = 0 THEN 0 ELSE h[i - 1] \oplus f[i - 1]]
  <2>2. ASSUME NEW i \in 0 .. m + 1
        PROVE  h[i] = e[i]
    <3>1. CASE i = m + 1
      <4>1. i # 0 /\ i - 1 = m /\ m \in 0 .. m + 1 /\ m # m + 1
        BY <3>1
      <4> QED BY <3>1, <4>1
    <3>2. CASE i # m + 1
      <4>1. i \in 0 .. m /\ (i # 0 => i - 1 \in 0 .. m + 1 /\ i - 1 # m + 1)
        BY <3>2
      <4>2. g[i] = IF i = 0 THEN 0 ELSE g[i - 1] \oplus f[i - 1]
        BY <2>1, <4>1 DEF IsPartial
      <4> QED BY <3>2, <4>1, <4>2
    <3> QED BY <3>1, <3>2
  <2>3. h = e
    BY <2>2
  <2>4. IsPartial(h, m + 1, f)
    BY <2>3 DEF IsPartial
  <2> QED BY <2>4
<1> HIDE DEF S
<1>3. n \in S
  BY <1>1, <1>2, SetInduction
<1> QED BY <1>3 DEF S

LEMMA PartialUnique ==
  ASSUME NEW n \in Nat, NEW m \in Nat, n <= m, NEW f, NEW g, NEW h,
         IsPartial(g, n, f), IsPartial(h, m, f)
  PROVE  g[n] = h[n]
<1> DEFINE S == {i \in Nat : i <= n => g[i] = h[i]}
<1>1. 0 \in S
  <2>1. 0 \in 0 .. n /\ 0 \in 0 .. m
    OBVIOUS
  <2>2. g[0] = 0 /\ h[0] = 0
    BY <2>1 DEF IsPartial
  <2> QED BY <2>2
<1>2. ASSUME NEW i \in Nat, i \in S
      PROVE  i + 1 \in S
  <2> SUFFICES ASSUME i + 1 <= n PROVE g[i + 1] = h[i + 1]
    OBVIOUS
  <2>1. i + 1 \in 0 .. n /\ i + 1 \in 0 .. m /\ i + 1 # 0 /\ (i + 1) - 1 = i /\ i <= n
    OBVIOUS
  <2>2. g[i + 1] = g[i] \oplus f[i] /\ h[i + 1] = h[i] \oplus f[i]
    BY <2>1 DEF IsPartial
  <2> QED BY <1>2, <2>1, <2>2
<1> HIDE DEF S
<1>3. n \in S
  BY <1>1, <1>2, SetInduction
<1> QED BY <1>3 DEF S

(* What SumBelow computes.                                                 *)
LEMMA SumDefined ==
  ASSUME NEW n \in Nat, NEW f
  PROVE  Sum(0, f) = 0 /\ Sum(n + 1, f) = Sum(n, f) \oplus f[n]
<1>1. ASSUME NEW m \in Nat
      PROVE  \E g : IsPartial(g, m, f) /\ Sum(m, f) = g[m]
  <2>1. Sum(m, f) = (CHOOSE g : IsPartial(g, m, f))[m]
    BY DEF Sum, IsPartial, Clear!SumBelow, Clear!\oplus, \oplus
  <2> QED BY <2>1, PartialExists
<1>2. PICK g : IsPartial(g, n, f) /\ Sum(n, f) = g[n]
  BY <1>1
<1>3. n + 1 \in Nat
  OBVIOUS
<1>4. PICK h : IsPartial(h, n + 1, f) /\ Sum(n + 1, f) = h[n + 1]
  BY <1>1, <1>3
<1>5. g[n] = h[n]
  BY <1>2, <1>3, <1>4, PartialUnique
<1>6. n + 1 \in 0 .. n + 1 /\ n + 1 # 0 /\ (n + 1) - 1 = n
  OBVIOUS
<1>7. h[n + 1] = h[n] \oplus f[n]
  BY <1>4, <1>6 DEF IsPartial
<1>8. PICK e : IsPartial(e, 0, f) /\ Sum(0, f) = e[0]
  BY <1>1
<1>9. e[0] = 0
  BY <1>8 DEF IsPartial
<1> QED BY <1>2, <1>4, <1>5, <1>7, <1>8, <1>9

LEMMA SumTyped ==
  ASSUME NEW n \in Nat, NEW f, \A i \in 0 .. n - 1 : f[i] \in Int
  PROVE  Sum(n, f) \in Value /\ Sum(n, f) \in Int
<1> DEFINE S == {m \in Nat : m <= n => Sum(m, f) \in Value}
<1>1. 0 \in S
  <2>1. 0 \in Value
    BY Modulus DEF Value
  <2> QED BY <2>1, SumDefined
<1>2. ASSUME NEW m \in Nat, m \in S
      PROVE  m + 1 \in S
  <2> SUFFICES ASSUME m + 1 <= n PROVE Sum(m + 1, f) \in Value
    OBVIOUS
  <2>1. m <= n /\ m \in 0 .. n - 1
    OBVIOUS
  <2>2. Sum(m, f) \in Int /\ f[m] \in Int
    BY <1>2, <2>1 DEF Value
  <2> QED BY <2>2, SumDefined, ValueClosed
<1> HIDE DEF S
<1>3. n \in S
  BY <1>1, <1>2, SetInduction
<1>4. Sum(n, f) \in Value
  BY <1>3 DEF S
<1> QED BY <1>4 DEF Value

(* A sum of sums is the sum of the terms' sums.                            *)
LEMMA SumOfSums ==
  ASSUME NEW n \in Nat, NEW f, NEW g, NEW h,
         \A i \in 0 .. n - 1 : f[i] \in Int /\ g[i] \in Int /\ h[i] = f[i] \oplus g[i]
  PROVE  Sum(n, h) = Sum(n, f) \oplus Sum(n, g)
<1> DEFINE S == {m \in Nat : m <= n => Sum(m, h) = Sum(m, f) \oplus Sum(m, g)}
<1>1. 0 \in S
  <2>1. 0 \oplus 0 = 0
    BY Unit, Modulus DEF Value
  <2> QED BY <2>1, SumDefined
<1>2. ASSUME NEW m \in Nat, m \in S
      PROVE  m + 1 \in S
  <2> SUFFICES ASSUME m + 1 <= n PROVE Sum(m + 1, h) = Sum(m + 1, f) \oplus Sum(m + 1, g)
    OBVIOUS
  <2>1. m <= n /\ m \in 0 .. n - 1 /\ \A i \in 0 .. m - 1 : i \in 0 .. n - 1
    OBVIOUS
  <2> DEFINE a == Sum(m, f)  b == Sum(m, g)  c == f[m]  d == g[m]
  <2>2. a \in Int /\ b \in Int /\ c \in Int /\ d \in Int
    BY <2>1, SumTyped
  <2>3. Sum(m + 1, h) = (a \oplus b) \oplus (c \oplus d)
    BY <1>2, <2>1, SumDefined
  <2>4. Sum(m + 1, f) = a \oplus c /\ Sum(m + 1, g) = b \oplus d
    BY SumDefined
  <2> HIDE DEF a, b, c, d
  <2>5. (a \oplus b) \oplus (c \oplus d) = (a \oplus c) \oplus (b \oplus d)
    <3>1. a \oplus b \in Int /\ a \oplus c \in Int /\ c \oplus d \in Int /\ b \oplus d \in Int
      BY <2>2, IntClosed
    <3>2. (a \oplus b) \oplus (c \oplus d) = ((a \oplus b) \oplus c) \oplus d
      BY <2>2, <3>1, Ring
    <3>3. (a \oplus c) \oplus (b \oplus d) = ((a \oplus c) \oplus b) \oplus d
      BY <2>2, <3>1, Ring
    <3>4. (a \oplus b) \oplus c = a \oplus (c \oplus b)
      BY <2>2, Ring
    <3>5. (a \oplus c) \oplus b = a \oplus (c \oplus b)
      BY <2>2, Ring
    <3> QED BY <3>2, <3>3, <3>4, <3>5
  <2> QED BY <2>3, <2>4, <2>5
<1> HIDE DEF S
<1>3. n \in S
  BY <1>1, <1>2, SetInduction
<1> QED BY <1>3 DEF S

(* Equal terms have equal sums, and zeros sum to zero.                      *)
LEMMA SumEqual ==
  ASSUME NEW n \in Nat, NEW f, NEW g, \A i \in 0 .. n - 1 : f[i] = g[i]
  PROVE  Sum(n, f) = Sum(n, g)
<1> DEFINE S == {m \in Nat : m <= n => Sum(m, f) = Sum(m, g)}
<1>1. 0 \in S
  BY SumDefined
<1>2. ASSUME NEW m \in Nat, m \in S
      PROVE  m + 1 \in S
  <2> SUFFICES ASSUME m + 1 <= n PROVE Sum(m + 1, f) = Sum(m + 1, g)
    OBVIOUS
  <2>1. m <= n /\ m \in 0 .. n - 1
    OBVIOUS
  <2> QED BY <1>2, <2>1, SumDefined
<1> HIDE DEF S
<1>3. n \in S
  BY <1>1, <1>2, SetInduction
<1> QED BY <1>3 DEF S

LEMMA SumZero ==
  ASSUME NEW n \in Nat, NEW f, \A i \in 0 .. n - 1 : f[i] = 0
  PROVE  Sum(n, f) = 0
<1> DEFINE S == {m \in Nat : m <= n => Sum(m, f) = 0}
<1>1. 0 \in S
  BY SumDefined
<1>2. ASSUME NEW m \in Nat, m \in S
      PROVE  m + 1 \in S
  <2> SUFFICES ASSUME m + 1 <= n PROVE Sum(m + 1, f) = 0
    OBVIOUS
  <2>1. m <= n /\ m \in 0 .. n - 1
    OBVIOUS
  <2>2. 0 \oplus 0 = 0
    BY Unit, Modulus DEF Value
  <2> QED BY <1>2, <2>1, <2>2, SumDefined
<1> HIDE DEF S
<1>3. n \in S
  BY <1>1, <1>2, SetInduction
<1> QED BY <1>3 DEF S

(* A term put where there was a zero is added to the sum.                   *)
LEMMA SumWithTerm ==
  ASSUME NEW n \in Nat, NEW f, NEW g, NEW j \in 0 .. n - 1,
         \A i \in 0 .. n - 1 : f[i] \in Int /\ (i # j => g[i] = f[i]),
         f[j] = 0, g[j] \in Value
  PROVE  Sum(n, g) = Sum(n, f) \oplus g[j]
<1> DEFINE S == {m \in Nat : m <= n =>
                   Sum(m, g) = IF j < m THEN Sum(m, f) \oplus g[j] ELSE Sum(m, f)}
<1>1. 0 \in S
  BY SumDefined
<1>2. ASSUME NEW m \in Nat, m \in S
      PROVE  m + 1 \in S
  <2> SUFFICES ASSUME m + 1 <= n
               PROVE  Sum(m + 1, g) =
                        IF j < m + 1 THEN Sum(m + 1, f) \oplus g[j] ELSE Sum(m + 1, f)
    OBVIOUS
  <2>1. m <= n /\ m \in 0 .. n - 1 /\ \A i \in 0 .. m - 1 : i \in 0 .. n - 1
    OBVIOUS
  <2>2. Sum(m, g) = IF j < m THEN Sum(m, f) \oplus g[j] ELSE Sum(m, f)
    BY <1>2, <2>1
  <2>3. Sum(m + 1, g) = Sum(m, g) \oplus g[m] /\ Sum(m + 1, f) = Sum(m, f) \oplus f[m]
    BY SumDefined
  <2>4. Sum(m, f) \in Int /\ Sum(m, f) \in Value /\ f[m] \in Int /\ g[j] \in Int
    BY <2>1, SumTyped DEF Value
  <2>5. CASE j < m
    <3>1. g[m] = f[m]
      BY <2>1, <2>5
    <3>2. (Sum(m, f) \oplus g[j]) \oplus f[m] = (Sum(m, f) \oplus f[m]) \oplus g[j]
      <4>1. (Sum(m, f) \oplus g[j]) \oplus f[m] = Sum(m, f) \oplus (g[j] \oplus f[m])
        BY <2>4, Ring
      <4>2. (Sum(m, f) \oplus f[m]) \oplus g[j] = Sum(m, f) \oplus (f[m] \oplus g[j])
        BY <2>4, Ring
      <4>3. g[j] \oplus f[m] = f[m] \oplus g[j]
        BY <2>4, Ring
      <4> QED BY <4>1, <4>2, <4>3
    <3> QED BY <2>2, <2>3, <2>5, <3>1, <3>2
  <2>6. CASE j = m
    <3>1. Sum(m, f) \oplus f[m] = Sum(m, f)
      BY <2>4, <2>6, Unit
    <3> QED BY <2>2, <2>3, <2>6, <3>1
  <2>7. CASE j > m
    <3>1. g[m] = f[m]
      BY <2>1, <2>7
    <3> QED BY <2>2, <2>3, <2>7, <3>1
  <2> QED BY <2>5, <2>6, <2>7
<1> HIDE DEF S
<1>3. n \in S
  BY <1>1, <1>2, SetInduction
<1>4. n <= n /\ j < n
  OBVIOUS
<1> QED BY <1>3, <1>4 DEF S

-----------------------------------------------------------------------------
(* Positions *)

(* A remainder by a multiple of w keeps the remainder by w.                 *)
LEMMA ModOfMod ==
  ASSUME NEW w \in Nat \ {0}, NEW n \in Nat \ {0}, n % w = 0, NEW a \in Int
  PROVE  (a % n) % w = a % w
<1> DEFINE q == a \div n  r == a % n  t == n \div w
<1>1. a = n * q + r /\ q \in Int /\ r \in Nat
  OBVIOUS
<1>2. n = w * t /\ t \in Nat
  OBVIOUS
<1> HIDE DEF q, r, t
<1>3. a = r + w * (t * q) /\ t * q \in Int
  BY <1>1, <1>2
<1>4. \A b, e \in Int : (b + w * e) % w = b % w
  <2> TAKE b, e \in Int
  <2> DEFINE m == b \div w  c == b % w
  <2>1. b = w * m + c /\ m \in Int /\ c \in 0 .. w - 1
    OBVIOUS
  <2> HIDE DEF m, c
  <2>2. b + w * e = w * (m + e) + c /\ m + e \in Int
    BY <2>1
  <2>3. \A i \in Int, j \in 0 .. w - 1 : (w * i + j) % w = j
    OBVIOUS
  <2> QED BY <2>1, <2>2, <2>3 DEF c
<1>5. r \in Int
  BY <1>1
<1> QED BY <1>3, <1>4, <1>5 DEF r

(* A width that divides the layout divides the ciphertext, and the layers'  *)
(* widths do.                                                              *)
LEMMA LayoutsDivide ==
  /\ Layout \in Nat \ {0} /\ Layout % 128 = 0 /\ 128 <= Layout /\ Layout <= Slots
  /\ Slots \in Nat \ {0} /\ Slots % Layout = 0
<1>1. Layout \in Nat \ {0} /\ Layout % 128 = 0 /\ Slots \in Nat \ {0} /\ Slots % Layout = 0
  BY KernelAssumption, EvaluatorAssumption DEF N_H1
<1>2. Layout >= 128
  <2>1. \A n \in Nat : n < 128 /\ n % 128 = 0 => n = 0
    OBVIOUS
  <2> QED BY <1>1, <2>1
<1>3. Layout <= Slots
  <2>1. \A a, b \in Nat : a < b => a % b = a
    OBVIOUS
  <2> QED BY <1>1, <2>1
<1> QED BY <1>1, <1>2, <1>3

LEMMA WidthDivides ==
  ASSUME NEW m \in Nat \ {0}, Layout % m = 0
  PROVE  /\ Slots % m = 0
         /\ \A a \in Int : (a % Slots) % m = a % m /\ (a % Layout) % m = a % m
<1>1. Layout \in Nat \ {0} /\ Slots \in Nat \ {0} /\ Slots % Layout = 0
  BY LayoutsDivide
<1>2. \A a \in Int : (a % Layout) % m = a % m
  BY <1>1, ModOfMod
<1>3. Slots % m = 0
  <2>1. (Slots % Layout) % m = Slots % m
    <3>1. Slots \in Int
      BY <1>1
    <3> QED BY <1>2, <3>1, Zenon
  <2>2. 0 % m = 0
    OBVIOUS
  <2> QED BY <1>1, <2>1, <2>2
<1>4. \A a \in Int : (a % Slots) % m = a % m
  BY <1>1, <1>3, ModOfMod
<1> QED BY <1>2, <1>3, <1>4

Widths == {2, 4, 8, 16, 32, 64, 128}

LEMMA WidthsDivide ==
  ASSUME NEW m \in Widths
  PROVE  /\ Layout % m = 0 /\ Slots % m = 0 /\ m <= Slots
         /\ \A a \in Int : (a % Slots) % m = a % m /\ (a % Layout) % m = a % m
         /\ \A a \in Int : a % Slots \in Slot /\ a % Layout \in Slot /\ a % m \in Slot
<1>1. Layout % m = 0 /\ m \in Nat \ {0} /\ m <= Slots
  BY LayoutsDivide DEF Widths
<1>2. \A a \in Int, n \in Nat \ {0} : n <= Slots => a % n \in Slot
  BY LayoutsDivide DEF Slot
<1>3. \A a \in Int : a % Slots \in Slot /\ a % Layout \in Slot /\ a % m \in Slot
  <2>1. Slots <= Slots
    BY LayoutsDivide
  <2> QED BY <1>1, <1>2, <2>1, LayoutsDivide, Zenon
<1> QED BY <1>1, <1>3, WidthDivides

-----------------------------------------------------------------------------
(* Rows of the products *)

(* Of each layer: rows and columns of its matrix, and the width of the      *)
(* vector it is applied to, which in layer 1 is padded to 128.             *)
Rows(l) == <<N_H1, N_H2, N_OUT>>[l]
Cols(l) == <<N_IN, N_H1, N_H2>>[l]
Period(l) == <<128, 128, 64>>[l]
Weight(l, i, j) == CASE l = 1 -> W1[i][j] [] l = 2 -> W2[i][j] [] l = 3 -> W3[i][j]

LEMMA LayerFacts ==
  ASSUME NEW l \in 1 .. 3
  PROVE  /\ Rows(l) \in {2, 64, 128} /\ Period(l) \in {64, 128}
         /\ Cols(l) \in {64, 82, 128} /\ Cols(l) <= Period(l)
         /\ Shape[l].diagonals \in {2, 64, 128} /\ Shape[l].diagonals <= Period(l)
BY DEF Rows, Cols, Period, Shape, N_IN, N_H1, N_H2, N_OUT

LEMMA WeightInMatrix ==
  ASSUME NEW l \in 1 .. 3, NEW i \in 0 .. Rows(l) - 1, NEW j \in 0 .. Cols(l) - 1
  PROVE  Weight(l, i, j) \in Value /\ Weight(l, i, j) \in Int
<1>1. Weight(l, i, j) \in Value
  <2>0. /\ \A r \in 0 .. N_H1 - 1, c \in 0 .. N_IN - 1 : W1[r][c] \in Value
        /\ \A r \in 0 .. N_H2 - 1, c \in 0 .. N_H1 - 1 : W2[r][c] \in Value
        /\ \A r \in 0 .. N_OUT - 1, c \in 0 .. N_H2 - 1 : W3[r][c] \in Value
    BY KernelAssumption
  <2>1. CASE l = 1
    BY <2>0, <2>1 DEF Weight, Rows, Cols
  <2>2. CASE l = 2
    BY <2>0, <2>2 DEF Weight, Rows, Cols
  <2>3. CASE l = 3
    BY <2>0, <2>3 DEF Weight, Rows, Cols
  <2> QED BY <2>1, <2>2, <2>3
<1> QED BY <1>1 DEF Value

(* Diagonal d holds at slot s the weight of the slot's row and of the       *)
(* column d further on, and 0 where layer 1 has no such feature.           *)
LEMMA DiagonalIsWeight ==
  ASSUME NEW l \in 1 .. 3, NEW d \in Nat, NEW s \in Nat
  PROVE  Diagonal(l, d, s) =
           LET j == (s + d) % Period(l)
           IN  IF j < Cols(l) THEN Weight(l, s % Rows(l), j) ELSE 0
<1>1. CASE l = 1
  <2>1. IsFeature(d + s) <=> (s + d) % 128 < 82
    BY DEF IsFeature
  <2>2. (d + s) % 128 = (s + d) % 128
    OBVIOUS
  <2> QED BY <1>1, <2>1, <2>2 DEF Diagonal, W1Diagonal, Weight, Rows, Cols, Period, N_IN, N_H1
<1>2. CASE l = 2
  <2>1. Layout \in Nat /\ Layout % 128 = 0
    BY LayoutsDivide
  <2>2. 127 - ((Layout + 127 - d - s) % 128) = (s + d) % 128
    BY <2>1
  <2>3. (s + d) % 128 < 128
    OBVIOUS
  <2> QED BY <1>2, <2>2, <2>3 DEF Diagonal, W2Diagonal, Weight, Rows, Cols, Period, N_H1, N_H2
<1>3. CASE l = 3
  <2>1. Layout \in Nat /\ Layout % 64 = 0
    BY LayoutsDivide
  <2>2. 63 - ((Layout + 63 - d - s) % 64) = (s + d) % 64
    BY <2>1
  <2>3. 1 - ((s + 1) % 2) = s % 2 /\ (s + d) % 64 < 64
    OBVIOUS
  <2> QED BY <1>3, <2>2, <2>3 DEF Diagonal, W3Diagonal, Weight, Rows, Cols, Period, N_H2, N_OUT
<1> QED BY <1>1, <1>2, <1>3

(* A ciphertext as the circuit passes it on, and one whose values repeat    *)
(* with period m through all slots.                                        *)
Stands(c) == \E v \in Nat, d \in 1 .. 2 : Sound(c, v, d, 2)
Repeats(c, m) == \A s \in Slot : Val(c, s) = Val(c, s % m)

LEMMA StandsTyped ==
  ASSUME NEW c, Stands(c), NEW s \in Slot
  PROVE  Val(c, s) \in Value /\ Val(c, s) \in Int
<1>1. PICK v \in Nat, d \in 1 .. 2 : Sound(c, v, d, 2)
  BY DEF Stands
<1>2. d \in 1 .. 4
  OBVIOUS
<1> QED BY <1>1, <1>2, ValTyped

(* At slot s, the part of its row's product whose column lies, seen from s  *)
(* and around a cycle of m, among the next w.                              *)
RowTerms(c, l, s, m, w) ==
  [j \in 0 .. Cols(l) - 1 |->
     IF (j - s) % m < w THEN Weight(l, s % Rows(l), j) \otimes Val(c, j) ELSE 0]
Row(c, l, s, m, w) == Sum(Cols(l), RowTerms(c, l, s, m, w))

LEMMA TermTyped ==
  ASSUME NEW c, Stands(c), NEW l \in 1 .. 3, NEW s \in Nat, NEW j \in 0 .. Cols(l) - 1
  PROVE  /\ Weight(l, s % Rows(l), j) \otimes Val(c, j) \in Value
         /\ Weight(l, s % Rows(l), j) \otimes Val(c, j) = Val(c, j) \otimes Weight(l, s % Rows(l), j)
         /\ s % Rows(l) \in 0 .. Rows(l) - 1
         /\ j \in Slot
<1>1. j \in Slot
  <2>1. Cols(l) \in {64, 82, 128}
    BY LayerFacts
  <2> QED BY <2>1, LayoutsDivide DEF Slot
<1>2. s % Rows(l) \in 0 .. Rows(l) - 1
  BY LayerFacts
<1>3. Weight(l, s % Rows(l), j) \in Int /\ Val(c, j) \in Int
  BY <1>1, <1>2, WeightInMatrix, StandsTyped
<1> QED BY <1>1, <1>2, <1>3, ValueClosed, Ring

LEMMA RowTyped ==
  ASSUME NEW c, Stands(c), NEW l \in 1 .. 3, NEW s \in Nat, NEW m, NEW w
  PROVE  /\ \A j \in 0 .. Cols(l) - 1 : RowTerms(c, l, s, m, w)[j] \in Value
         /\ \A j \in 0 .. Cols(l) - 1 : RowTerms(c, l, s, m, w)[j] \in Int
         /\ Row(c, l, s, m, w) \in Value /\ Row(c, l, s, m, w) \in Int
<1>1. 0 \in Value
  BY Modulus DEF Value
<1>2. \A j \in 0 .. Cols(l) - 1 : RowTerms(c, l, s, m, w)[j] \in Value
  BY <1>1, TermTyped DEF RowTerms
<1>3. \A j \in 0 .. Cols(l) - 1 : RowTerms(c, l, s, m, w)[j] \in Int
  BY <1>2 DEF Value
<1>4. Cols(l) \in Nat
  BY LayerFacts
<1> QED BY <1>2, <1>3, <1>4, SumTyped DEF Row

LEMMA RowEmpty ==
  ASSUME NEW c, NEW l \in 1 .. 3, NEW s \in Nat, NEW m \in Nat \ {0}
  PROVE  Row(c, l, s, m, 0) = 0
<1>1. \A j \in 0 .. Cols(l) - 1 : RowTerms(c, l, s, m, 0)[j] = 0
  <2> TAKE j \in 0 .. Cols(l) - 1
  <2>1. (j - s) % m >= 0 /\ (j - s) % m \in Int
    BY LayerFacts
  <2> QED BY <2>1 DEF RowTerms
<1>2. Cols(l) \in Nat
  BY LayerFacts
<1> QED BY <1>1, <1>2, SumZero DEF Row

(* All columns of a full cycle: the product of the row.                    *)
ProductTerms(c, l, i) == [j \in 0 .. Cols(l) - 1 |-> Weight(l, i, j) \otimes Val(c, j)]

LEMMA RowFull ==
  ASSUME NEW c, NEW l \in 1 .. 3, NEW s \in Nat, NEW m \in Nat \ {0}
  PROVE  Row(c, l, s, m, m) = Sum(Cols(l), ProductTerms(c, l, s % Rows(l)))
<1>1. \A j \in 0 .. Cols(l) - 1 :
         RowTerms(c, l, s, m, m)[j] = ProductTerms(c, l, s % Rows(l))[j]
  <2> TAKE j \in 0 .. Cols(l) - 1
  <2>1. (j - s) % m < m
    BY LayerFacts
  <2> QED BY <2>1 DEF RowTerms, ProductTerms
<1>2. Cols(l) \in Nat
  BY LayerFacts
<1> QED BY <1>1, <1>2, SumEqual DEF Row

Cycles == {64, 128}
Halves == {2, 4, 8, 16, 32, 64}

LEMMA CycleFacts ==
  ASSUME NEW m \in Cycles, NEW a \in Int, NEW s \in Nat, NEW d \in 0 .. m - 1,
         NEW j \in 0 .. m - 1
  PROVE  /\ (j - s) % m = d <=> j = (s + d) % m
         /\ (j - s) % m \in Nat
         /\ a % m = s % m => (a + d) % m = (s + d) % m
<1>1. CASE m = 64
  BY <1>1
<1>2. CASE m = 128
  BY <1>2
<1> QED BY <1>1, <1>2 DEF Cycles

(* One more diagonal is one more column of every row.                      *)
LEMMA RowGrows ==
  ASSUME NEW c, Stands(c), NEW l \in 1 .. 3, Repeats(c, Period(l)),
         NEW s \in Slot, NEW d \in 0 .. Period(l) - 1
  PROVE  Row(c, l, s, Period(l), d + 1) =
           Row(c, l, s, Period(l), d)
             \oplus (Val(c, (s + d) % Slots) \otimes Diagonal(l, d, s % Layout))
<1> DEFINE m == Period(l)
           j0 == (s + d) % m
           f == RowTerms(c, l, s, m, d)
           g == RowTerms(c, l, s, m, d + 1)
           new == Val(c, (s + d) % Slots) \otimes Diagonal(l, d, s % Layout)
<1>0. d \in 0 .. m - 1
  OBVIOUS
<1>1. /\ m \in Cycles /\ m \in Widths /\ Rows(l) \in Widths /\ m \in Nat \ {0}
      /\ s \in Nat /\ d \in Nat /\ s + d \in Int /\ s \in Int /\ s % Layout \in Nat
      /\ s % Layout \in Int /\ Cols(l) \in Nat /\ Cols(l) <= m
  <2>1. s % Layout \in Nat /\ s \in Nat
    BY LayoutsDivide DEF Slot
  <2> QED BY <2>1, LayerFacts DEF Cycles, Widths
<1>2. Val(c, (s + d) % Slots) = Val(c, j0)
  <2>1. (s + d) % Slots \in Slot /\ ((s + d) % Slots) % m = (s + d) % m
    BY <1>1, WidthsDivide
  <2> QED BY <2>1 DEF Repeats
<1>3. Diagonal(l, d, s % Layout) =
        IF j0 < Cols(l) THEN Weight(l, s % Rows(l), j0) ELSE 0
  <2>1. (s % Layout) % m = s % m /\ (s % Layout) % Rows(l) = s % Rows(l)
    BY <1>1, WidthsDivide
  <2>2. ((s % Layout) + d) % m = j0
    BY <1>0, <1>1, <2>1, CycleFacts
  <2> QED BY <1>1, <2>1, <2>2, DiagonalIsWeight
<1>4. \A j \in 0 .. Cols(l) - 1 :
         /\ (j - s) % m = d <=> j = j0
         /\ (j - s) % m < d + 1 <=> (j - s) % m < d \/ j = j0
  <2> TAKE j \in 0 .. Cols(l) - 1
  <2>1. j \in 0 .. m - 1
    BY <1>1
  <2>2. ((j - s) % m = d <=> j = j0) /\ (j - s) % m \in Nat
    BY <1>0, <1>1, <2>1, CycleFacts
  <2> QED BY <1>1, <2>2
<1>5. /\ \A j \in 0 .. Cols(l) - 1 : f[j] \in Int
      /\ Sum(Cols(l), f) \in Value
  BY <1>1, RowTyped DEF Row
<1>6. \A j \in 0 .. Cols(l) - 1 : j # j0 => g[j] = f[j]
  BY <1>4 DEF RowTerms
<1>7. j0 \in Nat
  BY <1>1
<1>8. CASE j0 < Cols(l)
  <2>1. j0 \in 0 .. Cols(l) - 1
    BY <1>1, <1>7, <1>8
  <2>2. ~ ((j0 - s) % m < d) /\ (j0 - s) % m < d + 1
    BY <1>1, <1>4, <2>1
  <2>3. f[j0] = 0 /\ g[j0] = Weight(l, s % Rows(l), j0) \otimes Val(c, j0)
    BY <2>1, <2>2 DEF RowTerms
  <2>4. g[j0] \in Value /\ g[j0] = new
    BY <1>1, <1>2, <1>3, <1>8, <2>1, <2>3, TermTyped
  <2> HIDE DEF f, g, j0
  <2>5. Sum(Cols(l), g) = Sum(Cols(l), f) \oplus g[j0]
    <3>1. \A i \in 0 .. Cols(l) - 1 : f[i] \in Int /\ (i # j0 => g[i] = f[i])
      BY <1>5, <1>6
    <3>2. Cols(l) \in Nat /\ f[j0] = 0 /\ g[j0] \in Value
      BY <1>1, <2>3, <2>4
    <3> QED BY <2>1, <3>1, <3>2, SumWithTerm
  <2> QED BY <2>4, <2>5 DEF Row, f, g
<1>9. CASE ~ (j0 < Cols(l))
  <2>1. \A j \in 0 .. Cols(l) - 1 : g[j] = f[j]
    BY <1>1, <1>6, <1>7, <1>9
  <2>2. new = 0
    <3>1. (s + d) % Slots \in Slot
      BY <1>1, WidthsDivide
    <3> QED BY <1>3, <1>9, <3>1, StandsTyped, Unit
  <2> HIDE DEF f, g
  <2>3. Sum(Cols(l), g) = Sum(Cols(l), f)
    BY <1>1, <2>1, SumEqual
  <2>4. Sum(Cols(l), f) \oplus 0 = Sum(Cols(l), f)
    BY <1>5, Unit
  <2> QED BY <2>2, <2>3, <2>4 DEF Row, f, g
<1> QED BY <1>8, <1>9

(* Around half a cycle, the next w are the next w of the whole cycle or     *)
(* those half a cycle further on.                                          *)
LEMMA HalfCycle ==
  ASSUME NEW n \in Halves, NEW a \in Int, NEW b \in Int, NEW w \in 0 .. n,
         b % (2 * n) = (a - n) % (2 * n)
  PROVE  /\ a % n < w <=> a % (2 * n) < w \/ b % (2 * n) < w
         /\ ~ (a % (2 * n) < w /\ b % (2 * n) < w)
<1>1. CASE n = 2
  BY <1>1
<1>2. CASE n = 4
  BY <1>2
<1>3. CASE n = 8
  BY <1>3
<1>4. CASE n = 16
  BY <1>4
<1>5. CASE n = 32
  BY <1>5
<1>6. CASE n = 64
  BY <1>6
<1> QED BY <1>1, <1>2, <1>3, <1>4, <1>5, <1>6 DEF Halves

LEMMA HalfShift ==
  ASSUME NEW n \in Halves, NEW s \in Nat, NEW t \in Nat, NEW j \in Nat,
         t % (2 * n) = (s + n) % (2 * n)
  PROVE  (j - t) % (2 * n) = ((j - s) - n) % (2 * n)
<1>1. CASE n = 2
  BY <1>1
<1>2. CASE n = 4
  BY <1>2
<1>3. CASE n = 8
  BY <1>3
<1>4. CASE n = 16
  BY <1>4
<1>5. CASE n = 32
  BY <1>5
<1>6. CASE n = 64
  BY <1>6
<1> QED BY <1>1, <1>2, <1>3, <1>4, <1>5, <1>6 DEF Halves

(* A fold adds the half of each row that lies half a cycle further on.      *)
LEMMA RowFolds ==
  ASSUME NEW c, Stands(c), NEW l \in 1 .. 3, NEW s \in Slot,
         NEW n \in Halves, NEW w \in 0 .. n,
         (s + n) % Rows(l) = s % Rows(l)
  PROVE  Row(c, l, s, 2 * n, w) \oplus Row(c, l, (s + n) % Slots, 2 * n, w)
           = Row(c, l, s, n, w)
<1> DEFINE t == (s + n) % Slots
           f == RowTerms(c, l, s, 2 * n, w)
           g == RowTerms(c, l, t, 2 * n, w)
           h == RowTerms(c, l, s, n, w)
<1>1. /\ s \in Nat /\ n \in Nat /\ t \in Nat /\ Cols(l) \in Nat
      /\ 2 * n \in Widths /\ Rows(l) \in Widths
  <2>1. s \in Nat /\ n \in Nat /\ (s + n) % Slots \in Nat
    BY LayoutsDivide DEF Slot, Halves
  <2>2. 2 * n \in Widths
    BY DEF Widths, Halves
  <2> QED BY <2>1, <2>2, LayerFacts DEF Widths
<1>2. t % (2 * n) = (s + n) % (2 * n) /\ t % Rows(l) = s % Rows(l)
  <2>1. s + n \in Int
    BY <1>1
  <2> QED BY <1>1, <2>1, WidthsDivide
<1> HIDE DEF t
<1>3. ASSUME NEW j \in 0 .. Cols(l) - 1
      PROVE  f[j] \in Int /\ g[j] \in Int /\ h[j] = f[j] \oplus g[j]
  <2> DEFINE e == Weight(l, s % Rows(l), j) \otimes Val(c, j)
  <2>1. e \in Value /\ 0 \in Value
    BY <1>1, TermTyped, Modulus DEF Value
  <2>2. j - s \in Int /\ j - t \in Int /\ j \in Nat
    BY <1>1
  <2>3. (j - t) % (2 * n) = ((j - s) - n) % (2 * n)
    BY <1>1, <1>2, <2>2, HalfShift
  <2>4. /\ (j - s) % n < w <=> (j - s) % (2 * n) < w \/ (j - t) % (2 * n) < w
        /\ ~ ((j - s) % (2 * n) < w /\ (j - t) % (2 * n) < w)
    BY <2>2, <2>3, HalfCycle
  <2> HIDE DEF e
  <2>5. e \oplus 0 = e /\ 0 \oplus e = e /\ 0 \oplus 0 = 0
    BY <2>1, Unit
  <2>6. /\ f[j] = IF (j - s) % (2 * n) < w THEN e ELSE 0
        /\ g[j] = IF (j - t) % (2 * n) < w THEN e ELSE 0
        /\ h[j] = IF (j - s) % n < w THEN e ELSE 0
    BY <1>2 DEF RowTerms, e
  <2>7. h[j] = f[j] \oplus g[j]
    BY <2>4, <2>5, <2>6, Zenon
  <2> QED BY <1>1, <2>7, RowTyped
<1> HIDE DEF f, g, h
<1>4. Sum(Cols(l), h) = Sum(Cols(l), f) \oplus Sum(Cols(l), g)
  BY <1>1, <1>3, SumOfSums
<1> QED BY <1>4 DEF Row, f, g, h, t

-----------------------------------------------------------------------------
(* The circuit *)

LEMMA ShapeFacts ==
  ASSUME layer \in 1 .. 3
  PROVE  /\ Babies \in {2, 8, 12} /\ Diagonals \in 2 .. 128 /\ Babies <= Diagonals
         /\ Len(Folds) \in 0 .. 5
         /\ \A r \in 1 .. Babies - 1 : r \in RotationKeys
         /\ \A n \in 1 .. Diagonals :
              LET by == ((n - 1) \div Babies) * Babies
              IN  (by = 0 <=> n <= Babies) /\ (by = 0 \/ by \in RotationKeys)
         /\ \A i \in 1 .. Len(Folds) : Folds[i] \in RotationKeys
<1>1. GeneratedKeys \subseteq RotationKeys
  BY ParametersAssumption
<1>2. CASE layer = 1
  <2>1. Babies = 12 /\ Diagonals = 128 /\ Folds = << >>
    BY <1>2 DEF Babies, Diagonals, Folds, Shape
  <2>2. \A r \in 1 .. 11 : r \in GeneratedKeys
    BY DEF GeneratedKeys
  <2>3. \A m \in 0 .. 10 : m = 0 \/ m * 12 \in GeneratedKeys
    BY DEF GeneratedKeys
  <2>4. \A n \in 1 .. 128 : (n - 1) \div 12 \in 0 .. 10 /\ ((n - 1) \div 12 = 0 <=> n <= 12)
    OBVIOUS
  <2> QED BY <1>1, <2>1, <2>2, <2>3, <2>4
<1>3. CASE layer = 2
  <2>1. Babies = 8 /\ Diagonals = 64 /\ Folds = <<64>>
    BY <1>3 DEF Babies, Diagonals, Folds, Shape
  <2>2. \A r \in 1 .. 7 : r \in GeneratedKeys
    BY DEF GeneratedKeys
  <2>3. \A m \in 0 .. 7 : m = 0 \/ m * 8 \in GeneratedKeys
    BY DEF GeneratedKeys
  <2>4. \A n \in 1 .. 64 : (n - 1) \div 8 \in 0 .. 7 /\ ((n - 1) \div 8 = 0 <=> n <= 8)
    OBVIOUS
  <2>5. Len(Folds) = 1 /\ Folds[1] \in GeneratedKeys
    BY <2>1 DEF GeneratedKeys
  <2> QED BY <1>1, <2>1, <2>2, <2>3, <2>4, <2>5
<1>4. CASE layer = 3
  <2>1. Babies = 2 /\ Diagonals = 2 /\ Folds = <<32, 16, 8, 4, 2>>
    BY <1>4 DEF Babies, Diagonals, Folds, Shape
  <2>2. 1 \in GeneratedKeys
    BY DEF GeneratedKeys
  <2>3. \A n \in 1 .. 2 : (n - 1) \div 2 = 0
    OBVIOUS
  <2>4. Len(Folds) = 5 /\ \A i \in 1 .. 5 : Folds[i] \in GeneratedKeys
    BY <2>1 DEF GeneratedKeys
  <2> QED BY <1>1, <2>1, <2>2, <2>3, <2>4
<1> QED BY <1>2, <1>3, <1>4

(* What the giant steps' boundaries say of the counter of the diagonals.    *)
LEMMA CounterFacts ==
  ASSUME NEW b \in {2, 8, 12}, NEW n \in Nat
  PROVE  /\ n % b \in 0 .. b - 1
         /\ n - (n % b) \in Nat
         /\ 0 % b = 0
         /\ n + 1 >= b /\ (n + 1) % b # 0 => n >= b
<1>1. CASE b = 2
  BY <1>1
<1>2. CASE b = 8
  BY <1>2
<1>3. CASE b = 12
  BY <1>3
<1> QED BY <1>1, <1>2, <1>3

Legal(c) == c \in Ciphertext /\ c.legal

(* Level of the operands of each layer's products. *)
Start == <<0, 7, 14>>

(* What the multiplications, the rotations and the bias of a layer work on. *)
Operand(c) == Sound(c, Start[layer], 1, 2)
Product(c) == Sound(c, Start[layer], 2, 2)

(* The ciphertext a layer is entered with: from the second layer on it      *)
(* still has to be rescaled.                                               *)
LayerInput(c) ==
  IF layer = 1 THEN Operand(c) ELSE Sound(c, Start[layer] - 1, 2, 2)

LEMMA WeightTyped ==
  ASSUME NEW l \in 1 .. 3, NEW d \in Nat, d < Shape[l].diagonals
  PROVE  WeightOperand(l, d) \in Vector
<1>1. Shape[1].diagonals = 128 /\ Shape[2].diagonals = 64 /\ Shape[3].diagonals = 2
  BY DEF Shape
<1>2. CASE l = 1
  BY <1>1, <1>2, OperandTyped DEF WeightOperand
<1>3. CASE l = 2
  BY <1>1, <1>3, OperandTyped DEF WeightOperand
<1>4. CASE l = 3
  BY <1>1, <1>4, OperandTyped DEF WeightOperand
<1> QED BY <1>2, <1>3, <1>4

LEMMA BiasOperandTyped ==
  ASSUME NEW l \in 1 .. 3
  PROVE  BiasOperand(l) \in Vector
BY StoreServesCircuit, BiasTyped

(* Levels and scales of every register at every step: what makes           *)
(* NoIllegalStep and ReadyToDecrypt inductive.                             *)
KernelInv ==
  /\ x \in Features
  /\ layer \in 1 .. 3
  /\ step \in {"encrypt", "baby", "multiply", "giant", "fold", "activate", "decrypt", "done"}
  /\ k \in 0 .. 128
  /\ \A c \in {ct, part, acc} : c = None \/ Legal(c)
  /\ logits \in [0 .. N_OUT - 1 -> Value] \union {<< >>}
  /\ step = "encrypt" => layer = 1
  /\ step = "baby" => LayerInput(ct)
  /\ step \in {"multiply", "giant"} =>
        /\ baby \in [0 .. Babies - 1 -> Ciphertext]
        /\ \A r \in 0 .. Babies - 1 : Operand(baby[r])
  /\ step = "multiply" => /\ k < Diagonals
                          /\ k % Babies # 0 => Product(part)
                          /\ k >= Babies => Product(acc)
  /\ step = "giant" => /\ k \in 1 .. Diagonals
                       /\ Product(part)
                       /\ k > Babies => Product(acc)
  /\ step = "fold" => /\ k \in 1 .. Len(Folds) + 1
                      /\ Product(acc)
  /\ step = "activate" => layer # 3 /\ Sound(ct, Start[layer] + 1, 1, 2)
  /\ step = "decrypt" => Sound(ct, Depth, 1, 2)

LEMMA SoundIsLegal ==
  ASSUME NEW l, NEW d, NEW p, NEW c, Sound(c, l, d, p)
  PROVE  Legal(c)
BY DEF Sound, Legal

LEMMA StartFacts ==
  ASSUME layer \in 1 .. 3
  PROVE  /\ Start[layer] \in 0 .. 14
         /\ layer # 1 => Start[layer] \in 7 .. 14
         /\ layer # 3 => Start[layer] + 7 = Start[layer + 1]
         /\ layer = 1 => Start[layer] = 0
         /\ layer = 3 => Start[layer] = 14
BY DEF Start

LEMMA InitEstablishes == Init => KernelInv
<1> SUFFICES ASSUME Init PROVE KernelInv
  OBVIOUS
<1>1. logits \in [0 .. N_OUT - 1 -> Value] \union {<< >>}
  BY DEF Init
<1> QED BY <1>1 DEF Init, KernelInv

LEMMA EncryptPreserves ==
  ASSUME KernelInv, Encrypt
  PROVE  KernelInv'
<1>1. Sound(ct', 0, 1, 2)
  BY PackedTyped, EncryptedSound DEF KernelInv, Encrypt
<1>2. layer' = 1 /\ Start[layer'] = 0
  BY DEF KernelInv, Encrypt, Start
<1>3. LayerInput(ct)'
  BY <1>1, <1>2 DEF LayerInput, Operand
<1>4. Legal(ct')
  BY <1>1, SoundIsLegal
<1> QED BY <1>2, <1>3, <1>4 DEF KernelInv, Encrypt

LEMMA BabyStepsPreserve ==
  ASSUME KernelInv, BabySteps
  PROVE  KernelInv'
<1>0. layer \in 1 .. 3 /\ LayerInput(ct)
  BY DEF KernelInv, BabySteps
<1>1. \A r \in 0 .. Babies - 1 :
        Operand(Lowered(IF r = 0 THEN ct ELSE EvalRotate(ct, r)))
  <2> SUFFICES ASSUME NEW r \in 0 .. Babies - 1
               PROVE  Operand(Lowered(IF r = 0 THEN ct ELSE EvalRotate(ct, r)))
    OBVIOUS
  <2> DEFINE c == IF r = 0 THEN ct ELSE EvalRotate(ct, r)
  <2>1. r # 0 => r \in RotationKeys
    BY <1>0, ShapeFacts
  <2>2. LayerInput(c)
    BY <1>0, <2>1, RotateSound DEF LayerInput, Operand
  <2>3. CASE layer = 1
    BY <2>2, <2>3 DEF LayerInput, Lowered
  <2>4. CASE layer # 1
    <3>1. Sound(c, Start[layer] - 1, 2, 2)
      BY <2>2, <2>4 DEF LayerInput
    <3>2. /\ Start[layer] - 1 \in Nat /\ Start[layer] - 1 < Depth
          /\ (Start[layer] - 1) + 1 = Start[layer]
      BY <1>0, <2>4, StartFacts, ParametersAssumption
    <3>3. Sound(ModReduce(c), (Start[layer] - 1) + 1, 2 - 1, 2)
      BY <3>1, <3>2, ModReduceSound
    <3> QED BY <2>4, <3>2, <3>3 DEF Operand, Lowered
  <2> QED BY <2>3, <2>4
<1>2. Babies' = Babies /\ Diagonals' = Diagonals /\ layer' = layer
  BY DEF BabySteps, Babies, Diagonals
<1>3. \A r \in 0 .. Babies - 1 : Operand(baby[r])' /\ baby'[r] \in Ciphertext
  BY <1>1, <1>2 DEF BabySteps, Operand, Sound
<1>4. baby' \in [0 .. Babies - 1 -> Ciphertext]
  BY <1>3 DEF BabySteps
<1>5. 0 < Diagonals /\ 0 % Babies = 0 /\ ~(0 >= Babies)
  <2>1. Babies \in {2, 8, 12} /\ Diagonals \in 2 .. 128 /\ 0 \in Nat
    BY <1>0, ShapeFacts
  <2>2. 0 % Babies = 0
    BY <2>1, CounterFacts
  <2> QED BY <2>1, <2>2
<1>6. k' = 0 /\ step' = "multiply" /\ UNCHANGED <<x, layer, ct, part, acc, logits>>
  BY DEF BabySteps
<1> QED BY <1>2, <1>3, <1>4, <1>5, <1>6 DEF KernelInv

LEMMA MultiplyPreserves ==
  ASSUME KernelInv, Multiply
  PROVE  KernelInv'
<1> DEFINE r == k % Babies
           term == EvalMultPlain(baby[r], WeightOperand(layer, k))
<1>0. /\ layer \in 1 .. 3 /\ k \in 0 .. 128 /\ k < Diagonals
      /\ \A i \in 0 .. Babies - 1 : Operand(baby[i])
      /\ r # 0 => Product(part)
      /\ k >= Babies => Product(acc)
  BY DEF KernelInv, Multiply
<1>1. r \in 0 .. Babies - 1 /\ k - r \in Nat
  <2>1. Babies \in {2, 8, 12} /\ k \in Nat
    BY <1>0, ShapeFacts
  <2> QED BY <2>1, CounterFacts
<1>2. Product(term)
  <2>1. WeightOperand(layer, k) \in Vector
    BY <1>0, WeightTyped DEF Diagonals
  <2>2. Fits(Start[layer], 1 + 1)
    BY <1>0, StartFacts, ParametersAssumption DEF Fits
  <2>3. Sound(term, Start[layer], 1 + 1, 2)
    BY <1>0, <1>1, <2>1, <2>2, MultPlainSound DEF Operand
  <2> QED BY <2>3 DEF Product
<1>3. part' = IF r = 0 THEN term ELSE EvalAdd(part, term)
  BY DEF Multiply
<1>4. /\ k' = k + 1 /\ step' = IF k' % Babies = 0 \/ k' = Diagonals THEN "giant" ELSE step
      /\ step = "multiply" /\ UNCHANGED <<x, layer, ct, baby, acc, logits>>
  BY DEF Multiply
<1> HIDE DEF term
<1>5. Product(part)' /\ Legal(part')
  <2>1. Sound(part', Start[layer], 2, 2)
    BY <1>0, <1>2, <1>3, AddSound DEF Product
  <2> QED BY <1>4, <2>1, SoundIsLegal DEF Product
<1>6. Babies' = Babies /\ Diagonals' = Diagonals
  BY <1>4 DEF Babies, Diagonals
<1>7. k' \in 1 .. Diagonals /\ k' \in 0 .. 128
  <2>1. Diagonals \in 2 .. 128 /\ k' = k + 1
    BY <1>0, <1>4, ShapeFacts
  <2> QED BY <1>0, <2>1
<1>8. k' # Diagonals => k' < Diagonals
  <2>1. Diagonals \in 2 .. 128
    BY <1>0, ShapeFacts
  <2> QED BY <1>7, <2>1
<1>9. step' = "giant" \/ (step' = "multiply" /\ k' % Babies # 0 /\ k' < Diagonals)
  BY <1>4, <1>8
<1>10. /\ k' > Babies => Product(acc)'
       /\ k' >= Babies /\ k' % Babies # 0 => Product(acc)'
  <2>0. Babies \in {2, 8, 12} /\ k \in Nat /\ k' = k + 1
    BY <1>0, <1>4, ShapeFacts
  <2>1. k' > Babies => k >= Babies
    BY <2>0
  <2>2. k' >= Babies /\ k' % Babies # 0 => k >= Babies
    BY <2>0, CounterFacts
  <2> QED BY <1>0, <1>4, <2>1, <2>2 DEF Product
<1>11. \A i \in 0 .. Babies - 1 : Operand(baby[i])'
  BY <1>0, <1>4 DEF Operand
<1> QED BY <1>4, <1>5, <1>6, <1>7, <1>9, <1>10, <1>11 DEF KernelInv

LEMMA GiantStepPreserves ==
  ASSUME KernelInv, GiantStep
  PROVE  KernelInv'
<1> DEFINE by == ((k - 1) \div Babies) * Babies
<1>0. /\ layer \in 1 .. 3 /\ k \in 1 .. Diagonals /\ k \in 0 .. 128
      /\ Product(part)
      /\ k > Babies => Product(acc)
  BY DEF KernelInv, GiantStep
<1>1. (by = 0 <=> k <= Babies) /\ (by = 0 \/ by \in RotationKeys)
  BY <1>0, ShapeFacts
<1>2. Babies \in {2, 8, 12} /\ Diagonals \in 2 .. 128
  BY <1>0, ShapeFacts
<1>3. acc' = IF by = 0 THEN part ELSE EvalAdd(acc, EvalRotate(part, by))
  BY DEF GiantStep
<1>4. /\ step = "giant" /\ UNCHANGED <<x, layer, ct, baby, part, logits>>
      /\ \/ k < Diagonals /\ step' = "multiply" /\ k' = k
         \/ step' = "fold" /\ k' = 1
  BY DEF GiantStep
<1> HIDE DEF by
<1>5. Product(acc)' /\ Legal(acc')
  <2>1. CASE by = 0
    BY <1>0, <1>3, <1>4, <2>1, SoundIsLegal DEF Product
  <2>2. CASE by # 0
    <3>1. Product(acc)
      BY <1>0, <1>1, <1>2, <2>2
    <3>2. Sound(EvalRotate(part, by), Start[layer], 2, 2)
      BY <1>0, <1>1, <2>2, RotateSound DEF Product
    <3>3. Sound(acc', Start[layer], 2, 2)
      BY <1>3, <2>2, <3>1, <3>2, AddSound DEF Product
    <3> QED BY <1>4, <3>3, SoundIsLegal DEF Product
  <2> QED BY <2>1, <2>2
<1>6. Babies' = Babies /\ Diagonals' = Diagonals /\ Folds' = Folds /\ Product(part)'
  BY <1>0, <1>4 DEF Babies, Diagonals, Folds, Product
<1>7. /\ step' = "multiply" => /\ baby' \in [0 .. Babies' - 1 -> Ciphertext]
                               /\ \A i \in 0 .. Babies' - 1 : Operand(baby[i])'
  BY <1>4, <1>6 DEF KernelInv, Operand
<1>8. step' = "fold" => k' \in 1 .. Len(Folds') + 1 /\ k' \in 0 .. 128
  BY <1>0, <1>4, <1>6, ShapeFacts
<1>9. /\ k' \in 0 .. 128
      /\ step' = "multiply" => k' < Diagonals'
  BY <1>0, <1>4, <1>6
<1> QED BY <1>4, <1>5, <1>6, <1>7, <1>8, <1>9 DEF KernelInv

LEMMA FoldPreserves ==
  ASSUME KernelInv, Fold
  PROVE  KernelInv'
<1> DEFINE addend == IF k = Len(Folds) THEN EvalAddPlain(acc, BiasOperand(layer)) ELSE acc
<1>0. /\ layer \in 1 .. 3 /\ k \in 1 .. Len(Folds) + 1 /\ k <= Len(Folds)
      /\ Len(Folds) \in 0 .. 5
      /\ Product(acc)
  BY ShapeFacts DEF KernelInv, Fold
<1>1. Sound(addend, Start[layer], 2, 2)
  <2>1. Sound(acc, Start[layer], 2, 2) /\ BiasOperand(layer) \in Vector /\ 2 \in 1 .. 4
    BY <1>0, BiasOperandTyped DEF Product
  <2>2. Sound(EvalAddPlain(acc, BiasOperand(layer)), Start[layer], 2, 2)
    BY <2>1, AddPlainSound
  <2> QED BY <2>1, <2>2
<1>2. Sound(EvalRotate(acc, Folds[k]), Start[layer], 2, 2)
  <2>1. Folds[k] \in RotationKeys
    BY <1>0, ShapeFacts
  <2> QED BY <1>0, <2>1, RotateSound DEF Product
<1>3. /\ acc' = EvalAdd(addend, EvalRotate(acc, Folds[k]))
      /\ step = "fold" /\ k' = k + 1
      /\ UNCHANGED <<x, layer, step, ct, baby, part, logits>>
  BY DEF Fold
<1> HIDE DEF addend
<1>4. Product(acc)' /\ Legal(acc')
  <2>1. Sound(acc', Start[layer], 2, 2)
    BY <1>1, <1>2, <1>3, AddSound
  <2> QED BY <1>3, <2>1, SoundIsLegal DEF Product
<1>5. Folds' = Folds /\ k' \in 1 .. Len(Folds) + 1 /\ k' \in 0 .. 128
  BY <1>0, <1>3 DEF Folds
<1> QED BY <1>3, <1>4, <1>5 DEF KernelInv

LEMMA EndLayerPreserves ==
  ASSUME KernelInv, EndLayer
  PROVE  KernelInv'
<1> DEFINE sum == IF Folds = << >> THEN EvalAddPlain(acc, BiasOperand(layer)) ELSE acc
<1>0. layer \in 1 .. 3 /\ Product(acc) /\ Start[layer] \in Nat /\ Start[layer] < Depth
  BY StartFacts, ParametersAssumption DEF KernelInv, EndLayer
<1>1. Sound(sum, Start[layer], 2, 2)
  <2>1. Sound(EvalAddPlain(acc, BiasOperand(layer)), Start[layer], 2, 2)
    BY <1>0, BiasOperandTyped, AddPlainSound DEF Product
  <2>2. Sound(acc, Start[layer], 2, 2)
    BY <1>0 DEF Product
  <2> QED BY <2>1, <2>2
<1>2. Sound(ModReduce(sum), Start[layer] + 1, 1, 2)
  <2>1. Sound(ModReduce(sum), Start[layer] + 1, 2 - 1, 2)
    BY <1>0, <1>1, ModReduceSound
  <2> QED BY <2>1
<1>3. /\ ct' = ModReduce(sum)
      /\ step' = IF layer = 3 THEN "decrypt" ELSE "activate"
      /\ UNCHANGED <<x, layer, k, baby, part, acc, logits>>
  BY DEF EndLayer
<1> HIDE DEF sum
<1>4. step' = "activate" => layer' # 3 /\ Sound(ct', Start[layer'] + 1, 1, 2)
  BY <1>2, <1>3
<1>5. step' = "decrypt" => Sound(ct', Depth, 1, 2)
  BY <1>0, <1>2, <1>3, StartFacts, ParametersAssumption
<1>6. Legal(ct')
  BY <1>2, <1>3, SoundIsLegal
<1>7. step' \in {"activate", "decrypt"}
  BY <1>3
<1> QED BY <1>3, <1>4, <1>5, <1>6, <1>7 DEF KernelInv

LEMMA ActivatePreserves ==
  ASSUME KernelInv, Activate
  PROVE  KernelInv'
<1>0. layer \in 1 .. 2 /\ Sound(ct, Start[layer] + 1, 1, 2)
  BY DEF KernelInv, Activate
<1>1. /\ Start[layer] + 1 \in Nat
      /\ (Start[layer] + 1) + 6 <= Depth
      /\ (Start[layer] + 1) + 5 = Start[layer + 1] - 1
  BY <1>0, ParametersAssumption DEF Start
<1>2. /\ ct' = ChebyRelu(ct) /\ layer' = layer + 1 /\ step' = "baby"
      /\ UNCHANGED <<x, k, baby, part, acc, logits>>
  BY DEF Activate
<1>3. Sound(ct', Start[layer + 1] - 1, 2, 2)
  <2>1. 0 \in Slot
    BY EvaluatorAssumption DEF Slot
  <2>2. Sound(ChebyRelu(ct), (Start[layer] + 1) + 5, 2, 2)
    BY <1>0, <1>1, <2>1, ReluSound DEF Means
  <2> QED BY <1>1, <1>2, <2>2
<1>4. LayerInput(ct)'
  BY <1>0, <1>2, <1>3 DEF LayerInput
<1>5. Legal(ct') /\ layer' \in 1 .. 3
  BY <1>0, <1>2, <1>3, SoundIsLegal
<1> QED BY <1>2, <1>4, <1>5 DEF KernelInv

LEMMA DecryptResultPreserves ==
  ASSUME KernelInv, DecryptResult
  PROVE  KernelInv'
<1>0. Sound(ct, Depth, 1, 2)
  BY DEF KernelInv, DecryptResult
<1>1. \A i \in 0 .. N_OUT - 1 : Layout - N_OUT + i \in Slot
  <2>1. Layout \in Nat /\ Layout >= N_OUT
    <3>1. Layout \in Nat \ {0} /\ Layout % 128 = 0
      BY KernelAssumption DEF N_H1
    <3> QED BY <3>1 DEF N_OUT
  <2>2. Layout <= Slots
    <3>1. \A n, m \in Nat : n < m => n % m = n
      OBVIOUS
    <3> QED BY <2>1, <3>1, EvaluatorAssumption, KernelAssumption
  <2> QED BY <2>1, <2>2, EvaluatorAssumption DEF Slot, N_OUT
<1>2. \A i \in 0 .. N_OUT - 1 : ct.slots[Layout - N_OUT + i] \otimes DeltaInv \in Value
  BY <1>0, <1>1, SlotsTyped, ValueClosed, EvaluatorAssumption DEF Sound
<1>3. /\ logits' = [i \in 0 .. N_OUT - 1 |->
                     ct.slots[Layout - N_OUT + i] \otimes DeltaInv]
      /\ step' = "done" /\ UNCHANGED <<x, layer, k, ct, baby, part, acc>>
  BY DEF DecryptResult
<1>4. logits' \in [0 .. N_OUT - 1 -> Value]
  BY <1>2, <1>3
<1> QED BY <1>3, <1>4 DEF KernelInv

LEMMA StutterPreserves ==
  ASSUME KernelInv, UNCHANGED vars
  PROVE  KernelInv'
<1>1. Babies' = Babies /\ Diagonals' = Diagonals /\ Folds' = Folds
  BY DEF vars, Babies, Diagonals, Folds
<1>2. \A c : (Operand(c)' <=> Operand(c)) /\ (Product(c)' <=> Product(c))
            /\ (LayerInput(c)' <=> LayerInput(c))
  BY DEF vars, Operand, Product, LayerInput
<1> QED BY <1>1, <1>2 DEF vars, KernelInv, Operand, Product, LayerInput

(* The levels and scales of KernelInv hold in every reachable state.        *)
THEOREM LevelsAndScales == Spec => []KernelInv
<1>1. Init => KernelInv
  BY InitEstablishes
<1>2. KernelInv /\ [Next]_vars => KernelInv'
  BY EncryptPreserves, BabyStepsPreserve, MultiplyPreserves, GiantStepPreserves,
     FoldPreserves, EndLayerPreserves, ActivatePreserves, DecryptResultPreserves,
     StutterPreserves DEF Next, Done
<1> QED BY <1>1, <1>2, PTL DEF Spec

(* Every register holds a ciphertext and every counter stays in the range   *)
(* of its layer, for all weights, transactions and slot counts.            *)
THEOREM KernelTypeCorrect == Spec => []TypeOK
<1>1. KernelInv => TypeOK
  BY DEF KernelInv, TypeOK, Registers, Legal
<1> QED BY <1>1, LevelsAndScales, PTL

(* With 15 levels and the 26 rotation keys the kernel never asks the        *)
(* library for an operation it refuses, and never adds or multiplies        *)
(* operands whose scales or moduli differ.                                 *)
THEOREM StepsAreLegal == Spec => []NoIllegalStep
<1>1. KernelInv => NoIllegalStep
  BY DEF KernelInv, NoIllegalStep, Registers, Legal
<1> QED BY <1>1, LevelsAndScales, PTL

(* The result the client decrypts has a scale of one Delta, which is what   *)
(* it sets it to, and has used up all 15 levels.                           *)
THEOREM ResultIsReady == Spec => []ReadyToDecrypt
<1>1. KernelInv => ReadyToDecrypt
  BY DEF KernelInv, ReadyToDecrypt, Sound
<1> QED BY <1>1, LevelsAndScales, PTL
(* The plaintext under every number the circuit uses is the pre-rotated     *)
(* diagonal, the bias or the constant it means, at every step.             *)
THEOREM OperandsAreInPlace == Spec => []OperandsInPlace
<1>1. KernelInv => OperandsInPlace
  <2> SUFFICES ASSUME KernelInv PROVE OperandsInPlace
    OBVIOUS
  <2>1. layer \in 1 .. 3
    BY DEF KernelInv
  <2>2. ASSUME step = "multiply"
        PROVE  WeightOperand(layer, k) = PreRotated(layer, k, k - (k % Babies))
    <3>1. k \in 0 .. Shape[layer].diagonals - 1
      <4>1. k \in 0 .. 128 /\ k < Diagonals /\ Diagonals \in 2 .. 128
        BY <2>1, <2>2, ShapeFacts DEF KernelInv
      <4> QED BY <4>1 DEF Diagonals
    <3> QED BY <2>1, <3>1, StoreServesCircuit DEF StepOf, Babies
  <2>3. BiasOperand(layer) = BiasPlain(layer)
    BY <2>1, StoreServesCircuit
  <2> QED BY <2>2, <2>3, StoreServesCircuit DEF OperandsInPlace
<1> QED BY <1>1, LevelsAndScales, PTL
-----------------------------------------------------------------------------
(* Values *)

(* A baby step's rotation; the sums of a layer after n diagonals of which   *)
(* the giant steps have taken b, the products since then still rotated;    *)
(* and the sum after n - 1 folds, to which the last adds the bias.         *)
Rotated(e, c, r) == \A s \in Slot : Val(e, s) = Val(c, (s + r) % Slots)

Collected(c, l, a, n) == \A s \in Slot : Val(a, s) = Row(c, l, s, Period(l), n)

Pending(c, l, p, b, n) ==
  \A s \in Slot : Row(c, l, s, Period(l), b) \oplus Val(p, (s + b) % Slots)
                    = Row(c, l, s, Period(l), n)

Summed(c, l, a, p, b, n) ==
  /\ b > 0 => Collected(c, l, a, b)
  /\ n > b => Pending(c, l, p, b, n)

Cycle(l, n) == << <<128>>, <<128, 64>>, <<64, 32, 16, 8, 4, 2>> >>[l][n]

BiasOf(l, i) == CASE l = 1 -> b1[i] [] l = 2 -> b2[i] [] l = 3 -> b3[i]

Folded(c, l, a, n) ==
  \A s \in Slot :
    LET row == Row(c, l, s, Cycle(l, n), Shape[l].diagonals)
    IN  Val(a, s) = IF l # 1 /\ n = Len(Shape[l].folds) + 1
                    THEN row \oplus BiasOf(l, s % Rows(l)) ELSE row

(* What the registers stand for at every step: what makes EverySlotFilled   *)
(* inductive and ties the circuit to the network in the clear.             *)
ValueInv ==
  /\ step = "encrypt" => ct = None
  /\ step # "encrypt" => Stands(ct) /\ Repeats(ct, Width)
  /\ step \in {"multiply", "giant"} => \A r \in 0 .. Babies - 1 : Rotated(baby[r], ct, r)
  /\ step = "multiply" => Summed(ct, layer, acc, part, k - (k % Babies), k)
  /\ step = "giant" => /\ Summed(ct, layer, acc, part, ((k - 1) \div Babies) * Babies, k)
                       /\ k % Babies = 0 \/ k = Diagonals
  /\ step = "fold" => Folded(ct, layer, acc, k)

LEMMA ModAdd ==
  ASSUME NEW n \in Nat \ {0}, NEW a \in Int, NEW b \in Int
  PROVE  /\ ((a % n) + b) % n = (a + b) % n
         /\ ((a % n) - b) % n = (a - b) % n
<1> DEFINE q == a \div n  r == a % n
<1>1. a = n * q + r /\ q \in Int /\ r \in Int
  OBVIOUS
<1> HIDE DEF q, r
<1>2. \A i, j \in Int : (i + n * j) % n = i % n
  <2> TAKE i, j \in Int
  <2> DEFINE m == i \div n  c == i % n
  <2>1. i = n * m + c /\ m \in Int /\ c \in 0 .. n - 1
    OBVIOUS
  <2> HIDE DEF m, c
  <2>2. i + n * j = n * (m + j) + c /\ m + j \in Int
    BY <2>1
  <2>3. \A d \in Int, e \in 0 .. n - 1 : (n * d + e) % n = e
    OBVIOUS
  <2> QED BY <2>1, <2>2, <2>3 DEF c
<1>3. a + b = (r + b) + n * q /\ a - b = (r - b) + n * q /\ r + b \in Int /\ r - b \in Int
  BY <1>1
<1>4. (r + b) % n = (a + b) % n /\ (r - b) % n = (a - b) % n
  BY <1>1, <1>2, <1>3
<1> QED BY <1>4 DEF r

LEMMA SoundStands ==
  ASSUME NEW c, NEW v \in Nat, NEW d \in 1 .. 2, Sound(c, v, d, 2)
  PROVE  Stands(c)
BY DEF Stands

(* The values of a layout at any slot of the ciphertext.                    *)
LEMMA PackedAt ==
  ASSUME NEW v \in Features, NEW s \in Slot
  PROVE  PackedInput(v)[s] = IF s % 128 < N_IN THEN v[s % 128] ELSE 0
<1>1. s \in Nat /\ s % Layout \in 0 .. Layout - 1
  BY LayoutsDivide DEF Slot
<1>2. (s % Layout) % 128 = s % 128
  <2>1. 128 \in Widths
    BY DEF Widths
  <2> QED BY <1>1, <2>1, WidthsDivide
<1>3. IsFeature(s % Layout) <=> (s % Layout) % 128 < N_IN
  BY <1>1 DEF IsFeature, N_IN
<1> QED BY <1>1, <1>2, <1>3 DEF PackedInput, Fill

LEMMA BiasAt ==
  ASSUME NEW l \in 1 .. 3, NEW s \in Slot
  PROVE  BiasOperand(l)[s] = BiasOf(l, s % Rows(l)) /\ BiasOf(l, s % Rows(l)) \in Value
<1>1. s \in Nat /\ s % Layout \in 0 .. Layout - 1
  BY LayoutsDivide DEF Slot
<1>2. (s % Layout) % Rows(l) = s % Rows(l)
  <2>1. Rows(l) \in Widths
    BY LayerFacts DEF Widths
  <2> QED BY <1>1, <2>1, WidthsDivide
<1>3. BiasOperand(l)[s] = Bias(l, s % Layout)
  BY <1>1, StoreServesCircuit DEF BiasPlain, Fill
<1>4. Bias(l, s % Layout) = BiasOf(l, (s % Layout) % Rows(l))
  BY DEF Bias, BiasOf, Rows, N_H1, N_H2, N_OUT
<1>5. BiasOperand(l) \in Vector
  BY BiasOperandTyped
<1>6. BiasOperand(l)[s] \in Value
  BY <1>5 DEF Vector
<1> QED BY <1>2, <1>3, <1>4, <1>6

LEMMA InitValues ==
  ASSUME Init
  PROVE  ValueInv
BY DEF Init, ValueInv

LEMMA EncryptValues ==
  ASSUME KernelInv, ValueInv, Encrypt
  PROVE  ValueInv' /\ clearStage' = clearStage /\ clearVec' = clearVec
<1>1. x \in Features /\ layer = 1 /\ step = "encrypt"
  BY DEF KernelInv, Encrypt
<1>2. ct' = Encrypted(PackedInput(x)) /\ step' = "baby" /\ UNCHANGED <<x, layer>>
  BY DEF Encrypt
<1>3. PackedInput(x) \in Vector
  BY <1>1, PackedTyped
<1>4. Stands(ct')
  BY <1>2, <1>3, EncryptedSound, SoundStands
<1>5. \A s \in Slot : Val(ct', s) = IF s % 128 < N_IN THEN x[s % 128] ELSE 0
  BY <1>1, <1>2, <1>3, EncryptedVal, PackedAt
<1>6. Width' = 128
  BY <1>1, <1>2 DEF Width, N_H1
<1>7. Repeats(ct', 128)
  <2> SUFFICES ASSUME NEW s \in Slot PROVE Val(ct', s) = Val(ct', s % 128)
    BY DEF Repeats
  <2>1. s \in Int /\ 128 \in Widths
    BY DEF Slot, Widths
  <2>2. s % 128 \in Slot
    BY <2>1, WidthsDivide
  <2>3. (s % 128) % 128 = s % 128
    BY <2>1
  <2> QED BY <1>5, <2>2, <2>3
<1>8. ValueInv'
  BY <1>2, <1>4, <1>6, <1>7 DEF ValueInv
<1>9. clearStage' = "x" /\ clearStage = "x"
  BY <1>1, <1>2 DEF clearStage
<1>10. clearVec = x
  BY <1>1 DEF clearVec
<1>11. clearVec' = [i \in 0 .. N_IN - 1 |-> Decoded(ct')[i]]
  BY <1>2, <1>9 DEF clearVec, clearWidth
<1>12. \A i \in 0 .. N_IN - 1 : Decoded(ct')[i] = x[i]
  <2> TAKE i \in 0 .. N_IN - 1
  <2>1. i \in Slot /\ i % 128 = i /\ i < N_IN
    BY LayoutsDivide DEF Slot, N_IN
  <2> QED BY <1>5, <2>1 DEF Decoded, Val
<1>13. x = [i \in 0 .. N_IN - 1 |-> x[i]]
  BY <1>1, InputAssumption
<1> QED BY <1>8, <1>9, <1>10, <1>11, <1>12, <1>13

LEMMA BabyStepsValues ==
  ASSUME KernelInv, ValueInv, BabySteps
  PROVE  ValueInv'
<1>1. /\ layer \in 1 .. 3 /\ step = "baby" /\ LayerInput(ct)
      /\ Stands(ct) /\ Repeats(ct, Width)
  BY DEF KernelInv, ValueInv, BabySteps
<1>2. /\ baby' = [r \in 0 .. Babies - 1 |-> Lowered(IF r = 0 THEN ct ELSE EvalRotate(ct, r))]
      /\ k' = 0 /\ step' = "multiply" /\ UNCHANGED <<layer, ct>>
  BY DEF BabySteps
<1>3. Babies' = Babies /\ Width' = Width
  BY <1>1, <1>2 DEF Babies, Width
<1>4. \A e : Sound(e, Start[layer] - 1, 2, 2) => \A s \in Slot : Val(ModReduce(e), s) = Val(e, s)
  <2>1. 1 \in 1 .. 3 /\ 2 = 1 + 1
    OBVIOUS
  <2> QED BY <2>1, ModReduceVal
<1>5. ASSUME NEW r \in 0 .. Babies - 1
      PROVE  Rotated(baby'[r], ct, r)
  <2> DEFINE e == IF r = 0 THEN ct ELSE EvalRotate(ct, r)
  <2>1. baby'[r] = Lowered(e)
    BY <1>2
  <2>2. \A s \in Slot : Val(e, s) = Val(ct, (s + r) % Slots)
    <3>1. \A s \in Slot : (s + 0) % Slots = s
      BY LayoutsDivide DEF Slot
    <3>2. CASE r = 0
      BY <3>1, <3>2
    <3>3. CASE r # 0
      BY <3>3, RotateVal
    <3> QED BY <3>2, <3>3
  <2>3. layer # 1 => Sound(e, Start[layer] - 1, 2, 2)
    <3>1. r # 0 => r \in RotationKeys
      <4>1. Babies \in Nat
        BY <1>1, ShapeFacts
      <4> QED BY <1>1, <4>1, ShapeFacts
    <3> QED BY <1>1, <3>1, RotateSound DEF LayerInput
  <2> HIDE DEF e
  <2>4. \A s \in Slot : Val(Lowered(e), s) = Val(e, s)
    BY <1>4, <2>3 DEF Lowered
  <2> QED BY <2>1, <2>2, <2>4 DEF Rotated
<1>6. k' - (k' % Babies') = 0
  <2>1. Babies \in {2, 8, 12}
    BY <1>1, ShapeFacts
  <2> QED BY <1>2, <1>3, <2>1
<1>7. Summed(ct', layer', acc', part', k' - (k' % Babies'), k')
  BY <1>2, <1>6 DEF Summed
<1> QED BY <1>1, <1>2, <1>3, <1>5, <1>7 DEF ValueInv

(* A product at the slot it is rotated to is the term of its diagonal.      *)
LEMMA TermAt ==
  ASSUME KernelInv, ValueInv, step = "multiply", NEW s \in Slot
  PROVE  LET by == k - (k % Babies)
             term == EvalMultPlain(baby[k % Babies], WeightOperand(layer, k))
         IN  Val(term, (s + by) % Slots)
               = Val(ct, (s + k) % Slots) \otimes Diagonal(layer, k, s % Layout)
<1> DEFINE r == k % Babies
           by == k - r
           t == (s + by) % Slots
<1>1. /\ layer \in 1 .. 3 /\ k \in 0 .. 128 /\ k < Diagonals
      /\ \A i \in 0 .. Babies - 1 : Operand(baby[i])
      /\ \A i \in 0 .. Babies - 1 : Rotated(baby[i], ct, i)
  BY DEF KernelInv, ValueInv
<1>2. r \in 0 .. Babies - 1 /\ by \in Nat /\ by + r = k /\ r \in Nat
  <2>1. Babies \in {2, 8, 12} /\ k \in Nat
    BY <1>1, ShapeFacts
  <2> QED BY <2>1, CounterFacts
<1>3. WeightOperand(layer, k) = PreRotated(layer, k, by) /\ WeightOperand(layer, k) \in Vector
  <2>1. k \in 0 .. Shape[layer].diagonals - 1
    <3>1. Diagonals \in 2 .. 128
      BY <1>1, ShapeFacts
    <3> QED BY <1>1, <3>1 DEF Diagonals
  <2>2. WeightOperand(layer, k) \in Vector
    BY <1>1, WeightTyped DEF Diagonals
  <2> QED BY <1>1, <2>1, <2>2, StoreServesCircuit DEF StepOf, Babies
<1>4. s \in Nat /\ s \in Int /\ t \in Slot /\ t \in Int
  <2>1. s + by \in Int /\ s \in Nat
    BY <1>2 DEF Slot
  <2> QED BY <2>1, LayoutsDivide DEF Slot
<1>5. Operand(baby[r]) /\ Rotated(baby[r], ct, r)
  BY <1>1, <1>2
<1> HIDE DEF r, by
<1>6. Val(EvalMultPlain(baby[r], WeightOperand(layer, k)), t)
        = Val(ct, (t + r) % Slots) \otimes PreRotated(layer, k, by)[t]
  <2>1. 1 \in 1 .. 3
    OBVIOUS
  <2>2. Sound(baby[r], Start[layer], 1, 2)
    BY <1>5 DEF Operand
  <2>3. Val(EvalMultPlain(baby[r], WeightOperand(layer, k)), t)
          = Val(baby[r], t) \otimes WeightOperand(layer, k)[t]
    BY <1>3, <1>4, <2>1, <2>2, MultPlainVal
  <2> QED BY <1>3, <1>4, <1>5, <2>3 DEF Rotated
<1>7. (t + r) % Slots = (s + k) % Slots
  <2>1. s + by \in Int /\ (s + by) + r = s + k /\ r \in Int
    BY <1>2, <1>4
  <2> QED BY <2>1, LayoutsDivide, ModAdd
<1>8. PreRotated(layer, k, by)[t] = Diagonal(layer, k, s % Layout)
  <2>1. t % Layout \in 0 .. Layout - 1
    BY <1>4, LayoutsDivide
  <2>2. PreRotated(layer, k, by)[t] = Diagonal(layer, k, ((t % Layout) - by) % Layout)
    BY <1>4, <2>1 DEF PreRotated, Fill
  <2>3. Layout % Layout = 0
    BY LayoutsDivide
  <2>4. s + by \in Int /\ (s + by) - by = s /\ by \in Int
    BY <1>2, <1>4
  <2>5. t % Layout = (s + by) % Layout
    BY <2>3, <2>4, LayoutsDivide, WidthDivides
  <2>6. (((s + by) % Layout) - by) % Layout = ((s + by) - by) % Layout
    BY <2>4, LayoutsDivide, ModAdd
  <2> QED BY <2>2, <2>4, <2>5, <2>6
<1> QED BY <1>6, <1>7, <1>8 DEF t, by, r

LEMMA MultiplyValues ==
  ASSUME KernelInv, ValueInv, Multiply
  PROVE  ValueInv'
<1> DEFINE r == k % Babies
           by == k - r
           term == EvalMultPlain(baby[r], WeightOperand(layer, k))
           row(s, n) == Row(ct, layer, s, Period(layer), n)
           new(s) == Val(ct, (s + k) % Slots) \otimes Diagonal(layer, k, s % Layout)
<1>1. /\ layer \in 1 .. 3 /\ step = "multiply" /\ k \in 0 .. 128 /\ k < Diagonals
      /\ Stands(ct) /\ Repeats(ct, Width)
      /\ \A i \in 0 .. Babies - 1 : Operand(baby[i]) /\ Rotated(baby[i], ct, i)
      /\ r # 0 => Product(part)
      /\ Summed(ct, layer, acc, part, by, k)
  BY DEF KernelInv, ValueInv, Multiply
<1>2. /\ part' = IF r = 0 THEN term ELSE EvalAdd(part, term)
      /\ k' = k + 1
      /\ step' = IF k' % Babies = 0 \/ k' = Diagonals THEN "giant" ELSE step
      /\ UNCHANGED <<layer, ct, baby, acc>>
  BY DEF Multiply
<1>3. /\ r \in 0 .. Babies - 1 /\ by \in Nat /\ by + r = k /\ r \in Nat
      /\ k' % Babies # 0 => k' - (k' % Babies) = by
      /\ ((k' - 1) \div Babies) * Babies = by
  <2>1. Babies \in {2, 8, 12} /\ k \in Nat /\ k' = k + 1
    BY <1>1, <1>2, ShapeFacts
  <2>2. CASE Babies = 2
    BY <2>1, <2>2
  <2>3. CASE Babies = 8
    BY <2>1, <2>3
  <2>4. CASE Babies = 12
    BY <2>1, <2>4
  <2> QED BY <2>1, <2>2, <2>3, <2>4
<1>4. Babies' = Babies /\ Diagonals' = Diagonals /\ Width' = Width /\ Width = Period(layer)
  BY <1>1, <1>2 DEF Babies, Diagonals, Width, Period, N_H1, N_H2
<1>5. k \in 0 .. Period(layer) - 1
  <2>1. Diagonals <= Period(layer) /\ Diagonals \in {2, 64, 128} /\ Period(layer) \in {64, 128}
    BY <1>1, LayerFacts DEF Diagonals
  <2> QED BY <1>1, <2>1
<1>6. Product(term)
  <2>1. WeightOperand(layer, k) \in Vector
    BY <1>1, WeightTyped DEF Diagonals
  <2>2. Fits(Start[layer], 1 + 1)
    BY <1>1, StartFacts, ParametersAssumption DEF Fits
  <2>3. Sound(term, Start[layer], 1 + 1, 2)
    BY <1>1, <1>3, <2>1, <2>2, MultPlainSound DEF Operand
  <2> QED BY <2>3 DEF Product
<1>7. ASSUME NEW s \in Slot
      PROVE  row(s, by) \oplus Val(part', (s + by) % Slots) = row(s, k + 1)
  <2> DEFINE t == (s + by) % Slots
  <2>1. t \in Slot /\ s \in Nat
    BY <1>3, LayoutsDivide DEF Slot
  <2>2. Val(term, t) = new(s)
    BY <1>1, TermAt
  <2>3. row(s, k + 1) = row(s, k) \oplus new(s)
    BY <1>1, <1>4, <1>5, RowGrows
  <2>4. row(s, by) \in Int /\ row(s, k) \in Int
    BY <1>1, <2>1, RowTyped
  <2>5. r = 0 => by = k
    BY <1>3
  <2> HIDE DEF t, term, row, new, by, r
  <2>6. CASE r = 0
    BY <1>2, <2>2, <2>3, <2>5, <2>6 DEF t
  <2>7. CASE r # 0
    <3>1. 2 \in 1 .. 4 /\ Sound(part, Start[layer], 2, 2) /\ Sound(term, Start[layer], 2, 2)
      BY <1>1, <1>6, <2>7 DEF Product
    <3>2. Val(part', t) = Val(part, t) \oplus Val(term, t)
      BY <1>2, <2>1, <2>7, <3>1, AddVal
    <3>3. row(s, by) \oplus Val(part, t) = row(s, k)
      <4>1. k > by
        BY <1>3, <2>7
      <4> QED BY <1>1, <4>1 DEF Summed, Pending, row, t
    <3>4. Val(part, t) \in Int /\ Val(term, t) \in Int
      BY <2>1, <3>1, ValTyped
    <3>5. row(s, by) \oplus (Val(part, t) \oplus Val(term, t))
            = (row(s, by) \oplus Val(part, t)) \oplus Val(term, t)
      BY <2>4, <3>4, Ring
    <3> QED BY <2>2, <2>3, <3>2, <3>3, <3>5 DEF t
  <2> QED BY <2>6, <2>7 DEF by, r
<1>8. Summed(ct, layer, acc, part', by, k + 1)
  BY <1>1, <1>7 DEF Summed, Pending
<1> HIDE DEF r, by
<1>9. step' = "multiply" => Summed(ct', layer', acc', part', k' - (k' % Babies'), k')
  BY <1>1, <1>2, <1>3, <1>4, <1>8
<1>10. step' = "giant" =>
         /\ Summed(ct', layer', acc', part', ((k' - 1) \div Babies') * Babies', k')
         /\ k' % Babies' = 0 \/ k' = Diagonals'
  BY <1>1, <1>2, <1>3, <1>4, <1>8
<1>11. step' \in {"multiply", "giant"}
  BY <1>1, <1>2
<1> QED BY <1>1, <1>2, <1>4, <1>9, <1>10, <1>11 DEF ValueInv

LEMMA GiantStepValues ==
  ASSUME KernelInv, ValueInv, GiantStep
  PROVE  ValueInv'
<1> DEFINE by == ((k - 1) \div Babies) * Babies
           row(s, n) == Row(ct, layer, s, Period(layer), n)
<1>1. /\ layer \in 1 .. 3 /\ step = "giant" /\ k \in 1 .. Diagonals /\ k \in 0 .. 128
      /\ Product(part)
      /\ k > Babies => Product(acc)
      /\ Stands(ct) /\ Repeats(ct, Width)
      /\ \A i \in 0 .. Babies - 1 : Rotated(baby[i], ct, i)
      /\ Summed(ct, layer, acc, part, by, k)
      /\ k % Babies = 0 \/ k = Diagonals
  BY DEF KernelInv, ValueInv, GiantStep
<1>2. /\ acc' = IF by = 0 THEN part ELSE EvalAdd(acc, EvalRotate(part, by))
      /\ \/ k < Diagonals /\ step' = "multiply" /\ k' = k
         \/ ~ (k < Diagonals) /\ step' = "fold" /\ k' = 1
      /\ UNCHANGED <<layer, ct, baby, part>>
  BY DEF GiantStep
<1>3. /\ Babies \in {2, 8, 12} /\ Diagonals \in 2 .. 128
      /\ by = 0 <=> k <= Babies
      /\ by = 0 \/ by \in RotationKeys
  BY <1>1, ShapeFacts
<1>4. by \in Nat /\ by < k
  <2>1. CASE Babies = 2
    BY <1>1, <2>1
  <2>2. CASE Babies = 8
    BY <1>1, <2>2
  <2>3. CASE Babies = 12
    BY <1>1, <2>3
  <2> QED BY <1>3, <2>1, <2>2, <2>3
<1>5. /\ Babies' = Babies /\ Diagonals' = Diagonals /\ Width' = Width
      /\ Diagonals = Shape[layer].diagonals
  BY <1>1, <1>2 DEF Babies, Diagonals, Width
<1> HIDE DEF by
<1>6. ASSUME NEW s \in Slot
      PROVE  Val(acc', s) = row(s, k)
  <2> DEFINE t == (s + by) % Slots
  <2>1. t \in Slot /\ s \in Nat /\ (s + 0) % Slots = s /\ s + 0 = s
    BY <1>4, LayoutsDivide DEF Slot
  <2>2. row(s, by) \oplus Val(part, t) = row(s, k)
    BY <1>1, <1>4 DEF Summed, Pending
  <2>3. 2 \in 1 .. 4 /\ Sound(part, Start[layer], 2, 2)
    BY <1>1 DEF Product
  <2>4. CASE by = 0
    <3>1. Val(part, t) = Val(part, s) /\ Val(acc', s) = Val(part, s)
      BY <1>2, <2>1, <2>4
    <3>2. row(s, by) = 0
      <4>1. Period(layer) \in Nat \ {0}
        BY <1>1, LayerFacts
      <4> QED BY <1>1, <2>1, <2>4, <4>1, RowEmpty
    <3>3. 0 \oplus Val(part, s) = Val(part, s)
      BY <2>3, ValTyped, Unit
    <3> QED BY <2>2, <3>1, <3>2, <3>3
  <2>5. CASE by # 0
    <3>1. Sound(acc, Start[layer], 2, 2)
      BY <1>1, <1>3, <2>5 DEF Product
    <3>2. Sound(EvalRotate(part, by), Start[layer], 2, 2)
      BY <1>3, <2>3, <2>5, RotateSound
    <3>3. Val(acc', s) = Val(acc, s) \oplus Val(EvalRotate(part, by), s)
      BY <1>2, <2>3, <2>5, <3>1, <3>2, AddVal
    <3>4. Val(EvalRotate(part, by), s) = Val(part, t)
      BY RotateVal
    <3>5. Val(acc, s) = row(s, by)
      BY <1>1, <1>4, <2>5 DEF Summed, Collected
    <3> QED BY <2>2, <3>3, <3>4, <3>5
  <2> QED BY <2>4, <2>5
<1>7. step' = "multiply" => Summed(ct', layer', acc', part', k' - (k' % Babies'), k')
  <2> SUFFICES ASSUME step' = "multiply"
               PROVE  Summed(ct', layer', acc', part', k' - (k' % Babies'), k')
    OBVIOUS
  <2>1. k' = k /\ k % Babies = 0 /\ k - (k % Babies) = k /\ ~ (k > k)
    BY <1>1, <1>2, <1>3
  <2>2. Summed(ct, layer, acc', part, k, k)
    BY <1>6, <2>1 DEF Summed, Collected
  <2> QED BY <1>2, <1>5, <2>1, <2>2
<1>8. step' = "fold" => Folded(ct', layer', acc', k')
  <2> SUFFICES ASSUME step' = "fold" PROVE Folded(ct, layer, acc', 1)
    BY <1>2
  <2>1. k = Diagonals
    BY <1>1, <1>2, <1>3
  <2>2. Cycle(layer, 1) = Period(layer) /\ ~ (layer # 1 /\ 1 = Len(Shape[layer].folds) + 1)
    BY <1>1 DEF Cycle, Period, Shape
  <2> QED BY <1>5, <1>6, <2>1, <2>2 DEF Folded
<1>9. step' \in {"multiply", "fold"}
  BY <1>2
<1> QED BY <1>1, <1>2, <1>5, <1>7, <1>8, <1>9 DEF ValueInv

(* A fold's rotation is half the cycle it shortens.                        *)
LEMMA FoldFacts ==
  ASSUME NEW l \in 1 .. 3, NEW n \in 1 .. Len(Shape[l].folds)
  PROVE  LET m == Shape[l].folds[n]
         IN  /\ m \in Halves /\ m \in RotationKeys /\ l # 1
             /\ Cycle(l, n) = 2 * m /\ Cycle(l, n + 1) = m
             /\ Shape[l].diagonals \in 0 .. m
             /\ \A a \in Nat : (a + m) % Rows(l) = a % Rows(l)
<1>1. GeneratedKeys \subseteq RotationKeys
  BY ParametersAssumption
<1>2. l # 1
  BY DEF Shape
<1>3. CASE l = 2
  <2>1. Shape[l].folds = <<64>> /\ Shape[l].diagonals = 64 /\ Rows(l) = 64
    BY <1>3 DEF Shape, Rows, N_H2
  <2>2. n = 1 /\ Shape[l].folds[n] = 64
    BY <2>1
  <2>3. Cycle(l, 1) = 128 /\ Cycle(l, 1 + 1) = 64
    BY <1>3 DEF Cycle
  <2>4. \A a \in Nat : (a + 64) % 64 = a % 64
    OBVIOUS
  <2>5. 64 \in GeneratedKeys /\ 64 \in Halves
    BY DEF GeneratedKeys, Halves
  <2> QED BY <1>1, <1>2, <2>1, <2>2, <2>3, <2>4, <2>5
<1>4. CASE l = 3
  <2>1. /\ Shape[l].folds = <<32, 16, 8, 4, 2>> /\ Shape[l].diagonals = 2 /\ Rows(l) = 2
        /\ Len(Shape[l].folds) = 5
    BY <1>4 DEF Shape, Rows, N_OUT
  <2>2. Cycle(l, n) = <<64, 32, 16, 8, 4, 2>>[n] /\ Cycle(l, n + 1) = <<64, 32, 16, 8, 4, 2>>[n + 1]
    BY <1>4 DEF Cycle
  <2> DEFINE m == Shape[l].folds[n]
  <2>3. /\ m \in {32, 16, 8, 4, 2}
        /\ Cycle(l, n) = 2 * m /\ Cycle(l, n + 1) = m
    <3>1. n \in {1, 2, 3, 4, 5}
      BY <2>1
    <3>2. CASE n = 1
      BY <2>1, <2>2, <3>2
    <3>3. CASE n = 2
      BY <2>1, <2>2, <3>3
    <3>4. CASE n = 3
      BY <2>1, <2>2, <3>4
    <3>5. CASE n = 4
      BY <2>1, <2>2, <3>5
    <3>6. CASE n = 5
      BY <2>1, <2>2, <3>6
    <3> QED BY <3>1, <3>2, <3>3, <3>4, <3>5, <3>6
  <2> HIDE DEF m
  <2>4. m \in GeneratedKeys /\ m \in Halves /\ 2 \in 0 .. m
    BY <2>3 DEF GeneratedKeys, Halves
  <2>5. \A a \in Nat : (a + m) % 2 = a % 2
    BY <2>3
  <2> QED BY <1>1, <1>2, <2>1, <2>3, <2>4, <2>5 DEF m
<1> QED BY <1>2, <1>3, <1>4

LEMMA FoldValues ==
  ASSUME KernelInv, ValueInv, Fold
  PROVE  ValueInv'
<1> DEFINE n == Folds[k]
           last == k = Len(Folds)
           addend == IF last THEN EvalAddPlain(acc, BiasOperand(layer)) ELSE acc
           d == Diagonals
<1>1. /\ layer \in 1 .. 3 /\ step = "fold" /\ k \in 1 .. Len(Folds) + 1 /\ k <= Len(Folds)
      /\ Len(Folds) \in 0 .. 5
      /\ Product(acc) /\ Folded(ct, layer, acc, k)
      /\ Stands(ct) /\ Repeats(ct, Width)
  BY ShapeFacts DEF KernelInv, ValueInv, Fold
<1>2. /\ acc' = EvalAdd(addend, EvalRotate(acc, n))
      /\ step' = "fold" /\ k' = k + 1
      /\ UNCHANGED <<layer, ct>>
  BY DEF Fold
<1>3. Width' = Width /\ Folds = Shape[layer].folds /\ d = Shape[layer].diagonals
  BY <1>1, <1>2 DEF Width, Folds, Diagonals
<1>4. /\ n \in Halves /\ n \in RotationKeys /\ layer # 1
      /\ Cycle(layer, k) = 2 * n /\ Cycle(layer, k + 1) = n
      /\ d \in 0 .. n
      /\ \A a \in Nat : (a + n) % Rows(layer) = a % Rows(layer)
  <2>1. k \in 1 .. Len(Shape[layer].folds)
    BY <1>1, <1>3
  <2> QED BY <1>1, <1>3, <2>1, FoldFacts
<1>5. 2 \in 1 .. 4 /\ Sound(acc, Start[layer], 2, 2)
  BY <1>1 DEF Product
<1>6. /\ Sound(addend, Start[layer], 2, 2)
      /\ Sound(EvalRotate(acc, n), Start[layer], 2, 2)
  <2>1. BiasOperand(layer) \in Vector
    BY <1>1, BiasOperandTyped
  <2>2. Sound(EvalAddPlain(acc, BiasOperand(layer)), Start[layer], 2, 2)
    BY <1>5, <2>1, AddPlainSound
  <2> QED BY <1>4, <1>5, <2>2, RotateSound
<1>7. ASSUME NEW s \in Slot
      PROVE  LET row == Row(ct, layer, s, n, d)
             IN  Val(acc', s) = IF last THEN row \oplus BiasOf(layer, s % Rows(layer)) ELSE row
  <2> DEFINE t == (s + n) % Slots
             p == Row(ct, layer, s, 2 * n, d)
             q == Row(ct, layer, t, 2 * n, d)
             b == BiasOf(layer, s % Rows(layer))
  <2>1. s \in Nat /\ n \in Nat /\ t \in Slot /\ t \in Nat
    BY <1>4, LayoutsDivide DEF Slot, Halves
  <2>2. Val(acc, s) = p /\ Val(acc, t) = q
    <3>1. k # Len(Shape[layer].folds) + 1
      BY <1>1, <1>3
    <3> QED BY <1>1, <1>3, <1>4, <2>1, <3>1 DEF Folded
  <2>3. p \oplus q = Row(ct, layer, s, n, d)
    BY <1>1, <1>4, <2>1, RowFolds
  <2>4. p \in Int /\ q \in Int /\ b \in Int
    BY <1>1, <2>1, RowTyped, BiasAt DEF Value
  <2>5. Val(acc', s) = Val(addend, s) \oplus q
    <3>1. Val(EvalRotate(acc, n), s) = Val(acc, t)
      BY RotateVal
    <3> HIDE DEF addend, t, q, n
    <3>2. Val(EvalAdd(addend, EvalRotate(acc, n)), s)
            = Val(addend, s) \oplus Val(EvalRotate(acc, n), s)
      BY <1>5, <1>6, AddVal
    <3> QED BY <1>2, <2>2, <3>1, <3>2
  <2>6. Val(addend, s) = IF last THEN p \oplus b ELSE p
    <3>1. BiasOperand(layer) \in Vector /\ BiasOperand(layer)[s] = b
      BY <1>1, BiasOperandTyped, BiasAt
    <3>2. Val(EvalAddPlain(acc, BiasOperand(layer)), s) = p \oplus b
      BY <1>5, <2>2, <3>1, AddPlainVal
    <3> QED BY <2>2, <3>2
  <2> HIDE DEF p, q, b, addend
  <2>7. (p \oplus b) \oplus q = (p \oplus q) \oplus b
    <3>1. (p \oplus b) \oplus q = p \oplus (b \oplus q) /\ (p \oplus q) \oplus b = p \oplus (q \oplus b)
      BY <2>4, Ring
    <3>2. b \oplus q = q \oplus b
      BY <2>4, Ring
    <3> QED BY <3>1, <3>2
  <2> QED BY <2>3, <2>5, <2>6, <2>7 DEF b
<1>8. Folded(ct, layer, acc', k + 1)
  <2>1. k + 1 = Len(Shape[layer].folds) + 1 <=> last
    BY <1>1, <1>3
  <2> QED BY <1>3, <1>4, <1>7, <2>1 DEF Folded
<1> QED BY <1>1, <1>2, <1>3, <1>8 DEF ValueInv

(* What a layer's product gives at row i, from the values of its input.      *)
LayerValue(c, l, i) == Sum(Cols(l), ProductTerms(c, l, i)) \oplus BiasOf(l, i)

(* The layer ends with every row of its product, repeated through all slots. *)
LEMMA LayerEnds ==
  ASSUME KernelInv, ValueInv, EndLayer
  PROVE  Stands(ct') /\ \A s \in Slot : Val(ct', s) = LayerValue(ct, layer, s % Rows(layer))
<1> DEFINE d == Diagonals
           sum == IF Folds = << >> THEN EvalAddPlain(acc, BiasOperand(layer)) ELSE acc
<1>1. /\ layer \in 1 .. 3 /\ Product(acc) /\ Folded(ct, layer, acc, k)
      /\ Stands(ct) /\ k = Len(Folds) + 1
      /\ Start[layer] \in Nat /\ Start[layer] < Depth
  <2>1. k \in 1 .. Len(Folds) + 1 /\ k > Len(Folds) /\ layer \in 1 .. 3
    BY DEF KernelInv, EndLayer
  <2>2. Len(Folds) \in 0 .. 5
    BY <2>1, ShapeFacts
  <2>3. k = Len(Folds) + 1
    BY <2>1, <2>2
  <2> QED BY <2>3, StartFacts, ParametersAssumption DEF KernelInv, ValueInv, EndLayer
<1>2. ct' = ModReduce(sum)
  BY DEF EndLayer
<1>3. /\ d = Shape[layer].diagonals /\ Folds = Shape[layer].folds
      /\ Cycle(layer, k) = d /\ d \in Nat \ {0}
      /\ Folds = << >> <=> layer = 1
  <2>1. CASE layer = 1
    BY <1>1, <2>1 DEF Cycle, Shape, Folds, Diagonals
  <2>2. CASE layer = 2
    <3>1. Folds = <<64>> /\ d = 64
      BY <2>2 DEF Shape, Folds, Diagonals
    <3>2. k = 2
      BY <1>1, <3>1
    <3> QED BY <2>2, <3>1, <3>2 DEF Cycle, Shape, Folds, Diagonals
  <2>3. CASE layer = 3
    <3>1. Folds = <<32, 16, 8, 4, 2>> /\ d = 2
      BY <2>3 DEF Shape, Folds, Diagonals
    <3>2. k = 6
      BY <1>1, <3>1
    <3> QED BY <2>3, <3>1, <3>2 DEF Cycle, Shape, Folds, Diagonals
  <2> QED BY <1>1, <2>1, <2>2, <2>3
<1>4. Sound(acc, Start[layer], 2, 2) /\ 2 \in 1 .. 4 /\ BiasOperand(layer) \in Vector
  BY <1>1, BiasOperandTyped DEF Product
<1>5. Sound(EvalAddPlain(acc, BiasOperand(layer)), Start[layer], 2, 2)
  BY <1>4, AddPlainSound
<1>6. Sound(sum, Start[layer], 2, 2)
  BY <1>4, <1>5
<1>7. ASSUME NEW s \in Slot
      PROVE  Val(sum, s) = LayerValue(ct, layer, s % Rows(layer))
  <2> DEFINE row == Row(ct, layer, s, d, d)
             b == BiasOf(layer, s % Rows(layer))
  <2>1. s \in Nat
    BY LayoutsDivide DEF Slot
  <2>2. row = Sum(Cols(layer), ProductTerms(ct, layer, s % Rows(layer)))
    <3> HIDE DEF d
    <3> QED BY <1>1, <1>3, <2>1, RowFull
  <2>3. Val(acc, s) = IF layer = 1 THEN row ELSE row \oplus b
    BY <1>1, <1>3 DEF Folded
  <2>4. BiasOperand(layer)[s] = b
    BY <1>1, BiasAt
  <2>5. Val(EvalAddPlain(acc, BiasOperand(layer)), s) = Val(acc, s) \oplus b
    BY <1>4, <2>4, AddPlainVal
  <2> HIDE DEF row, b
  <2>6. Val(sum, s) = row \oplus b
    BY <1>3, <2>3, <2>5
  <2> QED BY <2>2, <2>6 DEF LayerValue, b
<1> HIDE DEF sum, d
<1>8. Sound(ModReduce(sum), Start[layer] + 1, 1, 2)
  <2>1. Sound(ModReduce(sum), Start[layer] + 1, 2 - 1, 2)
    BY <1>1, <1>6, ModReduceSound
  <2> QED BY <2>1
<1>9. \A s \in Slot : Val(ModReduce(sum), s) = Val(sum, s)
  <2>1. 1 \in 1 .. 3 /\ Sound(sum, Start[layer], 1 + 1, 2)
    BY <1>6
  <2> QED BY <2>1, ModReduceVal
<1>10. Stands(ct')
  <2>1. Start[layer] + 1 \in Nat /\ 1 \in 1 .. 2
    BY <1>1
  <2> QED BY <1>2, <1>8, <2>1, SoundStands
<1> QED BY <1>2, <1>7, <1>9, <1>10

LEMMA EndLayerValues ==
  ASSUME KernelInv, ValueInv, EndLayer
  PROVE  ValueInv'
<1>1. layer \in 1 .. 3
  BY DEF KernelInv
<1>2. /\ step' = IF layer = 3 THEN "decrypt" ELSE "activate"
      /\ layer' = layer
  BY DEF EndLayer
<1>3. Width' = Rows(layer)
  <2>1. CASE layer = 1
    BY <1>2, <2>1 DEF Width, Rows, Shape, N_H1
  <2>2. CASE layer = 2
    BY <1>2, <2>2 DEF Width, Rows, Shape, N_H2
  <2>3. CASE layer = 3
    BY <1>2, <2>3 DEF Width, Rows
  <2> QED BY <1>1, <2>1, <2>2, <2>3
<1>4. Repeats(ct', Rows(layer))
  <2> SUFFICES ASSUME NEW s \in Slot PROVE Val(ct', s) = Val(ct', s % Rows(layer))
    BY DEF Repeats
  <2>1. s \in Nat /\ s \in Int /\ Rows(layer) \in Widths /\ Rows(layer) \in Nat \ {0}
    BY <1>1, LayoutsDivide, LayerFacts DEF Slot, Widths
  <2>2. s % Rows(layer) \in Slot
    BY <2>1, WidthsDivide
  <2>3. (s % Rows(layer)) % Rows(layer) = s % Rows(layer)
    BY <2>1
  <2> QED BY <2>2, <2>3, LayerEnds
<1>5. step' \in {"decrypt", "activate"}
  BY <1>2
<1> QED BY <1>3, <1>4, <1>5, LayerEnds DEF ValueInv

LEMMA ActivationAt ==
  ASSUME KernelInv, ValueInv, Activate
  PROVE  /\ Stands(ct')
         /\ \A s \in Slot : Val(ct', s) = Clear!cheby_relu(Val(ct, s))
         /\ Repeats(ct, Rows(layer)) /\ Rows(layer) \in {64, 128}
         /\ layer \in 1 .. 2
<1>1. layer \in 1 .. 2 /\ Sound(ct, Start[layer] + 1, 1, 2) /\ step = "activate"
  BY DEF KernelInv, Activate
<1>2. /\ Start[layer] + 1 \in Nat /\ (Start[layer] + 1) + 6 <= Depth
      /\ (Start[layer] + 1) + 5 \in Nat
  BY <1>1, ParametersAssumption DEF Start
<1>3. ct' = ChebyRelu(ct)
  BY DEF Activate
<1>4. \A s \in Slot : /\ Sound(ct', (Start[layer] + 1) + 5, 2, 2)
                      /\ Val(ct', s) = Clear!cheby_relu(Val(ct, s))
  <2> TAKE s \in Slot
  <2>1. Means(ChebyRelu(ct), s, (Start[layer] + 1) + 5, 2, 2, Clear!cheby_relu(Val(ct, s)))
    BY <1>1, <1>2, ReluSound
  <2> QED BY <1>3, <2>1 DEF Means
<1>5. 0 \in Slot /\ 2 \in 1 .. 2
  BY LayoutsDivide DEF Slot
<1>6. Stands(ct')
  BY <1>2, <1>4, <1>5, SoundStands
<1>7. Width = Rows(layer) /\ Rows(layer) \in {64, 128}
  <2>1. CASE layer = 1
    BY <1>1, <2>1 DEF Width, Rows, Shape, N_H1
  <2>2. CASE layer = 2
    BY <1>1, <2>2 DEF Width, Rows, Shape, N_H2
  <2> QED BY <1>1, <2>1, <2>2
<1>8. Repeats(ct, Rows(layer))
  BY <1>1, <1>7 DEF ValueInv
<1> QED BY <1>1, <1>4, <1>6, <1>7, <1>8

LEMMA ActivateValues ==
  ASSUME KernelInv, ValueInv, Activate
  PROVE  ValueInv'
<1>1. step' = "baby" /\ layer' = layer + 1
  BY DEF Activate
<1>2. Width' = Rows(layer)
  <2>1. layer \in 1 .. 2
    BY ActivationAt
  <2>2. CASE layer = 1
    BY <1>1, <2>2 DEF Width, Rows
  <2>3. CASE layer = 2
    BY <1>1, <2>3 DEF Width, Rows
  <2> QED BY <2>1, <2>2, <2>3
<1>3. Repeats(ct', Rows(layer))
  <2> SUFFICES ASSUME NEW s \in Slot PROVE Val(ct', s) = Val(ct', s % Rows(layer))
    BY DEF Repeats
  <2>1. s \in Int /\ Rows(layer) \in Widths
    BY ActivationAt DEF Slot, Widths
  <2>2. s % Rows(layer) \in Slot
    BY <2>1, WidthsDivide
  <2>3. Val(ct, s) = Val(ct, s % Rows(layer))
    BY ActivationAt DEF Repeats
  <2> QED BY <2>2, <2>3, ActivationAt
<1> QED BY <1>1, <1>2, <1>3, ActivationAt DEF ValueInv

LEMMA DecryptValues ==
  ASSUME KernelInv, ValueInv, DecryptResult
  PROVE  ValueInv'
<1>1. step = "decrypt" /\ step' = "done" /\ UNCHANGED <<layer, ct>>
  BY DEF DecryptResult
<1>2. Width' = Width
  BY <1>1 DEF Width
<1> QED BY <1>1, <1>2 DEF ValueInv

LEMMA StutterValues ==
  ASSUME ValueInv, UNCHANGED vars
  PROVE  ValueInv'
<1>1. UNCHANGED <<x, layer, step, k, ct, baby, part, acc, logits>>
  BY DEF vars
<1>2. Babies' = Babies /\ Diagonals' = Diagonals /\ Width' = Width
  BY <1>1 DEF Babies, Diagonals, Width
<1> QED BY <1>1, <1>2 DEF ValueInv

(* In every reachable state the registers stand for the partial sums of the *)
(* layer's product, and the vector is repeated through all slots.          *)
THEOREM ValuesHold == Spec => [](KernelInv /\ ValueInv)
<1>1. Init => KernelInv /\ ValueInv
  BY InitEstablishes, InitValues
<1>2. KernelInv /\ ValueInv /\ [Next]_vars => (KernelInv /\ ValueInv)'
  <2> SUFFICES ASSUME KernelInv, ValueInv, [Next]_vars PROVE KernelInv' /\ ValueInv'
    OBVIOUS
  <2>1. KernelInv'
    BY EncryptPreserves, BabyStepsPreserve, MultiplyPreserves, GiantStepPreserves,
       FoldPreserves, EndLayerPreserves, ActivatePreserves, DecryptResultPreserves,
       StutterPreserves DEF Next, Done
  <2>2. ValueInv'
    BY EncryptValues, BabyStepsValues, MultiplyValues, GiantStepValues, FoldValues,
       EndLayerValues, ActivateValues, DecryptValues, StutterValues DEF Next, Done
  <2> QED BY <2>1, <2>2
<1> QED BY <1>1, <1>2, PTL DEF Spec

LEMMA SlotsFromValues ==
  ASSUME NEW c, Stands(c), NEW m \in Widths, Repeats(c, m), NEW s \in Slot
  PROVE  c.slots[s] = c.slots[s % m]
<1>1. PICK v \in Nat, d \in 1 .. 2 : Sound(c, v, d, 2)
  BY DEF Stands
<1>2. d \in 1 .. 4
  OBVIOUS
<1>3. ASSUME NEW t \in Slot
      PROVE  c.slots[t] = Val(c, t) \otimes Power(Delta, d)
  <2> DEFINE a == c.slots[t]
             u == Power(Delta, d)
             w == Power(DeltaInv, d)
  <2>1. a \in Value /\ a \in Int /\ c.degree = d
    BY <1>1 DEF Sound, Ciphertext, Vector, Value
  <2>2. u \in Int /\ w \in Int /\ u \otimes w = 1
    BY <1>2, Inverse, PowerTyped, PowerCancel
  <2>3. Val(c, t) = a \otimes w
    BY <2>1 DEF Val
  <2> HIDE DEF a, u, w
  <2>4. (a \otimes w) \otimes u = a \otimes (w \otimes u) /\ w \otimes u = u \otimes w
    BY <2>1, <2>2, Ring
  <2> QED BY <2>1, <2>2, <2>3, <2>4, Unit DEF a, u
<1>4. s \in Int
  BY DEF Slot
<1>5. s % m \in Slot
  BY <1>4, WidthsDivide
<1> QED BY <1>3, <1>5 DEF Repeats

(* Between the layers the vector fills the whole ciphertext: in every        *)
(* reachable state, for all weights and slot counts, all slots whose numbers *)
(* agree modulo the width of the vector hold the same value.               *)
THEOREM SlotsAreFilled == Spec => []EverySlotFilled
<1>1. KernelInv /\ ValueInv => EverySlotFilled
  <2> SUFFICES ASSUME KernelInv, ValueInv, ct # None, NEW s \in Slot
               PROVE  ct.slots[s] = ct.slots[s % Width]
    BY DEF EverySlotFilled
  <2>1. step # "encrypt" /\ Stands(ct) /\ Repeats(ct, Width)
    BY DEF ValueInv
  <2>2. Width \in Widths
    <3>1. layer \in 1 .. 3 /\ (step = "activate" => layer # 3)
      BY DEF KernelInv
    <3>2. Shape[1].diagonals = 128 /\ Shape[2].diagonals = 64
      BY DEF Shape
    <3> QED BY <3>1, <3>2 DEF Width, Widths, N_H1, N_H2, N_OUT
  <2> QED BY <2>1, <2>2, SlotsFromValues
<1> QED BY <1>1, ValuesHold, PTL

-----------------------------------------------------------------------------
(* The network in the clear *)

LEMMA DecodedAt ==
  ASSUME NEW c, NEW i \in 0 .. 127
  PROVE  i \in Slot /\ Decoded(c)[i] = Val(c, i)
<1>1. i \in Slot
  BY LayoutsDivide DEF Slot
<1> QED BY <1>1 DEF Decoded, Val

(* Each stage of the kernel seen as a stage of the network.                 *)
LEMMA ClearInLayer ==
  ASSUME layer \in 1 .. 3, step \in {"baby", "multiply", "giant", "fold"}
  PROVE  /\ clearStage = <<"x", "h1", "h2">>[layer]
         /\ clearVec = [i \in 0 .. Cols(layer) - 1 |-> Val(ct, i)]
<1>1. clearStage = <<"x", "h1", "h2">>[layer]
  BY DEF clearStage
<1>2. clearWidth = Cols(layer)
  <2>1. CASE layer = 1
    BY <1>1, <2>1 DEF clearWidth, Cols
  <2>2. CASE layer = 2
    BY <1>1, <2>2 DEF clearWidth, Width, Cols
  <2>3. CASE layer = 3
    BY <1>1, <2>3 DEF clearWidth, Width, Cols
  <2> QED BY <2>1, <2>2, <2>3
<1>3. Cols(layer) \in Nat /\ Cols(layer) <= 128
  BY LayerFacts
<1>4. clearVec = [i \in 0 .. Cols(layer) - 1 |-> Decoded(ct)[i]]
  BY <1>2 DEF clearVec
<1>5. \A i \in 0 .. Cols(layer) - 1 : Decoded(ct)[i] = Val(ct, i)
  BY <1>3, DecodedAt
<1> QED BY <1>1, <1>4, <1>5

LEMMA ClearHeld ==
  ASSUME layer \in 1 .. 3, step \in {"baby", "multiply", "giant", "fold"},
         step' \in {"baby", "multiply", "giant", "fold"}, UNCHANGED <<layer, ct>>
  PROVE  UNCHANGED <<clearStage, clearVec>>
<1>1. clearStage' = clearStage
  BY DEF clearStage
<1>2. Width' = Width
  BY DEF Width
<1>3. clearWidth' = clearWidth
  BY <1>1, <1>2 DEF clearWidth
<1>4. clearVec' = clearVec
  BY <1>3 DEF clearVec
<1> QED BY <1>1, <1>4

LayerValues(c, l) == [i \in 0 .. Rows(l) - 1 |-> LayerValue(c, l, i)]

LEMMA MatvecIs ==
  ASSUME NEW c, NEW l \in 1 .. 3, NEW W, NEW b, NEW v,
         \A i \in 0 .. Rows(l) - 1, j \in 0 .. Cols(l) - 1 : W[i][j] = Weight(l, i, j),
         \A i \in 0 .. Rows(l) - 1 : b[i] = BiasOf(l, i),
         \A j \in 0 .. Cols(l) - 1 : v[j] = Val(c, j)
  PROVE  Clear!Matvec(Rows(l), Cols(l), W, b, v) = LayerValues(c, l)
<1> DEFINE terms(i) == [j \in 0 .. Cols(l) - 1 |-> W[i][j] \otimes v[j]]
<1>1. Clear!Matvec(Rows(l), Cols(l), W, b, v) =
        [i \in 0 .. Rows(l) - 1 |-> Sum(Cols(l), terms(i)) \oplus b[i]]
  BY DEF Clear!Matvec, Sum, Clear!\oplus, \oplus, Clear!\otimes, \otimes
<1>2. ASSUME NEW i \in 0 .. Rows(l) - 1
      PROVE  Sum(Cols(l), terms(i)) \oplus b[i] = LayerValue(c, l, i)
  <2>1. \A j \in 0 .. Cols(l) - 1 : terms(i)[j] = ProductTerms(c, l, i)[j]
    BY DEF ProductTerms
  <2>2. Cols(l) \in Nat
    BY LayerFacts
  <2> HIDE DEF terms
  <2>3. Sum(Cols(l), terms(i)) = Sum(Cols(l), ProductTerms(c, l, i))
    BY <2>1, <2>2, SumEqual
  <2> QED BY <2>3 DEF LayerValue
<1> HIDE DEF terms
<1> QED BY <1>1, <1>2 DEF LayerValues

(* The end of a layer is the product by its matrix and the bias.            *)
LEMMA EndLayerRefines ==
  ASSUME KernelInv, ValueInv, EndLayer
  PROVE  Clear!Next
<1>1. layer \in 1 .. 3 /\ step = "fold"
  BY DEF KernelInv, EndLayer
<1>2. step' = (IF layer = 3 THEN "decrypt" ELSE "activate") /\ layer' = layer
  BY DEF EndLayer
<1>3. /\ clearStage = <<"x", "h1", "h2">>[layer]
      /\ clearVec = [i \in 0 .. Cols(layer) - 1 |-> Val(ct, i)]
  BY <1>1, ClearInLayer
<1>4. clearStage' = <<"z1", "z2", "logits">>[layer]
  BY <1>1, <1>2 DEF clearStage
<1>5. clearVec' = LayerValues(ct, layer)
  <2>1. clearWidth' = Rows(layer)
    <3>1. CASE layer = 1
      BY <1>2, <1>4, <3>1 DEF clearWidth, Width, Rows, Shape, N_H1
    <3>2. CASE layer = 2
      BY <1>2, <1>4, <3>2 DEF clearWidth, Width, Rows, Shape, N_H2
    <3>3. CASE layer = 3
      BY <1>2, <1>4, <3>3 DEF clearWidth, Width, Rows
    <3> QED BY <1>1, <3>1, <3>2, <3>3
  <2>2. clearVec' = [i \in 0 .. Rows(layer) - 1 |-> Decoded(ct')[i]]
    BY <1>2, <2>1 DEF clearVec
  <2>3. Rows(layer) \in {2, 64, 128}
    BY <1>1, LayerFacts
  <2>4. \A i \in 0 .. Rows(layer) - 1 : Decoded(ct')[i] = LayerValue(ct, layer, i)
    <3> TAKE i \in 0 .. Rows(layer) - 1
    <3>1. i \in 0 .. 127 /\ i % Rows(layer) = i
      BY <2>3
    <3>2. i \in Slot /\ Decoded(ct')[i] = Val(ct', i)
      BY <3>1, DecodedAt
    <3> QED BY <3>1, <3>2, LayerEnds
  <2> QED BY <2>2, <2>4 DEF LayerValues
<1>6. \A j \in 0 .. Cols(layer) - 1 : clearVec[j] = Val(ct, j)
  BY <1>3
<1>7. CASE layer = 1
  <2>1. Rows(1) = N_H1 /\ Cols(1) = N_IN
    BY DEF Rows, Cols
  <2>2. /\ \A i \in 0 .. Rows(1) - 1, j \in 0 .. Cols(1) - 1 : W1[i][j] = Weight(1, i, j)
        /\ \A i \in 0 .. Rows(1) - 1 : b1[i] = BiasOf(1, i)
    BY DEF Weight, BiasOf
  <2>3. clearVec' = Clear!Matvec(N_H1, N_IN, W1, b1, clearVec)
    BY <1>5, <1>6, <1>7, <2>1, <2>2, MatvecIs
  <2> QED BY <1>3, <1>4, <1>7, <2>3
      DEF Clear!Next, Clear!Layer1, Clear!N_H1, Clear!N_IN, N_H1, N_IN
<1>8. CASE layer = 2
  <2>1. Rows(2) = N_H2 /\ Cols(2) = N_H1
    BY DEF Rows, Cols
  <2>2. /\ \A i \in 0 .. Rows(2) - 1, j \in 0 .. Cols(2) - 1 : W2[i][j] = Weight(2, i, j)
        /\ \A i \in 0 .. Rows(2) - 1 : b2[i] = BiasOf(2, i)
    BY DEF Weight, BiasOf
  <2>3. clearVec' = Clear!Matvec(N_H2, N_H1, W2, b2, clearVec)
    BY <1>5, <1>6, <1>8, <2>1, <2>2, MatvecIs
  <2> QED BY <1>3, <1>4, <1>8, <2>3
      DEF Clear!Next, Clear!Layer2, Clear!N_H1, Clear!N_H2, N_H1, N_H2
<1>9. CASE layer = 3
  <2>1. Rows(3) = N_OUT /\ Cols(3) = N_H2
    BY DEF Rows, Cols
  <2>2. /\ \A i \in 0 .. Rows(3) - 1, j \in 0 .. Cols(3) - 1 : W3[i][j] = Weight(3, i, j)
        /\ \A i \in 0 .. Rows(3) - 1 : b3[i] = BiasOf(3, i)
    BY DEF Weight, BiasOf
  <2>3. clearVec' = Clear!Matvec(N_OUT, N_H2, W3, b3, clearVec)
    BY <1>5, <1>6, <1>9, <2>1, <2>2, MatvecIs
  <2> QED BY <1>3, <1>4, <1>9, <2>3
      DEF Clear!Next, Clear!Layer3, Clear!N_H2, Clear!N_OUT, N_H2, N_OUT
<1> QED BY <1>1, <1>7, <1>8, <1>9

LEMMA ActivateRefines ==
  ASSUME KernelInv, ValueInv, Activate
  PROVE  Clear!Next
<1> DEFINE n == Rows(layer)
<1>1. layer \in 1 .. 2 /\ step = "activate" /\ n \in {64, 128}
  BY ActivationAt DEF Activate
<1>2. step' = "baby" /\ layer' = layer + 1
  BY DEF Activate
<1>3. /\ clearStage = <<"z1", "z2">>[layer] /\ clearStage' = <<"h1", "h2">>[layer]
      /\ clearWidth = n /\ clearWidth' = n
  <2>1. CASE layer = 1
    <3>1. clearStage = "z1" /\ clearStage' = "h1"
      BY <1>1, <1>2, <2>1 DEF clearStage
    <3> QED BY <1>1, <1>2, <2>1, <3>1 DEF clearWidth, Width, Rows, Shape, N_H1
  <2>2. CASE layer = 2
    <3>1. clearStage = "z2" /\ clearStage' = "h2"
      BY <1>1, <1>2, <2>2 DEF clearStage
    <3> QED BY <1>1, <1>2, <2>2, <3>1 DEF clearWidth, Width, Rows, Shape, N_H2
  <2> QED BY <1>1, <2>1, <2>2
<1>4. /\ clearVec = [i \in 0 .. n - 1 |-> Decoded(ct)[i]]
      /\ clearVec' = [i \in 0 .. n - 1 |-> Decoded(ct')[i]]
  BY <1>1, <1>2, <1>3 DEF clearVec
<1> HIDE DEF n
<1>5. /\ clearVec = [i \in 0 .. n - 1 |-> Val(ct, i)]
      /\ clearVec' = [i \in 0 .. n - 1 |-> Val(ct', i)]
  <2>1. \A i \in 0 .. n - 1 : Decoded(ct)[i] = Val(ct, i) /\ Decoded(ct')[i] = Val(ct', i)
    BY <1>1, DecodedAt
  <2> QED BY <1>4, <2>1
<1>6. \A i \in 0 .. n - 1 : Val(ct', i) = Clear!cheby_relu(Val(ct, i))
  <2>1. \A i \in 0 .. n - 1 : i \in Slot
    BY <1>1, LayoutsDivide DEF Slot
  <2> QED BY <2>1, ActivationAt
<1>7. clearVec' = Clear!Activated(clearVec)
  <2>1. Clear!Activated(clearVec) = [i \in 0 .. n - 1 |-> Clear!cheby_relu(clearVec[i])]
    BY <1>5 DEF Clear!Activated
  <2>2. \A i \in 0 .. n - 1 : Clear!cheby_relu(clearVec[i]) = Val(ct', i)
    BY <1>5, <1>6
  <2> QED BY <1>5, <2>1, <2>2
<1>8. CASE layer = 1
  BY <1>3, <1>7, <1>8 DEF Clear!Next, Clear!Act1
<1>9. CASE layer = 2
  BY <1>3, <1>7, <1>9 DEF Clear!Next, Clear!Act2
<1> QED BY <1>1, <1>8, <1>9

(* The client reads the last two slots of the layout: as the vector repeats, *)
(* they are the logits.                                                    *)
LEMMA DecryptRefines ==
  ASSUME KernelInv, ValueInv, DecryptResult
  PROVE  UNCHANGED <<clearStage, clearVec>>
<1>1. /\ step = "decrypt" /\ step' = "done" /\ UNCHANGED <<layer, ct>>
      /\ logits' = [i \in 0 .. N_OUT - 1 |-> ct.slots[Layout - N_OUT + i] \otimes DeltaInv]
  BY DEF DecryptResult
<1>2. Sound(ct, Depth, 1, 2) /\ Stands(ct) /\ Repeats(ct, N_OUT)
  BY <1>1 DEF KernelInv, ValueInv, Width
<1>3. clearStage = "logits" /\ clearStage' = "logits"
  BY <1>1 DEF clearStage
<1>4. clearVec = [i \in 0 .. N_OUT - 1 |-> Decoded(ct)[i]]
  BY <1>1, <1>3 DEF clearVec, clearWidth, Width
<1>5. clearVec = [i \in 0 .. N_OUT - 1 |-> Val(ct, i)]
  <2>1. \A i \in 0 .. N_OUT - 1 : Decoded(ct)[i] = Val(ct, i)
    BY DecodedAt DEF N_OUT
  <2> QED BY <1>4, <2>1
<1>6. ASSUME NEW i \in 0 .. N_OUT - 1
      PROVE  ct.slots[Layout - N_OUT + i] \otimes DeltaInv = Val(ct, i)
  <2> DEFINE s == Layout - N_OUT + i
  <2>1. s \in Slot /\ s % 2 = i
    BY LayoutsDivide DEF Slot, N_OUT
  <2>2. ct.slots[s] \otimes DeltaInv = Val(ct, s)
    BY <1>2 DEF Val, Sound, Power
  <2> QED BY <1>2, <2>1, <2>2 DEF Repeats, N_OUT
<1>7. logits' = [i \in 0 .. N_OUT - 1 |-> Val(ct, i)]
  BY <1>1, <1>6
<1>8. clearVec' = logits'
  BY <1>1 DEF clearVec
<1> QED BY <1>3, <1>5, <1>7, <1>8

LEMMA StutterRefines ==
  ASSUME UNCHANGED vars
  PROVE  UNCHANGED <<clearStage, clearVec>>
<1>1. UNCHANGED <<x, layer, step, k, ct, baby, part, acc, logits>>
  BY DEF vars
<1>2. clearStage' = clearStage /\ Width' = Width
  BY <1>1 DEF clearStage, Width
<1>3. clearWidth' = clearWidth
  BY <1>2 DEF clearWidth
<1> QED BY <1>1, <1>2, <1>3 DEF clearVec

(* The encrypted inference implements the network in the clear: packing,    *)
(* pre-rotated diagonals, baby and giant steps, folds, rescaling and the    *)
(* activation give, for all weights, transactions, slot counts and scaling  *)
(* factors, what the reference computes layer by layer, and the client      *)
(* reads its logits.                                                       *)
THEOREM KernelImplementsCleartext == Spec => ImplementsCleartext
<1>1. Init => Clear!Init
  BY DEF Init, Clear!Init, clearStage, clearVec
<1>2. KernelInv /\ ValueInv /\ [Next]_vars => [Clear!Next]_<<clearStage, clearVec>>
  <2> SUFFICES ASSUME KernelInv, ValueInv, [Next]_vars
               PROVE  Clear!Next \/ UNCHANGED <<clearStage, clearVec>>
    OBVIOUS
  <2>1. layer \in 1 .. 3
    BY DEF KernelInv
  <2>2. CASE Encrypt
    BY <2>2, EncryptValues
  <2>3. CASE BabySteps \/ Multiply \/ GiantStep \/ Fold
    <3>1. /\ step \in {"baby", "multiply", "giant", "fold"}
          /\ step' \in {"baby", "multiply", "giant", "fold"}
          /\ UNCHANGED <<layer, ct>>
      BY <2>3 DEF BabySteps, Multiply, GiantStep, Fold
    <3> QED BY <2>1, <3>1, ClearHeld
  <2>4. CASE EndLayer
    BY <2>4, EndLayerRefines
  <2>5. CASE Activate
    BY <2>5, ActivateRefines
  <2>6. CASE DecryptResult
    BY <2>6, DecryptRefines
  <2>7. CASE UNCHANGED vars
    BY <2>7, StutterRefines
  <2> QED BY <2>2, <2>3, <2>4, <2>5, <2>6, <2>7 DEF Next, Done
<1> QED BY <1>1, <1>2, ValuesHold, PTL DEF Spec, ImplementsCleartext, Clear!Spec
=============================================================================
