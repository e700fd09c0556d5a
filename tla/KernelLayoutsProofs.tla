------------------------ MODULE KernelLayoutsProofs ------------------------
(***************************************************************************)
(* What the kernel's plaintexts are and what the library's operations do   *)
(* to a ciphertext, for all weights, moduli, scaling factors and           *)
(* ciphertext sizes: the values are a ring, every operation takes legal    *)
(* ciphertexts to legal ones, and an operation on ciphertexts is the       *)
(* operation on what they stand for.  Every plaintext is a vector over all *)
(* slots, and no index reads outside its matrix.                           *)
(***************************************************************************)
EXTENDS KernelLayouts, TLAPS

-----------------------------------------------------------------------------
(* Arithmetic of values *)

LEMMA Modulus == P \in Nat /\ P > 2
BY EvaluatorAssumption

LEMMA ValueClosed ==
  ASSUME NEW a \in Int, NEW b \in Int
  PROVE  a \oplus b \in Value /\ a \ominus b \in Value /\ a \otimes b \in Value
<1>1. P \in Nat /\ P > 0
  BY EvaluatorAssumption
<1>2. \A n \in Int : n % P \in 0 .. P - 1
  BY <1>1
<1> QED BY <1>2 DEF \oplus, \ominus, \otimes, Value

LEMMA ModShift ==
  ASSUME NEW n \in Int, NEW q \in Int
  PROVE  (n + P * q) % P = n % P
<1> DEFINE r == n % P
           m == n \div P
<1>1. n = P * m + r /\ m \in Int /\ r \in 0 .. P - 1
  BY Modulus
<1> HIDE DEF r, m
<1>2. n + P * q = P * (m + q) + r /\ m + q \in Int
  BY <1>1, Modulus
<1>3. \A t \in Int, e \in 0 .. P - 1 : (P * t + e) % P = e
  BY Modulus
<1> QED BY <1>1, <1>2, <1>3 DEF r

(* Reducing an operand first makes no difference.                          *)
LEMMA ModOperand ==
  ASSUME NEW a \in Int, NEW b \in Int
  PROVE  /\ ((a % P) + b) % P = (a + b) % P
         /\ (a + (b % P)) % P = (a + b) % P
         /\ ((a % P) - b) % P = (a - b) % P
         /\ (a - (b % P)) % P = (a - b) % P
         /\ ((a % P) * b) % P = (a * b) % P
         /\ (a * (b % P)) % P = (a * b) % P
<1> DEFINE q == a \div P  r == a % P
           t == b \div P  e == b % P
<1>1. /\ a = P * q + r /\ q \in Int /\ r \in Int
      /\ b = P * t + e /\ t \in Int /\ e \in Int
      /\ P \in Int
  BY Modulus
<1> HIDE DEF q, r, t, e
<1>2. /\ a + b = (r + b) + P * q /\ a + b = (a + e) + P * t
      /\ a - b = (r - b) + P * q /\ a - b = (a - e) + P * (-t)
  BY <1>1
<1>3. a * b = r * b + P * (q * b) /\ q * b \in Int /\ r * b \in Int
  BY <1>1
<1>4. a * b = a * e + P * (a * t) /\ a * t \in Int /\ a * e \in Int
  BY <1>1
<1>5. /\ (r + b) % P = (a + b) % P /\ (a + e) % P = (a + b) % P
      /\ (r - b) % P = (a - b) % P /\ (a - e) % P = (a - b) % P
  <2>1. r + b \in Int /\ a + e \in Int /\ r - b \in Int /\ a - e \in Int /\ -t \in Int
    BY <1>1
  <2>2. ((r + b) + P * q) % P = (r + b) % P /\ ((a + e) + P * t) % P = (a + e) % P
    BY <1>1, <2>1, ModShift
  <2>3. ((r - b) + P * q) % P = (r - b) % P /\ ((a - e) + P * (-t)) % P = (a - e) % P
    BY <1>1, <2>1, ModShift
  <2> QED BY <1>2, <2>2, <2>3
<1>6. (r * b) % P = (a * b) % P /\ (a * e) % P = (a * b) % P
  BY <1>3, <1>4, ModShift
<1> QED BY <1>5, <1>6 DEF r, e

LEMMA ModValue == \A a \in Value : a % P = a
BY Modulus DEF Value

LEMMA IntClosed ==
  ASSUME NEW a \in Int, NEW b \in Int
  PROVE  a \oplus b \in Int /\ a \ominus b \in Int /\ a \otimes b \in Int
BY ValueClosed DEF Value

(* The values are a commutative ring.                                      *)
LEMMA Ring ==
  ASSUME NEW a \in Int, NEW b \in Int, NEW c \in Int
  PROVE  /\ a \oplus b = b \oplus a
         /\ (a \oplus b) \oplus c = a \oplus (b \oplus c)
         /\ a \otimes b = b \otimes a
         /\ (a \otimes b) \otimes c = a \otimes (b \otimes c)
         /\ (a \oplus b) \otimes c = (a \otimes c) \oplus (b \otimes c)
         /\ (a \ominus b) \otimes c = (a \otimes c) \ominus (b \otimes c)
<1>0. /\ a + b \in Int /\ b + c \in Int /\ a - b \in Int
      /\ a * b \in Int /\ b * c \in Int /\ a * c \in Int
      /\ a + b = b + a /\ (a + b) + c = a + (b + c)
      /\ a * b = b * a
  OBVIOUS
<1>1. (a * b) * c = a * (b * c)
  OBVIOUS
<1>2. (a + b) * c = a * c + b * c /\ (a - b) * c = a * c - b * c
  OBVIOUS
<1>3. (a \oplus b) \oplus c = ((a + b) + c) % P /\ a \oplus (b \oplus c) = (a + (b + c)) % P
  BY <1>0, ModOperand DEF \oplus
<1>4. (a \otimes b) \otimes c = ((a * b) * c) % P /\ a \otimes (b \otimes c) = (a * (b * c)) % P
  BY <1>0, ModOperand DEF \otimes
<1>5. (a \oplus b) \otimes c = ((a + b) * c) % P /\ (a \ominus b) \otimes c = ((a - b) * c) % P
  BY <1>0, ModOperand DEF \oplus, \ominus, \otimes
<1>6. /\ (a \otimes c) \oplus (b \otimes c) = (a * c + b * c) % P
      /\ (a \otimes c) \ominus (b \otimes c) = (a * c - b * c) % P
  <2>1. (a * c) % P \in Int /\ (b * c) % P \in Int
    BY <1>0, Modulus
  <2>2. /\ (((a * c) % P) + ((b * c) % P)) % P = (a * c + ((b * c) % P)) % P
        /\ (((a * c) % P) - ((b * c) % P)) % P = (a * c - ((b * c) % P)) % P
    BY <1>0, <2>1, ModOperand
  <2>3. /\ (a * c + ((b * c) % P)) % P = (a * c + b * c) % P
        /\ (a * c - ((b * c) % P)) % P = (a * c - b * c) % P
    BY <1>0, ModOperand
  <2> QED BY <2>2, <2>3 DEF \oplus, \ominus, \otimes
<1> QED BY <1>0, <1>1, <1>2, <1>3, <1>4, <1>5, <1>6 DEF \oplus, \otimes

LEMMA Unit ==
  ASSUME NEW a \in Value
  PROVE  /\ a \otimes 1 = a /\ 1 \otimes a = a
         /\ a \oplus 0 = a /\ 0 \oplus a = a
         /\ a \otimes 0 = 0 /\ 0 \otimes a = 0
<1>1. a \in Int /\ a * 1 = a /\ 1 * a = a /\ a + 0 = a /\ 0 + a = a /\ a * 0 = 0 /\ 0 * a = 0
  BY DEF Value
<1>2. a % P = a /\ 0 % P = 0
  BY ModValue, Modulus DEF Value
<1> QED BY <1>1, <1>2 DEF \oplus, \otimes

LEMMA Inverse ==
  /\ Delta \in Int /\ DeltaInv \in Int /\ Delta \otimes DeltaInv = 1
BY EvaluatorAssumption DEF \otimes

LEMMA Rearrange ==
  ASSUME NEW a \in Int, NEW b \in Int, NEW c \in Int, NEW d \in Int
  PROVE  /\ (a \otimes b) \otimes (c \otimes d) = (a \otimes c) \otimes (b \otimes d)
         /\ (a \otimes b) \otimes c = (a \otimes c) \otimes b
<1>1. (a \otimes b) \otimes c = (a \otimes c) \otimes b
  <2>1. (a \otimes b) \otimes c = a \otimes (b \otimes c) /\ b \otimes c = c \otimes b
    BY Ring
  <2>2. (a \otimes c) \otimes b = a \otimes (c \otimes b)
    BY Ring
  <2> QED BY <2>1, <2>2
<1>2. (a \otimes b) \otimes (c \otimes d) = (a \otimes c) \otimes (b \otimes d)
  <2>1. a \otimes b \in Int /\ a \otimes c \in Int /\ c \otimes d \in Int /\ b \otimes d \in Int
    BY IntClosed
  <2>2. ((a \otimes b) \otimes c) \otimes d = (a \otimes b) \otimes (c \otimes d)
    BY <2>1, Ring
  <2>3. ((a \otimes c) \otimes b) \otimes d = (a \otimes c) \otimes (b \otimes d)
    BY <2>1, Ring
  <2> QED BY <1>1, <2>2, <2>3
<1> QED BY <1>1, <1>2

LEMMA PowerTyped ==
  ASSUME NEW b \in Int, NEW d \in 1 .. 4
  PROVE  Power(b, d) \in Int
<1>1. /\ b \otimes b \in Int /\ (b \otimes b) \otimes b \in Int
      /\ (b \otimes b) \otimes (b \otimes b) \in Int
  BY IntClosed
<1> QED BY <1>1 DEF Power

LEMMA PowerStep ==
  ASSUME NEW b \in Int, NEW d \in 1 .. 3
  PROVE  Power(b, d + 1) = Power(b, d) \otimes b
<1>1. Power(b, 2) = Power(b, 1) \otimes b /\ Power(b, 3) = Power(b, 2) \otimes b
  BY DEF Power
<1>2. Power(b, 4) = Power(b, 3) \otimes b
  <2>1. b \otimes b \in Int
    BY IntClosed
  <2> QED BY <2>1, Ring DEF Power
<1>3. d = 1 \/ d = 2 \/ d = 3
  OBVIOUS
<1> QED BY <1>1, <1>2, <1>3

(* Powers of Delta and of its inverse cancel.                              *)
LEMMA PowerCancel ==
  ASSUME NEW d \in 1 .. 4
  PROVE  Power(Delta, d) \otimes Power(DeltaInv, d) = 1
<1>1. 1 \in Value /\ 1 \otimes 1 = 1
  <2>1. 1 \in Value
    BY Modulus DEF Value
  <2> QED BY <2>1, Unit
<1>2. ASSUME NEW e \in 1 .. 3, Power(Delta, e) \otimes Power(DeltaInv, e) = 1
      PROVE  Power(Delta, e + 1) \otimes Power(DeltaInv, e + 1) = 1
  <2>1. Power(Delta, e) \in Int /\ Power(DeltaInv, e) \in Int
    BY Inverse, PowerTyped
  <2>2. Power(Delta, e + 1) \otimes Power(DeltaInv, e + 1) =
          (Power(Delta, e) \otimes Delta) \otimes (Power(DeltaInv, e) \otimes DeltaInv)
    BY Inverse, PowerStep
  <2>3. @ = (Power(Delta, e) \otimes Power(DeltaInv, e)) \otimes (Delta \otimes DeltaInv)
    BY <2>1, Inverse, Rearrange
  <2> QED BY <1>1, <1>2, <2>2, <2>3, Inverse
<1>3. Power(Delta, 1) \otimes Power(DeltaInv, 1) = 1
  BY Inverse DEF Power
<1>4. Power(Delta, 2) \otimes Power(DeltaInv, 2) = 1
  BY <1>2, <1>3
<1>5. Power(Delta, 3) \otimes Power(DeltaInv, 3) = 1
  BY <1>2, <1>4
<1>6. Power(Delta, 4) \otimes Power(DeltaInv, 4) = 1
  BY <1>2, <1>5
<1> QED BY <1>3, <1>4, <1>5, <1>6

-----------------------------------------------------------------------------
(* Operations of the evaluator *)

(* A legal ciphertext at level l, with degree d and p polynomials. *)
Sound(c, l, d, p) ==
  /\ c \in Ciphertext /\ c.legal
  /\ c.level = l /\ c.degree = d /\ c.parts = p

LEMMA SlotsTyped ==
  ASSUME NEW c \in Ciphertext, NEW s \in Slot
  PROVE  c.slots[s] \in Int
BY DEF Ciphertext, Vector, Value

LEMMA RotateSound ==
  ASSUME NEW l, NEW d, NEW c, Sound(c, l, d, 2), NEW n \in RotationKeys
  PROVE  Sound(EvalRotate(c, n), l, d, 2)
<1>1. \A s \in Slot : (s + n) % Slots \in Slot
  BY EvaluatorAssumption DEF Slot
<1>2. [s \in Slot |-> c.slots[(s + n) % Slots]] \in Vector
  BY <1>1 DEF Sound, Ciphertext, Vector
<1> QED BY <1>2 DEF Sound, EvalRotate, Ciphertext

LEMMA MultPlainSound ==
  ASSUME NEW l, NEW d, NEW c, Sound(c, l, d, 2), NEW v \in Vector, Fits(l, d + 1)
  PROVE  Sound(EvalMultPlain(c, v), l, d + 1, 2)
<1>1. \A s \in Slot : c.slots[s] \in Int /\ v[s] \in Int
  BY DEF Sound, Ciphertext, Vector, Value
<1>2. Delta \in Int
  BY EvaluatorAssumption
<1>3. \A s \in Slot : (c.slots[s] \otimes v[s]) \otimes Delta \in Value
  <2> SUFFICES ASSUME NEW s \in Slot PROVE (c.slots[s] \otimes v[s]) \otimes Delta \in Value
    OBVIOUS
  <2>1. c.slots[s] \otimes v[s] \in Value
    BY <1>1, ValueClosed
  <2>2. c.slots[s] \otimes v[s] \in Int
    BY <2>1 DEF Value
  <2> QED BY <2>2, <1>2, ValueClosed
<1>4. [s \in Slot |-> (c.slots[s] \otimes v[s]) \otimes Delta] \in Vector
  BY <1>3 DEF Vector
<1>5. c.level = l /\ c.degree = d /\ c.degree + 1 \in Int
  BY DEF Sound, Ciphertext
<1> QED BY <1>4, <1>5 DEF Sound, EvalMultPlain, Ciphertext

LEMMA AddPlainSound ==
  ASSUME NEW l, NEW d \in 1 .. 4, NEW p, NEW c, Sound(c, l, d, p), NEW v \in Vector
  PROVE  /\ Sound(EvalAddPlain(c, v), l, d, p)
         /\ Sound(EvalSubPlain(c, v), l, d, p)
<1>1. \A s \in Slot : c.slots[s] \in Int /\ v[s] \in Int
  BY DEF Sound, Ciphertext, Vector, Value
<1>2. Power(Delta, c.degree) \in Int
  BY Inverse, PowerTyped DEF Sound
<1>3. \A s \in Slot : /\ c.slots[s] \oplus (v[s] \otimes Power(Delta, c.degree)) \in Value
                      /\ c.slots[s] \ominus (v[s] \otimes Power(Delta, c.degree)) \in Value
  <2> TAKE s \in Slot
  <2>1. v[s] \otimes Power(Delta, c.degree) \in Int
    BY <1>1, <1>2, IntClosed
  <2> QED BY <1>1, <2>1, ValueClosed
<1>4. /\ [s \in Slot |-> c.slots[s] \oplus (v[s] \otimes Power(Delta, c.degree))] \in Vector
      /\ [s \in Slot |-> c.slots[s] \ominus (v[s] \otimes Power(Delta, c.degree))] \in Vector
  BY <1>3 DEF Vector
<1> QED BY <1>4 DEF Sound, EvalAddPlain, EvalSubPlain, Ciphertext

LEMMA AddSound ==
  ASSUME NEW l, NEW d, NEW c, NEW e, Sound(c, l, d, 2), Sound(e, l, d, 2)
  PROVE  Sound(EvalAdd(c, e), l, d, 2) /\ Sound(EvalSub(c, e), l, d, 2)
<1>1. \A s \in Slot : /\ c.slots[s] \oplus e.slots[s] \in Value
                      /\ c.slots[s] \ominus e.slots[s] \in Value
  BY SlotsTyped, ValueClosed DEF Sound
<1>2. /\ [s \in Slot |-> c.slots[s] \oplus e.slots[s]] \in Vector
      /\ [s \in Slot |-> c.slots[s] \ominus e.slots[s]] \in Vector
  BY <1>1 DEF Vector
<1> QED BY <1>2 DEF Sound, EvalAdd, EvalSub, Aligned, Ciphertext

LEMMA MultSound ==
  ASSUME NEW l, NEW c, NEW e, Sound(c, l, 1, 2), Sound(e, l, 1, 2), Fits(l, 2)
  PROVE  Sound(EvalMultNoRelin(c, e), l, 2, 3)
<1>1. \A s \in Slot : c.slots[s] \otimes e.slots[s] \in Value
  BY SlotsTyped, ValueClosed DEF Sound
<1>2. [s \in Slot |-> c.slots[s] \otimes e.slots[s]] \in Vector
  BY <1>1 DEF Vector
<1> QED BY <1>2 DEF Sound, EvalMultNoRelin, Ciphertext

LEMMA RelinearizeSound ==
  ASSUME NEW l, NEW d, NEW c, Sound(c, l, d, 3)
  PROVE  Sound(Relinearize(c), l, d, 2)
BY DEF Sound, Relinearize, Ciphertext

LEMMA ModReduceSound ==
  ASSUME NEW l \in Nat, NEW d \in Int, NEW c, Sound(c, l, d, 2), d > 1, l < Depth
  PROVE  Sound(ModReduce(c), l + 1, d - 1, 2)
<1>1. \A s \in Slot : c.slots[s] \otimes DeltaInv \in Value
  BY SlotsTyped, ValueClosed, EvaluatorAssumption DEF Sound
<1>2. [s \in Slot |-> c.slots[s] \otimes DeltaInv] \in Vector
  BY <1>1 DEF Vector
<1>3. c.level = l /\ c.degree = d /\ l + 1 \in Nat /\ d - 1 \in Int
  BY DEF Sound
<1> QED BY <1>2, <1>3 DEF Sound, ModReduce, Ciphertext

LEMMA LevelReduceSound ==
  ASSUME NEW l \in Nat, NEW d \in Int, NEW c, Sound(c, l, d, 2),
         NEW n \in Nat, Fits(l + n, d)
  PROVE  Sound(LevelReduce(c, n), l + n, d, 2)
<1>1. c.level = l /\ c.degree = d /\ l + n \in Nat
  BY DEF Sound
<1> QED BY <1>1 DEF Sound, LevelReduce, Ciphertext

LEMMA EncryptedSound ==
  ASSUME NEW v \in Vector
  PROVE  Sound(Encrypted(v), 0, 1, 2)
<1>1. \A s \in Slot : v[s] \otimes Delta \in Value
  <2>1. \A s \in Slot : v[s] \in Int
    BY DEF Vector, Value
  <2>2. Delta \in Int
    BY EvaluatorAssumption
  <2> QED BY <2>1, <2>2, ValueClosed
<1>2. [s \in Slot |-> v[s] \otimes Delta] \in Vector
  BY <1>1 DEF Vector
<1> QED BY <1>2 DEF Sound, Encrypted, Ciphertext

-----------------------------------------------------------------------------
(* What a ciphertext stands for *)

Val(c, s) == c.slots[s] \otimes Power(DeltaInv, c.degree)

(* Operations on ciphertexts are the operations on what they stand for.     *)
LEMMA ValTyped ==
  ASSUME NEW c, NEW l, NEW d \in 1 .. 4, NEW p, Sound(c, l, d, p), NEW s \in Slot
  PROVE  Val(c, s) \in Value /\ c.slots[s] \in Int /\ Val(c, s) \in Int
<1>1. c.slots[s] \in Int /\ c.degree = d
  BY SlotsTyped DEF Sound
<1>2. Power(DeltaInv, c.degree) \in Int
  BY <1>1, Inverse, PowerTyped
<1>3. Val(c, s) \in Value
  BY <1>1, <1>2, ValueClosed DEF Val
<1> QED BY <1>1, <1>3 DEF Value

LEMMA RotateVal ==
  ASSUME NEW c, NEW n, NEW s \in Slot
  PROVE  Val(EvalRotate(c, n), s) = Val(c, (s + n) % Slots)
BY DEF Val, EvalRotate

LEMMA MultPlainVal ==
  ASSUME NEW c, NEW l, NEW d \in 1 .. 3, NEW p, Sound(c, l, d, p),
         NEW v \in Vector, NEW s \in Slot
  PROVE  Val(EvalMultPlain(c, v), s) = Val(c, s) \otimes v[s]
<1> DEFINE a == c.slots[s]
           t == Power(DeltaInv, d)
<1>1. a \in Int /\ v[s] \in Int /\ t \in Int /\ c.degree = d
  BY SlotsTyped, Inverse, PowerTyped DEF Sound, Vector, Value
<1>2. Val(EvalMultPlain(c, v), s) = ((a \otimes v[s]) \otimes Delta) \otimes (t \otimes DeltaInv)
  <2>1. EvalMultPlain(c, v).degree = d + 1
    BY <1>1 DEF EvalMultPlain, Sound, Ciphertext
  <2>2. EvalMultPlain(c, v).slots[s] = (a \otimes v[s]) \otimes Delta
    BY DEF EvalMultPlain, Sound, Ciphertext
  <2>3. Power(DeltaInv, d + 1) = t \otimes DeltaInv
    BY Inverse, PowerStep
  <2> QED BY <2>1, <2>2, <2>3 DEF Val
<1>3. Val(c, s) = a \otimes t
  BY <1>1 DEF Val
<1> HIDE DEF a, t
<1>4. a \otimes v[s] \in Int /\ a \otimes t \in Int
  BY <1>1, IntClosed
<1>5. ((a \otimes v[s]) \otimes Delta) \otimes (t \otimes DeltaInv)
        = ((a \otimes v[s]) \otimes t) \otimes (Delta \otimes DeltaInv)
  BY <1>1, <1>4, Inverse, Rearrange
<1>6. (a \otimes v[s]) \otimes t = (a \otimes t) \otimes v[s]
  BY <1>1, Rearrange
<1>7. ((a \otimes t) \otimes v[s]) \otimes 1 = (a \otimes t) \otimes v[s]
  BY <1>1, <1>4, ValueClosed, Unit
<1> QED BY <1>2, <1>3, <1>5, <1>6, <1>7, Inverse

LEMMA AddPlainVal ==
  ASSUME NEW c, NEW l, NEW d \in 1 .. 4, NEW p, Sound(c, l, d, p),
         NEW v \in Vector, NEW s \in Slot
  PROVE  /\ Val(EvalAddPlain(c, v), s) = Val(c, s) \oplus v[s]
         /\ Val(EvalSubPlain(c, v), s) = Val(c, s) \ominus v[s]
<1> DEFINE a == c.slots[s]
           t == Power(DeltaInv, d)
           u == Power(Delta, d)
<1>1. a \in Int /\ v[s] \in Int /\ v[s] \in Value /\ t \in Int /\ u \in Int /\ c.degree = d
  BY SlotsTyped, Inverse, PowerTyped DEF Sound, Vector, Value
<1>2. /\ Val(EvalAddPlain(c, v), s) = (a \oplus (v[s] \otimes u)) \otimes t
      /\ Val(EvalSubPlain(c, v), s) = (a \ominus (v[s] \otimes u)) \otimes t
      /\ Val(c, s) = a \otimes t
  BY <1>1 DEF Val, EvalAddPlain, EvalSubPlain, Sound, Ciphertext
<1>3. u \otimes t = 1
  BY PowerCancel
<1> HIDE DEF a, t, u
<1>4. v[s] \otimes u \in Int
  BY <1>1, IntClosed
<1>5. (v[s] \otimes u) \otimes t = v[s]
  BY <1>1, <1>3, Ring, Unit
<1>6. /\ (a \oplus (v[s] \otimes u)) \otimes t = (a \otimes t) \oplus ((v[s] \otimes u) \otimes t)
      /\ (a \ominus (v[s] \otimes u)) \otimes t = (a \otimes t) \ominus ((v[s] \otimes u) \otimes t)
  BY <1>1, <1>4, Ring
<1> QED BY <1>2, <1>5, <1>6

LEMMA AddVal ==
  ASSUME NEW c, NEW e, NEW l, NEW d \in 1 .. 4, NEW p,
         Sound(c, l, d, p), Sound(e, l, d, p), NEW s \in Slot
  PROVE  /\ Val(EvalAdd(c, e), s) = Val(c, s) \oplus Val(e, s)
         /\ Val(EvalSub(c, e), s) = Val(c, s) \ominus Val(e, s)
<1>1. c.slots[s] \in Int /\ e.slots[s] \in Int /\ Power(DeltaInv, d) \in Int
  BY SlotsTyped, Inverse, PowerTyped DEF Sound
<1>2. /\ Val(EvalAdd(c, e), s) = (c.slots[s] \oplus e.slots[s]) \otimes Power(DeltaInv, d)
      /\ Val(EvalSub(c, e), s) = (c.slots[s] \ominus e.slots[s]) \otimes Power(DeltaInv, d)
      /\ Val(c, s) = c.slots[s] \otimes Power(DeltaInv, d)
      /\ Val(e, s) = e.slots[s] \otimes Power(DeltaInv, d)
  BY DEF Val, EvalAdd, EvalSub, Sound, Ciphertext
<1> QED BY <1>1, <1>2, Ring

LEMMA MultVal ==
  ASSUME NEW c, NEW e, NEW l, NEW p, Sound(c, l, 1, p), Sound(e, l, 1, p), NEW s \in Slot
  PROVE  Val(Relinearize(EvalMultNoRelin(c, e)), s) = Val(c, s) \otimes Val(e, s)
<1>1. c.slots[s] \in Int /\ e.slots[s] \in Int
  BY SlotsTyped DEF Sound
<1>2. /\ Val(c, s) = c.slots[s] \otimes DeltaInv
      /\ Val(e, s) = e.slots[s] \otimes DeltaInv
      /\ Val(Relinearize(EvalMultNoRelin(c, e)), s)
           = (c.slots[s] \otimes e.slots[s]) \otimes (DeltaInv \otimes DeltaInv)
  BY DEF Val, EvalMultNoRelin, Relinearize, Power, Sound, Ciphertext
<1> QED BY <1>1, <1>2, Inverse, Rearrange

LEMMA ModReduceVal ==
  ASSUME NEW c, NEW l, NEW d \in 1 .. 3, NEW p, Sound(c, l, d + 1, p), NEW s \in Slot
  PROVE  Val(ModReduce(c), s) = Val(c, s)
<1> DEFINE a == c.slots[s]
           t == Power(DeltaInv, d)
<1>1. a \in Int /\ t \in Int /\ c.degree = d + 1
  BY SlotsTyped, Inverse, PowerTyped DEF Sound
<1>2. /\ Val(ModReduce(c), s) = (a \otimes DeltaInv) \otimes t
      /\ Val(c, s) = a \otimes (t \otimes DeltaInv)
  <2>1. ModReduce(c).degree = d /\ ModReduce(c).slots[s] = a \otimes DeltaInv
    BY <1>1 DEF ModReduce, Sound, Ciphertext
  <2> QED BY <1>1, <2>1, PowerStep, Inverse DEF Val
<1> HIDE DEF a, t
<1>3. (a \otimes DeltaInv) \otimes t = (a \otimes t) \otimes DeltaInv
  BY <1>1, Inverse, Rearrange
<1> QED BY <1>1, <1>2, <1>3, Inverse, Ring

LEMMA LevelReduceVal ==
  ASSUME NEW c, NEW n, NEW s, c \in Ciphertext
  PROVE  Val(LevelReduce(c, n), s) = Val(c, s)
BY DEF Val, LevelReduce, Ciphertext

LEMMA EncryptedVal ==
  ASSUME NEW v \in Vector, NEW s \in Slot
  PROVE  Val(Encrypted(v), s) = v[s]
<1>1. v[s] \in Value /\ v[s] \in Int
  BY DEF Vector, Value
<1>2. Val(Encrypted(v), s) = (v[s] \otimes Delta) \otimes DeltaInv
  BY DEF Val, Encrypted, Power
<1> QED BY <1>1, <1>2, Inverse, Ring, Unit
-----------------------------------------------------------------------------
(* Plaintexts *)

LEMMA FillTyped ==
  ASSUME NEW v \in [0 .. Layout - 1 -> Value]
  PROVE  Fill(v) \in Vector
<1>1. \A s \in Slot : s % Layout \in 0 .. Layout - 1
  BY EvaluatorAssumption, KernelAssumption DEF Slot
<1> QED BY <1>1 DEF Fill, Vector

LEMMA ConstTyped ==
  ASSUME NEW v \in Value
  PROVE  Const(v) \in Vector
BY FillTyped DEF Const

(* What the loops over the diagonals of a layer read is an element of the  *)
(* matrix: no index leaves it, for any diagonal and any slot.              *)
LEMMA DiagonalTyped ==
  ASSUME NEW l \in 1 .. 3, NEW d \in Nat, NEW s \in Nat
  PROVE  Diagonal(l, d, s) \in Value
<1>0. 0 \in Value
  BY EvaluatorAssumption DEF Value
<1>1. CASE l = 1
  <2>1. ASSUME IsFeature(d + s) PROVE W1Diagonal(d, s) \in Value
    <3>1. (d + s) % 128 \in 0 .. N_IN - 1
      BY <2>1 DEF IsFeature, N_IN
    <3>2. s % 128 \in 0 .. N_H1 - 1
      BY DEF N_H1
    <3>3. \A i \in 0 .. N_H1 - 1, j \in 0 .. N_IN - 1 : W1[i][j] \in Value
      BY KernelAssumption
    <3> QED BY <2>1, <3>1, <3>2, <3>3 DEF W1Diagonal
  <2>2. W1Diagonal(d, s) \in Value
    BY <1>0, <2>1 DEF W1Diagonal
  <2> QED BY <1>1, <2>2 DEF Diagonal
<1>2. CASE l = 2
  <2>1. Layout + 127 - d - s \in Int
    BY KernelAssumption
  <2>2. \A n \in Int : 127 - (n % 128) \in 0 .. N_H1 - 1
    BY DEF N_H1
  <2>3. s % 64 \in 0 .. N_H2 - 1
    BY DEF N_H2
  <2>4. \A i \in 0 .. N_H2 - 1, j \in 0 .. N_H1 - 1 : W2[i][j] \in Value
    BY KernelAssumption
  <2>5. W2Diagonal(d, s) \in Value
    BY <2>1, <2>2, <2>3, <2>4 DEF W2Diagonal
  <2> QED BY <1>2, <2>5 DEF Diagonal
<1>3. CASE l = 3
  <2>1. Layout + 63 - d - s \in Int
    BY KernelAssumption
  <2>2. \A n \in Int : 63 - (n % 64) \in 0 .. N_H2 - 1
    BY DEF N_H2
  <2>3. 1 - ((s + 1) % 2) \in 0 .. N_OUT - 1
    BY DEF N_OUT
  <2>4. \A i \in 0 .. N_OUT - 1, j \in 0 .. N_H2 - 1 : W3[i][j] \in Value
    BY KernelAssumption
  <2>5. W3Diagonal(d, s) \in Value
    BY <2>1, <2>2, <2>3, <2>4 DEF W3Diagonal
  <2> QED BY <1>3, <2>5 DEF Diagonal
<1> QED BY <1>1, <1>2, <1>3

LEMMA PreRotatedTyped ==
  ASSUME NEW l \in 1 .. 3, NEW d \in Nat, NEW by \in Nat
  PROVE  PreRotated(l, d, by) \in Vector
<1>1. \A s \in 0 .. Layout - 1 : (s - by) % Layout \in Nat
  BY KernelAssumption
<1>2. [s \in 0 .. Layout - 1 |-> Diagonal(l, d, (s - by) % Layout)]
        \in [0 .. Layout - 1 -> Value]
  BY <1>1, DiagonalTyped
<1> QED BY <1>2, FillTyped DEF PreRotated

LEMMA BiasTyped ==
  ASSUME NEW l \in 1 .. 3
  PROVE  BiasPlain(l) \in Vector
<1>1. \A s \in 0 .. Layout - 1 : /\ s % 128 \in 0 .. N_H1 - 1
                                /\ s % 64 \in 0 .. N_H2 - 1
                                /\ s % 2 \in 0 .. N_OUT - 1
  BY DEF N_H1, N_H2, N_OUT
<1>2. \A s \in 0 .. Layout - 1 : Bias(l, s) \in Value
  BY <1>1, KernelAssumption DEF Bias
<1> QED BY <1>2, FillTyped DEF BiasPlain
=============================================================================
