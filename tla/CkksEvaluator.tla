--------------------------- MODULE CkksEvaluator ---------------------------
(***************************************************************************)
(* The operations of the OpenFHE library as the inference kernel uses them *)
(* (external: only their use is in the repository).                        *)
(*                                                                         *)
(* Real numbers are replaced by the integers modulo a prime P, so that a   *)
(* result is equal to another or not; noise is left out.  What is kept is  *)
(* what FIXEDMANUAL leaves to the kernel: a ciphertext holds its values    *)
(* multiplied by Delta^degree, a product adds degrees, ModReduce divides   *)
(* by Delta and gives up one prime of the modulus.                         *)
(***************************************************************************)
EXTENDS Integers

CONSTANTS
  P,             \* the values are the integers modulo P
  Delta,         \* scaling factor, as a value
  DeltaInv,      \* its inverse
  Slots,         \* slots of a ciphertext: half the ring dimension
  Depth,         \* SetMultiplicativeDepth: primes that can be given up
  RotationKeys   \* amounts EvalRotateKeyGen made a key for

ASSUME EvaluatorAssumption ==
  /\ P \in Nat /\ P > 2
  /\ Delta \in 0 .. P - 1
  /\ DeltaInv \in 0 .. P - 1
  /\ (Delta * DeltaInv) % P = 1
  /\ Slots \in Nat \ {0}
  /\ Depth \in Nat
  /\ RotationKeys \subseteq Nat

Value == 0 .. P - 1
Slot == 0 .. Slots - 1
Vector == [Slot -> Value]

\* A ciphertext: scaled values, primes given up, power of Delta, number of
\* polynomials (3 between EvalMultNoRelin and Relinearize).  legal is FALSE
\* once an operation was asked for that the library refuses or that mixes
\* operands of different scales or moduli.
Ciphertext ==
  [slots : Vector, level : Nat, degree : Int, parts : {2, 3}, legal : BOOLEAN]

\* Arithmetic of values.
a \oplus b == (a + b) % P
a \ominus b == (a - b) % P
a \otimes b == (a * b) % P

\* The powers of Delta that occur: no ciphertext has a degree above 4.
Power(b, n) == <<b, b \otimes b, (b \otimes b) \otimes b,
                 (b \otimes b) \otimes (b \otimes b)>>[n]

\* The scale must fit in what is left of the modulus.
Fits(level, degree) == level + degree - 1 <= Depth

EvalRotate(c, k) ==
  [c EXCEPT !.slots = [s \in Slot |-> c.slots[(s + k) % Slots]],
            !.legal = @ /\ k \in RotationKeys /\ c.parts = 2]

\* Plaintexts are encoded with one power of Delta.
EvalMultPlain(c, v) ==
  [c EXCEPT !.slots = [s \in Slot |-> (c.slots[s] \otimes v[s]) \otimes Delta],
            !.degree = @ + 1,
            !.legal = @ /\ Fits(c.level, c.degree + 1)]

\* A plaintext added is brought to the scale of the ciphertext.
EvalAddPlain(c, v) ==
  [c EXCEPT !.slots = [s \in Slot |-> c.slots[s] \oplus (v[s] \otimes Power(Delta, c.degree))]]

EvalSubPlain(c, v) ==
  [c EXCEPT !.slots = [s \in Slot |-> c.slots[s] \ominus (v[s] \otimes Power(Delta, c.degree))]]

Aligned(c, d) == c.level = d.level /\ c.degree = d.degree

EvalAdd(c, d) ==
  [c EXCEPT !.slots = [s \in Slot |-> c.slots[s] \oplus d.slots[s]],
            !.parts = IF d.parts = 3 THEN 3 ELSE @,
            !.legal = @ /\ d.legal /\ Aligned(c, d)]

EvalSub(c, d) ==
  [c EXCEPT !.slots = [s \in Slot |-> c.slots[s] \ominus d.slots[s]],
            !.parts = IF d.parts = 3 THEN 3 ELSE @,
            !.legal = @ /\ d.legal /\ Aligned(c, d)]

EvalMultNoRelin(c, d) ==
  [slots  |-> [s \in Slot |-> c.slots[s] \otimes d.slots[s]],
   level  |-> c.level,
   degree |-> c.degree + d.degree,
   parts  |-> 3,
   legal  |-> /\ c.legal /\ d.legal
              /\ c.level = d.level
              /\ c.parts = 2 /\ d.parts = 2
              /\ Fits(c.level, c.degree + d.degree)]

Relinearize(c) == [c EXCEPT !.parts = 2]

ModReduce(c) ==
  [c EXCEPT !.slots = [s \in Slot |-> c.slots[s] \otimes DeltaInv],
            !.level = @ + 1,
            !.degree = @ - 1,
            !.legal = @ /\ c.degree > 1 /\ c.level < Depth]

\* Gives up k primes and leaves the scale as it is.
LevelReduce(c, k) ==
  [c EXCEPT !.level = @ + k, !.legal = @ /\ Fits(c.level + k, c.degree)]

Encrypted(v) ==
  [slots |-> [s \in Slot |-> v[s] \otimes Delta],
   level |-> 0, degree |-> 1, parts |-> 2, legal |-> TRUE]

\* The values a ciphertext stands for.
Decoded(c) == [s \in Slot |-> c.slots[s] \otimes Power(DeltaInv, c.degree)]
=============================================================================
