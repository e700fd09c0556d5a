--------------------------- MODULE CleartextModel ---------------------------
(***************************************************************************)
(* The network in the clear (harness/cleartext_impl.py): two hidden layers *)
(* with the polynomial activation, and two logits.  This is what the       *)
(* encrypted computation has to give.  A value is an integer modulo P.     *)
(***************************************************************************)
EXTENDS Integers, Sequences

CONSTANTS
  P,
  Features,                            \* feature vectors that may be scored
  W1, b1, W2, b2, W3, b3,              \* weights and biases, row by row
  Scale, C_Lin, C_T3, C_Lin2, C_T32, C_Bias    \* constants of the activation

VARIABLES
  stage,     \* what vec holds: "x", "z1", "h1", "z2", "h2" or "logits"
  vec

N_IN == 82
N_H1 == 128
N_H2 == 64
N_OUT == 2

\* Arithmetic of values.
a \oplus b == (a + b) % P
a \ominus b == (a - b) % P
a \otimes b == (a * b) % P

\* f[0] + ... + f[n - 1]
SumBelow(n, f) ==
  LET sum[i \in 0 .. n] == IF i = 0 THEN 0 ELSE sum[i - 1] \oplus f[i - 1]
  IN  sum[n]

Matvec(rows, cols, W, b, v) ==
  [i \in 0 .. rows - 1 |->
     SumBelow(cols, [j \in 0 .. cols - 1 |-> W[i][j] \otimes v[j]]) \oplus b[i]]

\* cheby_relu: u and the Chebyshev polynomials T2, T3, T4 of u.
cheby_relu(v) ==
  LET u == Scale \otimes v
      t2 == (2 \otimes (u \otimes u)) \ominus 1
      t3 == (4 \otimes (u \otimes (u \otimes u))) \ominus (3 \otimes u)
      t4 == (2 \otimes (t2 \otimes t2)) \ominus 1
  IN  C_Bias \oplus (C_Lin \otimes u) \oplus (C_T3 \otimes t3)
        \oplus (((C_Lin2 \otimes u) \oplus (C_T32 \otimes t3)) \otimes t4)

Activated(v) == [i \in DOMAIN v |-> cheby_relu(v[i])]

Init == stage = "x" /\ vec \in Features

Layer1 == stage = "x" /\ stage' = "z1" /\ vec' = Matvec(N_H1, N_IN, W1, b1, vec)
Act1 == stage = "z1" /\ stage' = "h1" /\ vec' = Activated(vec)
Layer2 == stage = "h1" /\ stage' = "z2" /\ vec' = Matvec(N_H2, N_H1, W2, b2, vec)
Act2 == stage = "z2" /\ stage' = "h2" /\ vec' = Activated(vec)
Layer3 == stage = "h2" /\ stage' = "logits" /\ vec' = Matvec(N_OUT, N_H2, W3, b3, vec)

Next == Layer1 \/ Act1 \/ Layer2 \/ Act2 \/ Layer3

Spec == Init /\ [][Next]_<<stage, vec>>
=============================================================================
