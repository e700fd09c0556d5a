----------------------------- MODULE MCWeights -----------------------------
(***************************************************************************)
(* Weights and constants of the kernel for TLC.  They are arbitrary: an    *)
(* identity of polynomials that fails does so at almost every point.       *)
(***************************************************************************)
EXTENDS Integers

\* The modulus is the prime 32749; Delta * DeltaInv = 1 modulo it.
MCP == 32749
MCDelta == 1024
MCDeltaInv == 17238

Matrix(rows, cols, seed) ==
  [i \in 0 .. rows - 1 |-> [j \in 0 .. cols - 1 |->
     (seed * (i + 3) * (j + 7) + i * i * (j + 11) + 59 * j * j * j + 97) % MCP]]

MCW1 == Matrix(128, 82, 31)
MCW2 == Matrix(64, 128, 53)
MCW3 == Matrix(2, 64, 71)
MCb1 == [i \in 0 .. 127 |-> (313 * i * i + 17) % MCP]
MCb2 == [i \in 0 .. 63 |-> (131 * i * i * i + 5) % MCP]
MCb3 == [i \in 0 .. 1 |-> 23 + 7 * i]
=============================================================================
