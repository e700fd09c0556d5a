--------------------------- MODULE MCFraudKernel ---------------------------
(***************************************************************************)
(* Transactions for TLC, and weights that give known pre-activations.      *)
(***************************************************************************)
EXTENDS FraudKernel, MCWeights

Transaction(seed) == [j \in 0 .. 81 |-> (seed * j * j + 41 * j + seed) % MCP]
MCFeatures == {Transaction(3), Transaction(1009), Transaction(20011)}

\* Pre-activations 0, 1, 2, ... whatever the transaction.
NoWeights == [i \in 0 .. 127 |-> [j \in 0 .. 81 |-> 0]]
Ramp == [i \in 0 .. 127 |-> i]
=============================================================================
