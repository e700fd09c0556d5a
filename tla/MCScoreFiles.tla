---------------------------- MODULE MCScoreFiles ----------------------------
(***************************************************************************)
(* Three transactions: clearly legitimate, clearly fraudulent, undecided   *)
(* by a quarter of a millionth.  Errors of nothing, three quarters, within *)
(* the tolerance, just over it, and more.                                  *)
(***************************************************************************)
EXTENDS ScoreFiles

CONSTANTS legit, fraud, close

MCLabel == [t \in {legit, fraud, close} |-> IF t = fraud THEN 1 ELSE 0]
MCReference ==
  [t \in {legit, fraud, close} |->
     IF t = legit THEN [i \in 0 .. 1 |-> IF i = 0 THEN 20 ELSE -21]
     ELSE IF t = fraud THEN [i \in 0 .. 1 |-> IF i = 0 THEN -18 ELSE 22]
     ELSE [i \in 0 .. 1 |-> IF i = 0 THEN 6 ELSE 5]]

MCFiles == {<<legit, fraud>>, <<close, Empty>>, <<fraud, Empty, legit>>, <<fraud, Return>>}
MCErrors == {-45, -3, 0, 6, 10}
MCRequests == {[rows |-> 2], [row |-> 0], [row |-> 1]}
=============================================================================
