--------------------------- MODULE MCFraudPipeline ---------------------------
(* Instances of FraudPipeline for TLC. *)
EXTENDS FraudPipeline, TLC

CONSTANTS p1, p2, balanced, stream, local, fog

(* Row lists: a size's prefix, one --row, no row at all, a row out of range. *)
(* Row 2 of a dataset may be one the activation diverges on, as row 573 of   *)
(* stream_1k is.                                                             *)
Prefixes   == {<<0>>, <<0, 1>>}
OneOutlier == {<<0, 1>>, <<2>>}
EveryList  == {<<>>, <<0>>, <<0, 1>>, <<2>>, <<3>>}
FarOff     == {<<stream, 2>>}
PrefixOrLast == {<<0, 1>>, <<1>>}

SameRunners  == Permutations({p1, p2})
SameDatasets == Permutations({balanced, stream})
SameSettings == Permutations({local, fog})
Interchangeable == SameRunners \cup SameDatasets \cup SameSettings
=============================================================================
