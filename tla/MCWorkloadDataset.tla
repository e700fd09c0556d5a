------------------------- MODULE MCWorkloadDataset -------------------------
(***************************************************************************)
(* Every number of transactions up to nine with every number of frauds.    *)
(***************************************************************************)
EXTENDS WorkloadDataset
=============================================================================
