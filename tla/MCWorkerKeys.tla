----------------------------- MODULE MCWorkerKeys -----------------------------
(***************************************************************************)
(* WorkerKeys for TLC: the provisioning runs are interchangeable.          *)
(***************************************************************************)
EXTENDS WorkerKeys, TLC

Symmetry == Permutations(Run)

==============================================================================
