---------------------------- MODULE MCWorkerPool ----------------------------
(* Instances of WorkerPool for TLC.                                         *)
EXTENDS WorkerPool, TLC

\* The Submit calls are interchangeable, and so are the worker goroutines.
Symmetry == Permutations(Tasks) \cup Permutations(Workers)
=============================================================================
