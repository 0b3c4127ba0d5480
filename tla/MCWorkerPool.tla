---------------------------- MODULE MCWorkerPool ----------------------------
(***************************************************************************)
(* Instance for TLC: three firings compete for one module's worker.        *)
(***************************************************************************)
EXTENDS WorkerPool
=============================================================================
