--------------------------- MODULE MCParallelLoop ---------------------------
(***************************************************************************)
(* Instance for TLC: four items and two worker tasks.                      *)
(***************************************************************************)
EXTENDS ParallelLoop
=============================================================================
