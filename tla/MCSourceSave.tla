---------------------------- MODULE MCSourceSave ----------------------------
(***************************************************************************)
(* Instance for TLC: two tabs and an outside writer on one source file.    *)
(***************************************************************************)
EXTENDS SourceSave
=============================================================================
