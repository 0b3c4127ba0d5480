---------------------------- MODULE MCRunHistory ----------------------------
(***************************************************************************)
(* Instance for TLC: run ids are numbers, so that ids that nobody has      *)
(* drawn, which nothing distinguishes, are drawn in one order only.        *)
(***************************************************************************)
EXTENDS RunHistory

\* Of two runs with one creation order, the one that began first ends last.
StampValue == [r \in Run |-> 3 - r]
=============================================================================
