------------------------------- MODULE MCRunCore -------------------------------
(* Small instances of RunCore for TLC. *)
EXTENDS RunCore
================================================================================
