---------------------------- MODULE MCFlowRules ----------------------------
(***************************************************************************)
(* Instance for TLC: every way to wire a handful of node lists, a small    *)
(* one also wrongly, and every reference graph of three flows around the   *)
(* simplest flow.                                                          *)
(***************************************************************************)
EXTENDS FiringRules

SmallFlows == {
  <<"start", "end", "end">>,
  <<"end", "note">>,
  <<"start", "all", "counter", "end">>,
  <<"start", "any", "counter", "end">>,
  <<"start", "any", "all", "end">>,
  <<"start", "any", "collect", "end">>,
  <<"start", "any", "python", "end">>,
  <<"start", "any", "request", "end">>,
  <<"start", "all", "python", "end">>,
  <<"start", "fixture", "any", "end">>,
  <<"start", "fixture", "fixture", "end">>,
  <<"start", "fixture", "log", "end">>,
  <<"start", "python", "collect", "end">>,
  <<"start", "any", "counter", "delay", "end">>,
  <<"start", "set", "get", "end">>,
  <<"start", "assert", "timeout", "end">>,
  <<"start", "delay", "condition", "end">>,
  <<"start", "delay", "delay", "all", "end">>}

OneFunction == {<<"start", "python", "end">>}

ThreeFlows ==
  {[refs |-> r, onDisk |-> D] : r \in [1..3 -> SUBSET (1..3)],
                                D \in {X \in SUBSET (1..3) : 1 \in X}}
=============================================================================
