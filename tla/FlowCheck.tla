----------------------------- MODULE FlowCheck -----------------------------
(***************************************************************************)
(* The static checker as operators on documents: what `napf check` and the *)
(* gate of `napf run` report about one flow, and about the flows it refers *)
(* to. FiringRules runs the documents this module lets through.            *)
(*                                                                         *)
(* A document gives the kinds of its nodes in file order, its edges, and   *)
(* the nodes whose reference (a function in nodes.py, a fixture file)      *)
(* cannot be resolved. A merge is one kind per mode. Edges are a set: two  *)
(* equal lines of a file, which are E004 as well, are not told apart, and  *)
(* an edge names nodes of the file, if not ports they have.                *)
(* Templates (E009, W107), names (E011, E012), port types (W102) and the   *)
(* environment (W105) are about text and are left out.                     *)
(* Code: core/checker.py.                                                  *)
(***************************************************************************)
EXTENDS Integers, Sequences, FiniteSets

Guards == {"counter", "timeout"}               \* GUARD_TYPES
Merges == {"any", "all", "collect"}
Ends == {"end", "bare_end"}                    \* with a required port, with none
PassThrough == {"set", "log", "delay", "condition", "assert"}
Kind == {"start", "get", "request", "python", "fixture", "note"}
          \cup Guards \cup Merges \cup Ends \cup PassThrough

Diagnostic(code, node) == [code |-> code, node |-> node]

-----------------------------------------------------------------------------
(* Port surfaces. `note` and `start` have no input; a merge grows inputs   *)
(* by wiring, of which two are enough here.                                *)

Inputs(kind) ==
  CASE kind \in PassThrough                    -> {"in"}
    [] kind \in {"get", "request", "fixture"}  -> {"trigger"}
    [] kind \in Guards                         -> {"in", "reset"}
    [] kind = "python"                         -> {"p", "q"}
    [] kind = "end"                            -> {"x"}
    [] kind \in Merges                         -> {"in1", "in2"}
    [] OTHER                                   -> {}

\* q has a literal default; a merge requires nothing.
RequiredInputs(kind) ==
  CASE kind \in Merges \cup {"fixture"}        -> {}
    [] kind \in Guards                         -> {"in"}
    [] kind = "python"                         -> {"p"}
    [] OTHER                                   -> Inputs(kind)

Outputs(kind) ==
  CASE kind \in {"start", "set", "log", "delay"} \cup Merges -> {"out"}
    [] kind = "condition"                      -> {"true", "false"}
    [] kind = "assert"                         -> {"passed", "failed"}
    [] kind \in {"get", "fixture"}             -> {"value"}
    [] kind = "request"                        -> {"response", "error"}
    [] kind = "python"                         -> {"out", "error"}
    [] kind = "counter"                        -> {"continue", "exhausted"}
    [] kind = "timeout"                        -> {"continue", "expired"}
    [] OTHER                                   -> {}

Nodes(doc) == DOMAIN doc.kinds

Wired(doc, n, port) == \E e \in doc.edges : e.to = n /\ e.in = port
Feeds(doc, n, port) == \E e \in doc.edges : e.from = n /\ e.out = port

\* The ports of a node that are wired, whether its kind has them or not.
InPorts(doc, n) == {e.in : e \in {f \in doc.edges : f.to = n}}

\* The ports of a python node are read from its function in nodes.py.
Known(doc, n) == ~(n \in doc.broken /\ doc.kinds[n] = "python")

-----------------------------------------------------------------------------
(* Errors. *)

Cardinalities(doc) ==
  LET HowMany(kinds) == Cardinality({n \in Nodes(doc) : doc.kinds[n] \in kinds})
  IN {Diagnostic("E006", 0) : k \in {K \in {{"start"}, Ends} : HowMany(K) # 1}}

EdgeErrors(doc) ==
  {Diagnostic("E003", 0) : e \in {f \in doc.edges :
      \/ Known(doc, f.from) /\ f.out \notin Outputs(doc.kinds[f.from])
      \/ Known(doc, f.to) /\ f.in \notin Inputs(doc.kinds[f.to])}}
  \cup
  {Diagnostic("E004", 0) : e \in {f \in doc.edges :
      \E g \in doc.edges \ {f} : g.to = f.to /\ g.in = f.in}}

MissingInputs(doc) ==
  {Diagnostic("E005", n) : n \in {m \in Nodes(doc) :
      /\ Known(doc, m)
      /\ \E port \in RequiredInputs(doc.kinds[m]) : ~Wired(doc, m, port)}}

BrokenReferences(doc) == {Diagnostic("E008", n) : n \in doc.broken}

-----------------------------------------------------------------------------
(* _find_cycle: a depth-first search with an explicit stack, successors in *)
(* order. A successor that was passed over earlier is black by then, so    *)
(* the iterator kept on the stack is the set of those that are not black.  *)

Smallest(S) == CHOOSE v \in S : \A u \in S : v <= u

\* The stack from v upwards, closed with v.
ClosedPath(stack, v) ==
  LET first == CHOOSE i \in DOMAIN stack : stack[i] = v
  IN Append(SubSeq(stack, first, Len(stack)), v)

\* Mutant: only the top of the stack is known to be on it.
OpenAtTop(next, color, top) == {v \in next[top] : color[v] = "white" \/ v = top}

\* The successors of the top of the stack that are still to be looked at.
Open(next, color, top) == {v \in next[top] : color[v] # "black"}

Top(stack) == stack[Len(stack)]

\* Without a stack a new search begins, at a node that is white still.
Unvisited(next, s) ==
  IF s.stack = <<>> THEN {v \in DOMAIN s.color : s.color[v] = "white"}
                    ELSE Open(next, s.color, Top(s.stack))

Visit(s, v) == [stack |-> Append(s.stack, v), color |-> [s.color EXCEPT ![v] = "gray"]]

Leave(s) == [stack |-> SubSeq(s.stack, 1, Len(s.stack) - 1),
             color |-> [s.color EXCEPT ![Top(s.stack)] = "black"]]

FindCycle(V, next) ==
  LET Search[s \in [stack : Seq(V), color : [V -> {"white", "gray", "black"}]]] ==
        LET open == Unvisited(next, s)
            v == Smallest(open)
        IN IF open = {} THEN (IF s.stack = <<>> THEN <<>> ELSE Search[Leave(s)])
           ELSE IF s.color[v] = "gray" THEN ClosedPath(s.stack, v)
           ELSE Search[Visit(s, v)]
  IN Search[[stack |-> <<>>, color |-> [v \in V |-> "white"]]]

-----------------------------------------------------------------------------
(* The worklist of check_reachability, and of check_run_closure, a         *)
(* generation at a time.                                                   *)

Further(next, seen) == seen \cup UNION {next[n] : n \in seen}

Reachable(roots, next) ==
  LET Grow[seen \in SUBSET DOMAIN next] ==
        IF Further(next, seen) = seen THEN seen ELSE Grow[Further(next, seen)]
  IN Grow[roots]

-----------------------------------------------------------------------------
(* Warnings. *)

Successors(doc, n) == {e.to : e \in {f \in doc.edges : f.from = n}}

Guardless(doc) == {n \in Nodes(doc) : doc.kinds[n] \notin Guards}

GuardlessNext(doc) == [n \in Guardless(doc) |-> Successors(doc, n) \cap Guardless(doc)]

GuardFreeCycle(doc) == FindCycle(Guardless(doc), GuardlessNext(doc))

UnguardedCycle(doc) ==
  IF GuardFreeCycle(doc) = <<>> THEN {} ELSE {Diagnostic("W101", GuardFreeCycle(doc)[1])}

\* The output whose messages fail the run, or that ends a loop in nothing.
ErrorPort(kind) ==
  CASE kind \in {"request", "python"} -> "error"
    [] kind = "assert"                -> "failed"
    [] OTHER                          -> "none"

GuardExit(kind) == IF kind = "counter" THEN "exhausted" ELSE "expired"

UnconnectedOutputs(doc) ==
  {Diagnostic("W103", n) : n \in {m \in Nodes(doc) :
      ErrorPort(doc.kinds[m]) # "none" /\ ~Feeds(doc, m, ErrorPort(doc.kinds[m]))}}
  \cup
  {Diagnostic("W106", n) : n \in {m \in Nodes(doc) :
      doc.kinds[m] \in Guards /\ ~Feeds(doc, m, GuardExit(doc.kinds[m]))}}

Roots(doc) == {n \in Nodes(doc) : \/ doc.kinds[n] = "start"
                                  \/ doc.kinds[n] = "fixture" /\ ~Wired(doc, n, "trigger")}

Reached(doc) == Reachable(Roots(doc), [n \in Nodes(doc) |-> Successors(doc, n)])

EmptyCanvas(doc) == doc.kinds = <<"start", "bare_end">> /\ doc.edges = {}

Unreachable(doc) ==
  {Diagnostic("W104", n) : n \in {m \in Nodes(doc) \ Reached(doc) :
      /\ doc.kinds[m] # "note"
      /\ ~(EmptyCanvas(doc) /\ doc.kinds[m] = "bare_end")}}

\* _FlowCheck.run
FlowDiagnostics(doc) ==
  Cardinalities(doc) \cup EdgeErrors(doc) \cup MissingInputs(doc)
    \cup BrokenReferences(doc) \cup UnguardedCycle(doc)
    \cup UnconnectedOutputs(doc) \cup Unreachable(doc)

-----------------------------------------------------------------------------
(* check_run_closure: the entry flow and every flow it refers to, directly *)
(* or not. refs gives the references of each flow; a flow that is not on   *)
(* disk is E008 where it is referred to, and is not followed.              *)

Closure(entry, refs, onDisk) ==
  Reachable({entry}, [f \in DOMAIN refs |-> IF f \in onDisk THEN refs[f] ELSE {}])

Followed(entry, refs, onDisk) == Closure(entry, refs, onDisk) \cap onDisk

ReferenceNext(entry, refs, onDisk) ==
  LET loaded == Followed(entry, refs, onDisk) IN [f \in loaded |-> refs[f] \cap loaded]

ReferenceCycle(entry, refs, onDisk) ==
  FindCycle(Followed(entry, refs, onDisk), ReferenceNext(entry, refs, onDisk))

ReferenceErrors(entry, refs, onDisk) ==
  {Diagnostic("E008", 0) : f \in Closure(entry, refs, onDisk) \ onDisk}
  \cup
  (IF ReferenceCycle(entry, refs, onDisk) = <<>> THEN {} ELSE {Diagnostic("E007", 0)})

\* What the gate of a run sees: errors refuse it, warnings do not.
Errors == {"E003", "E004", "E005", "E006", "E007", "E008"}

RunDiagnostics(doc, entry, refs, onDisk) ==
  FlowDiagnostics(doc) \cup ReferenceErrors(entry, refs, onDisk)

Blocks(report) == \E d \in report : d.code \in Errors
=============================================================================
