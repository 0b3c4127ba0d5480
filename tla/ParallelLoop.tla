---------------------------- MODULE ParallelLoop ----------------------------
(***************************************************************************)
(* One firing of a loop node: a child frame per item of a list, run one    *)
(* after the other by the firing itself or by a fixed set of worker tasks  *)
(* in a TaskGroup, which the firing joins. The worker tasks share the next *)
(* index, the stop flag and the collected results. An iteration may fail,  *)
(* refuse to start, exhaust the budget while it is seeded, or lose its     *)
(* HTTP session; the firing may be cancelled (its ceiling, the run's end)  *)
(* alone or with its frame and everything below it (an ancestor's ceiling).*)
(*                                                                         *)
(* An action is what one task does between two awaits. A cancellation is   *)
(* requested in one step and delivered when the task runs next, whatever   *)
(* has become ready for it. What an iteration does inside its frame is     *)
(* RunCore's subject: here it goes quiet, passed or failed, or does not.   *)
(* Code: core/engine.py, _run_loop and what it calls.                      *)
(***************************************************************************)
EXTENDS Integers, FiniteSets

CONSTANTS
  Last,            \* the list has the indexes 0..Last
  MaxConcurrency,  \* config.max_concurrency
  MaxRefused       \* bound: items the body's Start port refuses

ASSUME SizesAssumption == Last \in Nat /\ MaxConcurrency \in Nat \ {0} /\ MaxRefused \in Nat

Index == 0..Last
Worker == 1..MaxConcurrency
Nobody == -1

VARIABLES
  config,     \* the node: mode, on_error, fresh_session; and the items that do not bind
  nextIndex,  \* next_index, or the position of the sequential loop
  stop,       \* an iteration failed
  results,    \* the indexes in results
  errors,     \* the indexes in errors
  child,      \* index -> its frame
  cancelled,  \* the indexes whose frame.cancelled is set
  closed,     \* the indexes whose counters were rolled into the parent
  pc,         \* worker -> the await it is at
  at,         \* worker -> the index it runs
  told,       \* worker -> cancel() was called and is not delivered yet
  failure,    \* worker -> the exception it ended with
  request,    \* the cancellation of the firing
  outcome     \* how the firing ended

iterVars == <<nextIndex, stop, results, errors>>
frameVars == <<child, cancelled, closed>>
taskVars == <<pc, at, told, failure>>
vars == <<config, iterVars, frameVars, taskVars, request, outcome>>

TypeOK ==
  /\ config \in [parallel : BOOLEAN, stops : BOOLEAN, fresh : BOOLEAN, refused : SUBSET Index]
  /\ nextIndex \in 0..(Last + 1)
  /\ stop \in BOOLEAN
  /\ results \subseteq Index /\ errors \subseteq Index
  /\ child \in [Index -> {"none", "live", "passed", "failed"}]
  /\ cancelled \subseteq Index /\ closed \subseteq Index
  /\ pc \in [Worker -> {"new", "waits", "woken", "closes", "over"}]
  /\ at \in [Worker -> Index \cup {Nobody}]
  /\ told \in [Worker -> BOOLEAN]
  /\ failure \in [Worker -> {"none", "budget", "session", "compact"}]
  /\ request \in {"none", "asked", "delivered"}
  /\ outcome \in {"none", "outputs", "cancelled", "budget", "internal"}

Workers(node) == IF node.parallel THEN Worker ELSE {1}

Init ==
  /\ config \in [parallel : BOOLEAN, stops : BOOLEAN, fresh : BOOLEAN,
                 refused : {S \in SUBSET Index : Cardinality(S) <= MaxRefused}]
  /\ nextIndex = 0 /\ stop = FALSE
  /\ results = {} /\ errors = {}
  /\ child = [i \in Index |-> "none"]
  /\ cancelled = {} /\ closed = {}
  /\ pc = [w \in Worker |-> IF w \in Workers(config) /\ w <= Last + 1 THEN "new" ELSE "over"]
  /\ at = [w \in Worker |-> Nobody]
  /\ told = [w \in Worker |-> FALSE]
  /\ failure = [w \in Worker |-> "none"]
  /\ request = "none"
  /\ outcome = "none"

Set(f, x, value) == [f EXCEPT ![x] = value]
Over(w) == pc[w] = "over"

\* _cancel_frame on one iteration's frame.
CancelFrames(I) == cancelled' = cancelled \cup I

\* TaskGroup: every task that is not over is cancelled.
Aborts(except) == told' = [w \in Worker |-> told[w] \/ (w # except /\ ~Over(w))]

\* A worker that raises: in a group the others are aborted.
Raises(w, why) ==
  /\ pc' = Set(pc, w, "over")
  /\ failure' = Set(failure, w, why)
  /\ IF config.parallel THEN Aborts(w) ELSE UNCHANGED told

-----------------------------------------------------------------------------
(* Items are claimed by whoever is free, without an await in between. *)

\* What a free worker does next, once the results so far are good, bad, halt:
\* items that do not bind are errors, and the first that does is seeded.
Proceeds(w, good, bad, halt) ==
  LET isOver == nextIndex > Last \/ (halt /\ config.stops)
      Claims(items) == /\ results' = good
                       /\ errors' = bad \cup items
                       /\ stop' = (halt \/ items # {})
      Leaves == pc' = Set(pc, w, "over") /\ UNCHANGED <<child, at, told, failure>>
  IN
  \/ isOver /\ Claims({}) /\ Leaves /\ UNCHANGED nextIndex
  \/ /\ ~isOver /\ config.stops /\ nextIndex \in config.refused
     /\ Claims({nextIndex}) /\ Leaves
     /\ nextIndex' = nextIndex + 1
  \/ /\ ~isOver /\ ~config.stops
     /\ nextIndex..Last \subseteq config.refused
     /\ Claims(nextIndex..Last) /\ Leaves
     /\ nextIndex' = Last + 1
  \/ \E first \in (nextIndex..Last) \ config.refused :
        LET skipped == nextIndex..(first - 1) IN
        /\ ~isOver /\ skipped \subseteq config.refused
        /\ config.stops => skipped = {}
        /\ Claims(skipped)
        /\ nextIndex' = first + 1
        /\ child' = Set(child, first, "live")
        /\ at' = Set(at, w, first)
        /\ \/ pc' = Set(pc, w, "waits") /\ UNCHANGED <<told, failure>>
           \/ Raises(w, "budget")             \* _seed meets the end of the budget

Begin(w) ==
  /\ pc[w] = "new" /\ ~told[w]
  /\ Proceeds(w, results, errors, stop)
  /\ UNCHANGED <<config, cancelled, closed, request, outcome>>

\* The last decrement in the frame of iteration i. After an ancestor's ceiling
\* the firing hears of its cancellation before the iterations' tasks do.
GoesQuiet(w) ==
  /\ pc[w] = "waits"
  /\ ~(at[w] \in cancelled /\ request = "asked")
  /\ \E verdict \in {"passed", "failed"} : child' = Set(child, at[w], verdict)
  /\ pc' = Set(pc, w, "woken")
  /\ UNCHANGED <<config, iterVars, cancelled, closed, at, told, failure, request, outcome>>

CollectLatest(w, i) ==                         \* mutant: the index is read after the await
  IF child[i] = "passed"
  THEN Proceeds(w, results \cup {nextIndex - 1}, errors, stop)
  ELSE Proceeds(w, results, errors \cup {nextIndex - 1}, TRUE)
\* The results with the verdict on iteration i.
Collect(w, i) ==
  IF child[i] = "passed"
  THEN Proceeds(w, results \cup {i}, errors, stop)
  ELSE Proceeds(w, results, errors \cup {i}, TRUE)

\* _finish_child, and with fresh_session the wait for the session to close.
Finish(w) ==
  /\ pc[w] = "woken" /\ ~told[w]
  /\ IF at[w] \in cancelled
     THEN /\ Raises(w, "compact")
          /\ UNCHANGED <<iterVars, child, closed, at>>
     ELSE /\ closed' = closed \cup {at[w]}
          /\ IF config.fresh
             THEN pc' = Set(pc, w, "closes") /\ UNCHANGED <<iterVars, child, at, told, failure>>
             ELSE Collect(w, at[w])
  /\ UNCHANGED <<config, cancelled, request, outcome>>

SessionClosed(w) ==
  /\ pc[w] = "closes" /\ ~told[w]
  /\ \/ Collect(w, at[w])
     \/ Raises(w, "session") /\ UNCHANGED <<iterVars, child, at>>
  /\ UNCHANGED <<config, cancelled, closed, request, outcome>>

-----------------------------------------------------------------------------
(* Cancellation. *)

\* cancel() of the firing's task, at an await of its own. In the sequential
\* loop that is the wait for an iteration.
Requested ==
  /\ request = "none" /\ outcome = "none"
  /\ config.parallel \/ pc[1] \in {"waits", "woken", "closes"}
  /\ request' = "asked"
  /\ told' = IF config.parallel THEN told ELSE Set(told, 1, TRUE)

\* Its own ceiling, or the end of the run.
CancelFiring ==
  /\ Requested
  /\ UNCHANGED <<config, iterVars, frameVars, pc, at, failure, outcome>>

\* An ancestor's ceiling cancels the frames below it in the same step.
CancelSubtree ==
  /\ Requested
  /\ CancelFrames({i \in Index : child[i] # "none"} \ closed)
  /\ UNCHANGED <<config, iterVars, child, closed, pc, at, failure, outcome>>

DeliverAlone ==                                \* mutant: the group is left to itself
  /\ config.parallel
  /\ request = "asked"
  /\ request' = "delivered"
  /\ UNCHANGED <<config, iterVars, frameVars, taskVars, outcome>>
\* The firing, joining its group, is interrupted: the group is aborted.
Deliver ==
  /\ config.parallel
  /\ request = "asked"
  /\ request' = "delivered"
  /\ Aborts(Nobody)
  /\ UNCHANGED <<config, iterVars, frameVars, pc, at, failure, outcome>>

UnwindOnly(w) ==                               \* mutant: the iteration is left behind
  /\ told[w] /\ ~Over(w)
  /\ told' = Set(told, w, FALSE)
  /\ pc' = Set(pc, w, "over")
  /\ UNCHANGED <<config, iterVars, frameVars, at, failure, request, outcome>>
\* _run_child's except clause, or an await that needs no cleaning.
Unwind(w) ==
  /\ told[w] /\ ~Over(w)
  /\ told' = Set(told, w, FALSE)
  /\ pc' = Set(pc, w, "over")
  /\ CancelFrames(IF pc[w] \in {"waits", "woken"} THEN {at[w]} ELSE {})
  /\ UNCHANGED <<config, iterVars, child, closed, at, failure, request, outcome>>

-----------------------------------------------------------------------------
(* The end of the firing. *)

Ends(how) ==
  /\ outcome = "none"
  /\ \A w \in Worker : Over(w)
  /\ outcome' = how
  /\ UNCHANGED <<config, iterVars, frameVars, taskVars, request>>

Failed == {failure[w] : w \in Worker} \ {"none"}

\* The results in index order, and the errors if there are any.
Emit == Failed = {} /\ request = "none" /\ Ends("outputs")

\* In a group every exception arrives inside an exception group, which _fire
\* takes for a fault of the engine.
Breaks == Failed # {} /\ (config.parallel \/ "budget" \notin Failed) /\ Ends("internal")
OutOfBudget == ~config.parallel /\ "budget" \in Failed /\ Ends("budget")

IsCancelled == Failed = {} /\ request # "none" /\ Ends("cancelled")

-----------------------------------------------------------------------------
Steps(w) == Begin(w) \/ Finish(w) \/ SessionClosed(w) \/ Unwind(w)
Firing == Deliver \/ Emit \/ Breaks \/ OutOfBudget \/ IsCancelled

Next ==
  \/ \E w \in Worker : Steps(w) \/ GoesQuiet(w)
  \/ CancelFiring \/ CancelSubtree
  \/ Firing

\* The event loop runs the tasks that are ready; an iteration need not end.
Fairness == (\A w \in Worker : WF_vars(Steps(w))) /\ WF_vars(Firing)

Spec == Init /\ [][Next]_vars /\ Fairness

-----------------------------------------------------------------------------
(* Properties. *)

\* What the loop emits accounts for every iteration it started, each once:
\* passed ones in results and all others in errors; without a failure to stop
\* at it has started all of them.
OutputsAreComplete ==
  outcome = "outputs" =>
    /\ results = {i \in Index : child[i] = "passed"}
    /\ errors = (0..(nextIndex - 1)) \ results
    /\ nextIndex <= Last => errors # {} /\ config.stops
    /\ closed = {i \in Index : child[i] # "none"}

\* When the firing has ended and the run goes on, no iteration does: each was
\* finished or cancelled with what was queued and running in it.
NothingOutlives ==
  outcome \in {"outputs", "cancelled"} =>
    \A i \in Index : child[i] # "none" => i \in closed \cup cancelled

\* A loop that is cancelled ends, whatever its iterations do.
CancelEnds == request # "none" ~> outcome # "none"
=============================================================================
