-------------------------------- MODULE RunCore --------------------------------
(***************************************************************************)
(* One run of napflow's engine (src/napflow/core/engine.py, FlowRun): the   *)
(* delivery queue, the pump, the firing tasks, the tree of frames opened by *)
(* flow nodes, the message budget, node ceilings, abort, the run deadline,  *)
(* cleanup and the final state.                                             *)
(*                                                                          *)
(* The flow being run is not a constant.  Every node type reduces to what   *)
(* it does to the scheduler: a delivery is absorbed, recorded by End,       *)
(* answered inline (merge, guards) or starts a task; a task answers at      *)
(* once, awaits I/O or opens a child frame, and ends by emitting k          *)
(* messages, by a node error or by an engine failure.  Choosing freely      *)
(* among these covers every flow; message values are left out.              *)
(***************************************************************************)
EXTENDS Integers, FiniteSets, Sequences, SequencesExt

CONSTANTS
  MaxFrame,      \* child frames a behaviour may open (bound on _frame_seq)
  MaxTask,       \* task slots (bound on simultaneously live tasks)
  Budget,        \* defaults.run.message_budget
  BatchSize,     \* _READY_BATCH_SIZE
  MaxFan,        \* edges one firing emits on (bound on the size of a flow)
  RequiredEnd,   \* may a flow have a required End port? a set of BOOLEAN
  Features,      \* which of AllFeatures the flow's nodes have
  Disturbances   \* which of "ceiling", "deadline", "abort", "cancel" occur

\* fixture: an auto-firing source; inline: merges and guards; assert: checks
\* that may fail; io: a node that awaits; error: node errors; bug: an engine
\* exception; flow: subflows; hollow: subflows with nothing to run.
AllFeatures == {"fixture", "inline", "assert", "io", "error", "bug", "flow", "hollow"}

ASSUME CoreAssumption ==
  /\ MaxFrame \in Nat /\ MaxTask \in Nat \ {0} /\ MaxFan \in Nat
  /\ Budget \in Nat /\ BatchSize \in Nat \ {0}
  /\ RequiredEnd \subseteq BOOLEAN /\ RequiredEnd # {}
  /\ Features \subseteq AllFeatures
  /\ Disturbances \subseteq {"ceiling", "deadline", "abort", "cancel"}

Root == 0
Frame == 0 .. MaxFrame
Task == 1 .. MaxTask
Pump == 0                  \* handle of the task that runs execute()
Cleanup == MaxTask + 1     \* handle of the task that runs _close_runtime()
Handle == 0 .. MaxTask + 1

VARIABLES
  queue,      \* _queue: deliveries and the sentinels _QUIESCENT, _FATAL
  inFlight,   \* _in_flight
  sent,       \* _msg_seq; _budget_remaining is Budget - sent
  exhausted,  \* a tick found the budget spent (_budget_remaining < 0)
  ready,      \* the event loop's FIFO of callbacks that may run
  pump,       \* where execute() stands
  batch,      \* batch_remaining
  interrupt,  \* why CancelledError is pending in execute()'s task
  aborted,    \* _aborted
  fatal,      \* _fatal's reason, "none" when unset
  late,       \* loop.time() >= _deadline_at
  cleanup,    \* where _close_runtime() stands
  gathered,   \* the tasks _close_runtime() cancelled and waits for
  frames,     \* the root and the frames reachable through Frame.children
  path,       \* the frames named in a frame's hierarchical id
  frInFlight, \* Frame.in_flight
  cancelled,  \* Frame.cancelled
  endOpen,    \* a required End port has no value yet
  own,        \* entries counted by passed/failed/unhandled counts of a frame
  closed,     \* entries counted by closed_failed_asserts, closed_unhandled_count
  log,        \* frames of failed asserts and unhandled errors, run-wide, in order
  pc,         \* where a task stands
  frameOf,    \* the frame a task fires in
  childOf,    \* the frame a flow node's task waits for
  cancel,     \* why CancelledError is pending in a task
  outcome,    \* RunResult.state
  stranded,   \* history: tasks cancelled before their first step
  sinceAbort, \* history: deliveries consumed after abort()
  stopped     \* history: how the pump ended

schedVars == <<queue, inFlight, sent, exhausted, ready, batch>>
pumpVars == <<pump, interrupt, fatal, cleanup, gathered, stopped>>
frameVars == <<frames, path, frInFlight, cancelled, endOpen, own, closed, log>>
taskVars == <<pc, frameOf, childOf, cancel, stranded>>
runVars == <<aborted, late, outcome, sinceAbort>>
vars == <<schedVars, pumpVars, frameVars, taskVars, runVars>>

--------------------------------------------------------------------------------
(* Values *)

Quiescent == [tag |-> "quiescent", id |-> 0, frame |-> Root]
Fatal == [tag |-> "fatal", id |-> 0, frame |-> Root]
Delivery == [tag : {"msg"}, id : 1 .. Budget, frame : Frame]
Item == Delivery \cup {Quiescent, Fatal}

\* new: created, no step yet; io, child: awaiting; ioDone, childDone: awaited
\* future resolved (or cancelled), resumption is in the ready FIFO.
Waiting == {"io", "child"}
Runnable == {"new", "ioDone", "childDone"}
Live == {t \in Task : pc[t] # "free"}
FreeSlot == CHOOSE t \in Task : pc[t] = "free"

Reason == {"none", "bind_error", "budget_exhausted", "run_timeout",
           "internal_error"}

Min2(a, b) == IF a <= b THEN a ELSE b
AsSeq(S) == IF S = {} THEN <<>> ELSE <<CHOOSE x \in S : TRUE>>

--------------------------------------------------------------------------------
(* Effects shared by the actions *)

\* _tick_budget: the edges of an emission that still get a message, and
\* whether the next one raises _BudgetExhausted.
Room(k) == Min2(k, Budget - sent)
Over(k) == k > Budget - sent

\* _emit_output on k edges.
Msgs(f, k) == [i \in 1 .. Room(k) |-> [tag |-> "msg", id |-> sent + i, frame |-> f]]
CountSent(k) ==
  /\ sent' = sent + Room(k)
  /\ exhausted' = (exhausted \/ Over(k))

\* _set_fatal: the first reason stays, the sentinel is put every time.
FatalMark(why) == IF why = "none" THEN <<>> ELSE <<Fatal>>
SetFatalForgets(why) == UNCHANGED fatal            \* mutant: sentinel without reason
SetFatal(why) == fatal' = IF fatal = "none" THEN why ELSE fatal

\* _set_run_timeout: does nothing when a reason is set already.
TimeoutMark == IF fatal = "none" THEN <<Fatal>> ELSE <<>>

\* queue.put_nowait from outside the pump wakes it when it waits in get().
Notice(puts) == IF puts # <<>> /\ pump = "get" THEN <<Pump>> ELSE <<>>
PumpAfter(puts) == IF puts # <<>> /\ pump = "get" THEN "woken" ELSE pump

\* _dec: f loses one unit of work after gaining some in the same step.
SettleTwice(f, gain) ==                       \* mutant: _dec in a clause and in finally
  /\ inFlight' = inFlight + gain - 2
  /\ frInFlight' = [frInFlight EXCEPT ![f] = @ + gain - 1]
SettleLocal(f, gain) ==                       \* mutant: only Frame.in_flight goes down
  /\ inFlight' = inFlight + gain
  /\ frInFlight' = [frInFlight EXCEPT ![f] = @ + gain - 1]
Settle(f, gain) ==
  /\ inFlight' = inFlight + gain - 1
  /\ frInFlight' = [frInFlight EXCEPT ![f] = @ + gain - 1]
DrainedEarly(f, gain) == frInFlight[f] = 1    \* mutant: _dec before the emission
Drained(f, gain) == frInFlight[f] + gain = 1
QuietMarkEarly(gain) == IF inFlight = 1 THEN <<Quiescent>> ELSE <<>>  \* mutant: the same
QuietMark(gain) == IF inFlight + gain = 1 THEN <<Quiescent>> ELSE <<>>

\* done.set(): the task that waits for f, if any, becomes runnable.
WaiterForgotten(f, gain) == {}                \* mutant: done.set() left out
Waiter(f, gain) ==
  IF Drained(f, gain) THEN {u \in Task : pc[u] = "child" /\ childOf[u] = f} ELSE {}

\* _record_unhandled and the failed-assert tallies: one entry for each frame
\* of notes, in order.
Record(notes) ==
  /\ log' = log \o notes
  /\ own' = [f \in Frame |->
               own[f] \cup {Len(log) + i : i \in {j \in DOMAIN notes : notes[j] = f}}]
Times(n, f) == [i \in 1 .. n |-> f]

\* _close_end_ports: the entry a required End port without a value leaves.
UnwrittenIgnored(f) == <<>>                   \* mutant: End ports not closed
Unwritten(f) == IF endOpen[f] THEN <<f>> ELSE <<>>

\* The active subtree of a frame, and the entries its counters hold.
Under(f) == {g \in Frame : f \in path[g]}
Subtree(f) == frames \cap Under(f)
OwnEntries(f) == own[f] \cup closed[f]        \* mutant: descendants not summed
SubtreeEntries(f) == UNION {own[g] \cup closed[g] : g \in Subtree(f)}

CpuIdle == pump # "run"
Runs(h) == CpuIdle /\ ready # <<>> /\ Head(ready) = h /\ outcome = "none"

--------------------------------------------------------------------------------
Init ==
  /\ queue = <<>> /\ inFlight = 0 /\ sent = 0 /\ exhausted = FALSE
  /\ ready = <<Pump>> /\ batch = 0
  /\ pump = "new" /\ interrupt = "none" /\ fatal = "none"
  /\ cleanup = "none" /\ gathered = {} /\ stopped = "no"
  /\ frames = {} /\ path = [f \in Frame |-> {}]
  /\ frInFlight = [f \in Frame |-> 0] /\ cancelled = [f \in Frame |-> FALSE]
  /\ endOpen = [f \in Frame |-> FALSE]
  /\ own = [f \in Frame |-> {}] /\ closed = [f \in Frame |-> {}] /\ log = <<>>
  /\ pc = [t \in Task |-> "free"] /\ frameOf = [t \in Task |-> Root]
  /\ childOf = [t \in Task |-> Root] /\ cancel = [t \in Task |-> "none"]
  /\ stranded = 0
  /\ aborted = FALSE /\ late = FALSE /\ outcome = "none" /\ sinceAbort = 0

--------------------------------------------------------------------------------
(* execute(): binding and seeding *)

\* Leaving _pump (or never entering it) starts the cleanup task and waits.
LeavePump(how) ==
  /\ pump' = "closing"
  /\ cleanup' = "new"
  /\ stopped' = how

NextFrame == CHOOSE f \in Frame : path[f] = {}

OpenFrame(f, above) ==
  /\ frames' = frames \cup {f}
  /\ path' = [path EXCEPT ![f] = above \cup {f}]
  /\ \E required \in RequiredEnd : endOpen' = [endOpen EXCEPT ![f] = required]

\* _spawn_task for each slot of S, in frame f.
Spawn(S, f) ==
  /\ pc' = [t \in Task |-> IF t \in S THEN "new" ELSE pc[t]]
  /\ frameOf' = [t \in Task |-> IF t \in S THEN f ELSE frameOf[t]]

\* Seeding may start one auto-firing fixture.
SeedTasks ==
  {{}} \cup (IF "fixture" \in Features /\ Live # Task THEN {{FreeSlot}} ELSE {})

\* BIND or ENV fails: no frame, straight to cleanup.
BindFails ==
  /\ Runs(Pump) /\ pump = "new"
  /\ fatal' = "bind_error"
  /\ LeavePump("halted")
  /\ ready' = Append(Tail(ready), Cleanup)
  /\ UNCHANGED <<queue, inFlight, sent, exhausted, batch, interrupt, gathered,
                 frameVars, taskVars, runVars>>

\* The root frame is seeded; the pump goes on unless the budget is spent or
\* nothing was seeded at all.
SeedRoot(k, S) ==
  /\ Runs(Pump) /\ pump = "new"
  /\ LET new == IF Over(k) THEN {} ELSE S
         gain == Room(k) + Cardinality(new)
         why == IF Over(k) THEN "budget_exhausted" ELSE "none"
     IN /\ OpenFrame(Root, {})
        /\ CountSent(k) /\ SetFatal(why) /\ Spawn(new, Root)
        /\ queue' = queue \o Msgs(Root, k) \o FatalMark(why)
        /\ inFlight' = gain
        /\ frInFlight' = [frInFlight EXCEPT ![Root] = gain]
        /\ IF Over(k) \/ gain = 0
           THEN /\ LeavePump(IF Over(k) THEN "halted" ELSE "quiet")
                /\ ready' = Tail(ready) \o AsSeq(new) \o <<Cleanup>>
                /\ UNCHANGED batch
           ELSE /\ pump' = "run" /\ batch' = BatchSize
                /\ ready' = Tail(ready) \o AsSeq(new)
                /\ UNCHANGED <<cleanup, stopped>>
  /\ UNCHANGED <<interrupt, gathered, cancelled, own, closed, log, childOf,
                 cancel, stranded, runVars>>

--------------------------------------------------------------------------------
(* _pump: it keeps the event loop until the queue is empty or a batch ends *)

\* One delivery of frame f: k messages emitted inline, tasks S started, then
\* _dec and the batch count.
Consume(f, k, S) ==
  LET gain == Room(k) + Cardinality(S)
      why == IF Over(k) THEN "budget_exhausted" ELSE "none"
      done == Waiter(f, gain)
  IN /\ queue' = Tail(queue) \o Msgs(f, k) \o FatalMark(why) \o QuietMark(gain)
     /\ CountSent(k) /\ SetFatal(why) /\ Settle(f, gain)
     /\ pc' = [t \in Task |-> IF t \in S THEN "new"
                              ELSE IF t \in done THEN "childDone" ELSE pc[t]]
     /\ frameOf' = [t \in Task |-> IF t \in S THEN f ELSE frameOf[t]]
     /\ batch' = batch - 1
     /\ pump' = IF batch = 1 THEN "yield" ELSE "run"
     /\ ready' = ready \o AsSeq(S) \o AsSeq(done)
                       \o (IF batch = 1 THEN <<Pump>> ELSE <<>>)
     /\ sinceAbort' = IF aborted THEN sinceAbort + 1 ELSE 0
     /\ UNCHANGED <<interrupt, cleanup, gathered, stopped, frames, path, cancelled,
                    own, closed, log, childOf, cancel, stranded, aborted, late,
                    outcome>>

Delivers(f) ==
  /\ pump = "run" /\ queue # <<>>
  /\ Head(queue).tag = "msg" /\ Head(queue).frame = f

\* The frame was cancelled: the delivery is only counted off.
PumpSkips(f) ==
  /\ Delivers(f) /\ cancelled[f]
  /\ Consume(f, 0, {})
  /\ UNCHANGED endOpen

\* A merge short of its rendezvous or count, a filled slot, a guard reset.
PumpAbsorbs(f) ==
  /\ Delivers(f) /\ ~cancelled[f]
  /\ Consume(f, 0, {})
  /\ UNCHANGED endOpen

\* End accumulates; here the last required port gets its value.
PumpWritesEnd(f) ==
  /\ Delivers(f) /\ ~cancelled[f] /\ endOpen[f]
  /\ Consume(f, 0, {})
  /\ endOpen' = [endOpen EXCEPT ![f] = FALSE]

\* A merge or a guard fires inline and emits on k edges.
PumpFiresInline(f, k) ==
  /\ "inline" \in Features
  /\ Delivers(f) /\ ~cancelled[f]
  /\ Consume(f, k, {})
  /\ UNCHANGED endOpen

\* Every other node fires in a task of its own.
PumpSpawns(f) ==
  /\ Delivers(f) /\ ~cancelled[f] /\ Live # Task
  /\ Consume(f, 0, {FreeSlot})
  /\ UNCHANGED endOpen

\* get() finds the queue empty and suspends.
PumpBlocks ==
  /\ pump = "run" /\ queue = <<>>
  /\ pump' = "get"
  /\ UNCHANGED <<schedVars, interrupt, fatal, cleanup, gathered, stopped, frameVars,
                 taskVars, runVars>>

\* _deadline_expired, asked about quiescence only.
NeverRefused(item) == FALSE                   \* mutant: quiescence taken unasked
Refused(item) == item = Quiescent /\ late

\* A sentinel ends the pump; quiescence is refused after the deadline.
PumpStops ==
  /\ pump = "run" /\ queue # <<>> /\ Head(queue).tag # "msg"
  /\ LET refused == Refused(Head(queue))
     IN /\ queue' = Tail(queue) \o (IF refused THEN TimeoutMark ELSE <<>>)
        /\ SetFatal(IF refused THEN "run_timeout" ELSE "none")
        /\ LeavePump(IF Head(queue) = Quiescent /\ ~refused THEN "quiet" ELSE "halted")
  /\ ready' = Append(ready, Cleanup)
  /\ UNCHANGED <<inFlight, sent, exhausted, batch, interrupt, gathered, frameVars,
                 taskVars, runVars>>

\* The control point after sleep(0).
MustStopLate == late                          \* mutant: the abort token is not read
MustStop == aborted \/ late

\* Resumed by get() or by sleep(0); after sleep(0) the abort token and the
\* deadline are looked at first.
PumpResumes ==
  /\ Runs(Pump) /\ pump \in {"woken", "yield"} /\ interrupt = "none"
  /\ pump = "yield" => ~MustStop
  /\ pump' = "run"
  /\ batch' = IF pump = "yield" THEN BatchSize ELSE batch
  /\ ready' = Tail(ready)
  /\ UNCHANGED <<queue, inFlight, sent, exhausted, interrupt, fatal, cleanup,
                 gathered, stopped, frameVars, taskVars, runVars>>

PumpGivesUp ==
  /\ Runs(Pump) /\ pump = "yield" /\ interrupt = "none"
  /\ MustStop
  /\ SetFatal(IF aborted THEN "none" ELSE "run_timeout")
  /\ queue' = queue \o (IF aborted THEN <<>> ELSE TimeoutMark)
  /\ LeavePump("halted")
  /\ ready' = Append(Tail(ready), Cleanup)
  /\ UNCHANGED <<inFlight, sent, exhausted, batch, interrupt, gathered,
                 frameVars, taskVars, runVars>>

\* CancelledError inside the pump: the deadline's becomes run_timeout, an
\* outside one goes on to cleanup.
PumpInterrupted ==
  /\ Runs(Pump) /\ pump \in {"woken", "yield"} /\ interrupt # "none"
  /\ SetFatal(IF interrupt = "deadline" THEN "run_timeout" ELSE "none")
  /\ queue' = queue \o (IF interrupt = "deadline" THEN TimeoutMark ELSE <<>>)
  /\ LeavePump("halted")
  /\ ready' = Append(Tail(ready), Cleanup)
  /\ UNCHANGED <<inFlight, sent, exhausted, batch, interrupt, gathered,
                 frameVars, taskVars, runVars>>

--------------------------------------------------------------------------------
(* _fire: each action is one step of a task, from its resumption to its next
   await or its end *)

Steps(t) == Runs(t) /\ cancel[t] = "none"

\* The last step of a firing: the emission on k edges, the entries recorded,
\* _set_fatal, and _dec in the finally clause.  The tasks of V are cancelled.
FiringEnds(t, k, notes, why, V) ==
  LET f == frameOf[t]
      gain == Room(k)
      puts == Msgs(f, k) \o FatalMark(why) \o QuietMark(gain)
      done == Waiter(f, gain)
      roused == {u \in V : pc[u] = "child"}
  IN /\ queue' = queue \o puts
     /\ CountSent(k) /\ SetFatal(why) /\ Settle(f, gain) /\ Record(notes)
     /\ pump' = PumpAfter(puts)
     /\ \E order \in SetToSeqs(roused) :
          ready' = Tail(ready) \o order \o Notice(puts) \o AsSeq(done)
     /\ pc' = [u \in Task |-> CASE u = t -> "free"
                                [] u # t /\ u \in roused \cup done -> "childDone"
                                [] OTHER -> pc[u]]
     /\ cancel' = [u \in Task |-> CASE u = t -> "none"
                                    [] u # t /\ u \in V -> "frame"
                                    [] OTHER -> cancel[u]]
     /\ frameOf' = [frameOf EXCEPT ![t] = Root]
     /\ childOf' = [childOf EXCEPT ![t] = Root]
     /\ UNCHANGED <<batch, interrupt, cleanup, gathered, stopped, endOpen, stranded,
                    runVars>>

\* An ordinary result, with or without a failed assert; a failed assert whose
\* `failed` port has no edge is recorded twice.
FiringAnswers(t) ==
  /\ Steps(t) /\ pc[t] \in {"new", "ioDone"}
  /\ \E k \in 0 .. MaxFan, n \in 0 .. 2 :
       /\ n > 0 => "assert" \in Features
       /\ n = 2 => k = 0
       /\ FiringEnds(t, k, Times(n, frameOf[t]),
                     IF Over(k) THEN "budget_exhausted" ELSE "none", {})
  /\ UNCHANGED <<frames, path, cancelled, closed>>

\* _node_error, called from an except clause of _fire: a message into a wired
\* error port, or an entry when there is no edge or no such port.  An exhausted
\* budget raised here leaves _fire through its finally clause only.
NodeError(t, k, notes, V) ==
  FiringEnds(t, k, notes \o (IF k = 0 THEN <<frameOf[t]>> ELSE <<>>), "none", V)

\* A template error or _NodeError; python_assert has counted a failed assert.
FiringErrs(t) ==
  /\ "error" \in Features
  /\ Steps(t) /\ pc[t] \in {"new", "ioDone"}
  /\ \E k \in 0 .. MaxFan, asserted \in 0 .. 1 :
       /\ asserted = 1 => "assert" \in Features
       /\ NodeError(t, k, Times(asserted, frameOf[t]), {})
  /\ UNCHANGED <<frames, path, cancelled, closed>>

\* An exception no clause expects.
FiringCrashes(t) ==
  /\ "bug" \in Features
  /\ Steps(t) /\ pc[t] \in {"new", "ioDone"}
  /\ FiringEnds(t, 0, <<>>, "internal_error", {})
  /\ UNCHANGED <<frames, path, cancelled, closed>>

\* request, python and delay suspend in the runner.
FiringWaits(t) ==
  /\ "io" \in Features
  /\ Steps(t) /\ pc[t] = "new"
  /\ pc' = [pc EXCEPT ![t] = "io"]
  /\ ready' = Tail(ready)
  /\ UNCHANGED <<queue, inFlight, sent, exhausted, batch, pumpVars, frameVars,
                 frameOf, childOf, cancel, stranded, runVars>>

--------------------------------------------------------------------------------
(* Flow nodes: _spawn_frame, _run_child, _finish_child *)

\* The child frame is seeded and the task waits for it.
FlowOpens(t, k, S) ==
  /\ "flow" \in Features
  /\ Steps(t) /\ pc[t] = "new" /\ \E f \in Frame : path[f] = {}
  /\ ~Over(k) /\ k + Cardinality(S) > 0
  /\ LET c == NextFrame
         gain == k + Cardinality(S)
         puts == Msgs(c, k)
     IN /\ OpenFrame(c, path[frameOf[t]])
        /\ CountSent(k)
        /\ queue' = queue \o puts
        /\ inFlight' = inFlight + gain
        /\ frInFlight' = [frInFlight EXCEPT ![c] = gain]
        /\ pc' = [u \in Task |-> IF u = t THEN "child"
                                 ELSE IF u \in S THEN "new" ELSE pc[u]]
        /\ frameOf' = [u \in Task |-> IF u \in S THEN c ELSE frameOf[u]]
        /\ childOf' = [childOf EXCEPT ![t] = c]
        /\ pump' = PumpAfter(puts)
        /\ ready' = Tail(ready) \o Notice(puts) \o AsSeq(S)
  /\ UNCHANGED <<batch, interrupt, fatal, cleanup, gathered, stopped, cancelled, own,
                 closed, log, cancel, stranded, runVars>>

\* Seeding exhausts the budget: the firing ends, its frame stays in the tree.
FlowOverspends(t, k) ==
  /\ "flow" \in Features
  /\ Steps(t) /\ pc[t] = "new" /\ \E f \in Frame : path[f] = {}
  /\ Over(k)
  /\ LET c == NextFrame
         f == frameOf[t]
         puts == Msgs(c, k) \o <<Fatal>>
         done == Waiter(f, 0)
     IN /\ OpenFrame(c, path[f])
        /\ CountSent(k) /\ SetFatal("budget_exhausted")
        /\ queue' = queue \o puts \o QuietMark(Room(k))
        /\ inFlight' = inFlight + Room(k) - 1
        /\ frInFlight' = [frInFlight EXCEPT ![c] = Room(k), ![f] = @ - 1]
        /\ pc' = [u \in Task |-> IF u = t THEN "free"
                                 ELSE IF u \in done THEN "childDone" ELSE pc[u]]
        /\ frameOf' = [frameOf EXCEPT ![t] = Root]
        /\ pump' = PumpAfter(puts)
        /\ ready' = Tail(ready) \o Notice(puts) \o AsSeq(done)
  /\ UNCHANGED <<batch, interrupt, cleanup, gathered, stopped, cancelled, own, closed,
                 log, childOf, cancel, stranded, runVars>>

\* _finish_child closes the End ports of child c, judges its subtree, adds the
\* subtree's entries to the parent and detaches it; then the flow node emits,
\* its error port last when the child failed.  An unwired error port is an entry.
\* (The RuntimeError for a cancelled child has no way to occur here: see
\* ChildIsOver.)
FlowReturns(t) ==
  /\ Steps(t) /\ pc[t] = "childDone"
  /\ LET c == childOf[t]
         f == frameOf[t]
         unwritten == Unwritten(c)
         entries == SubtreeEntries(c) \cup {Len(log) + i : i \in DOMAIN unwritten}
     IN \E k \in 0 .. MaxFan, unwired \in BOOLEAN :
          /\ unwired => entries # {}
          /\ ~unwired /\ entries # {} => k > 0
          /\ FiringEnds(t, k,
                        unwritten \o (IF unwired /\ ~Over(k) THEN <<f>> ELSE <<>>),
                        IF Over(k) THEN "budget_exhausted" ELSE "none", {})
          /\ closed' = [closed EXCEPT ![f] = @ \cup entries]
          /\ frames' = frames \ Subtree(c)
  /\ UNCHANGED <<path, cancelled>>

\* A child with nothing to run (Start unwired, no fixture) opens and finishes
\* in one step; a required End port is then unwritten.
FlowReturnsAtOnce(t) ==
  /\ "hollow" \in Features
  /\ Steps(t) /\ pc[t] = "new" /\ \E f \in Frame : path[f] = {}
  /\ LET c == NextFrame
         f == frameOf[t]
     IN \E k \in 0 .. MaxFan, required \in RequiredEnd, unwired \in BOOLEAN :
          LET unwritten == Times(IF required THEN 1 ELSE 0, c) IN
          /\ unwired => required
          /\ ~unwired /\ required => k > 0
          /\ FiringEnds(t, k,
                        unwritten \o (IF unwired /\ ~Over(k) THEN <<f>> ELSE <<>>),
                        IF Over(k) THEN "budget_exhausted" ELSE "none", {})
          /\ path' = [path EXCEPT ![c] = path[f] \cup {c}]
          /\ closed' = [closed EXCEPT ![f] = @ \cup {Len(log) + i :
                                                     i \in DOMAIN unwritten}]
  /\ UNCHANGED <<frames, cancelled>>

--------------------------------------------------------------------------------
(* Cancellation of tasks and of frame subtrees *)

\* What _run_child cancels when its task is interrupted: the child's subtree.
Doomed(t) == IF pc[t] = "childDone" THEN Under(childOf[t]) ELSE {}
VictimsDirect(t) ==                           \* mutant: descendants keep running
  {u \in Live \ {t} : frameOf[u] \in Doomed(t) /\ frameOf[u] = childOf[t]}
Victims(t) == {u \in Live \ {t} : frameOf[u] \in Doomed(t)}
CancelDoomed(t) == cancelled' = [f \in Frame |-> cancelled[f] \/ f \in Doomed(t)]

\* asyncio.timeout(max_seconds) expires: CancelledError becomes pending in the
\* task.  An awaited I/O may take time to unwind, so "io" stays until IoEnds.
CeilingTrips(t) ==
  /\ "ceiling" \in Disturbances /\ CpuIdle /\ outcome = "none"
  /\ pc[t] \in {"io", "child", "ioDone", "childDone"} /\ cancel[t] = "none"
  /\ cancel' = [cancel EXCEPT ![t] = "ceiling"]
  /\ pc' = [pc EXCEPT ![t] = IF @ = "child" THEN "childDone" ELSE @]
  /\ ready' = IF pc[t] = "child" THEN Append(ready, t) ELSE ready
  /\ UNCHANGED <<queue, inFlight, sent, exhausted, batch, pumpVars, frameVars,
                 frameOf, childOf, stranded, runVars>>

\* The task resumes with TimeoutError: its child subtree, if any, has been
\* cancelled, and the firing ends with a node error.
FiringTimesOut(t) ==
  /\ Runs(t) /\ cancel[t] = "ceiling" /\ pc[t] \in {"ioDone", "childDone"}
  /\ \E k \in 0 .. MaxFan : NodeError(t, k, <<>>, Victims(t))
  /\ CancelDoomed(t)
  /\ UNCHANGED <<frames, path, closed>>

\* The task resumes with CancelledError: the finally clause still runs.
FiringUnwinds(t) ==
  /\ Runs(t) /\ cancel[t] = "frame" /\ pc[t] \in {"ioDone", "childDone"}
  /\ FiringEnds(t, 0, <<>>, "none", Victims(t))
  /\ CancelDoomed(t)
  /\ UNCHANGED <<frames, path, closed>>

\* A task cancelled before its first step never enters _fire: no finally
\* clause, no _dec.
FiringNeverStarts(t) ==
  /\ Runs(t) /\ cancel[t] # "none" /\ pc[t] = "new"
  /\ pc' = [pc EXCEPT ![t] = "free"]
  /\ cancel' = [cancel EXCEPT ![t] = "none"]
  /\ frameOf' = [frameOf EXCEPT ![t] = Root]
  /\ stranded' = stranded + 1
  /\ ready' = Tail(ready)
  /\ UNCHANGED <<queue, inFlight, sent, exhausted, batch, pumpVars, frameVars,
                 childOf, runVars>>

--------------------------------------------------------------------------------
(* The world outside: I/O, clocks, the user, the server *)

\* What a runner awaits is over: a response, a failure, a finished unwinding.
IoEnds(t) ==
  /\ CpuIdle /\ outcome = "none" /\ pc[t] = "io"
  /\ pc' = [pc EXCEPT ![t] = "ioDone"]
  /\ ready' = Append(ready, t)
  /\ UNCHANGED <<queue, inFlight, sent, exhausted, batch, pumpVars, frameVars,
                 frameOf, childOf, cancel, stranded, runVars>>

\* Where the pump is suspended inside asyncio.timeout_at.
SuspendedBusy == {"woken", "yield"}           \* mutant: get() outside the timeout
Suspended == {"get", "woken", "yield"}

\* What abort() puts to wake the pump.
AbortMark == <<Fatal>>

\* abort(), at most once: more sentinels change nothing.
Abort ==
  /\ "abort" \in Disturbances /\ CpuIdle /\ ~aborted /\ outcome = "none"
  /\ aborted' = TRUE
  /\ queue' = queue \o AbortMark
  /\ pump' = PumpAfter(AbortMark)
  /\ ready' = ready \o Notice(AbortMark)
  /\ UNCHANGED <<inFlight, sent, exhausted, batch, interrupt, fatal, cleanup,
                 gathered, stopped, frameVars, taskVars, late, outcome, sinceAbort>>

\* The clock passes the deadline, also while the pump runs.
ClockPasses ==
  /\ "deadline" \in Disturbances /\ ~late /\ outcome = "none"
  /\ pump \in {"run", "get", "woken", "yield"}
  /\ late' = TRUE
  /\ UNCHANGED <<schedVars, pumpVars, frameVars, taskVars, aborted, outcome,
                 sinceAbort>>

\* CancelledError becomes pending in execute()'s task.
Interrupts(why) ==
  /\ interrupt' = why
  /\ pump' = IF pump = "get" THEN "woken" ELSE pump
  /\ ready' = IF pump = "get" THEN Append(ready, Pump) ELSE ready
  /\ UNCHANGED <<queue, inFlight, sent, exhausted, batch, fatal, cleanup, gathered,
                 stopped, frameVars, taskVars, runVars>>

\* The timer of asyncio.timeout_at.
DeadlineFires ==
  /\ CpuIdle /\ late /\ interrupt = "none" /\ outcome = "none"
  /\ pump \in Suspended
  /\ Interrupts("deadline")

\* Someone cancels the task that awaits execute(); cleanup is shielded.
CallerCancels ==
  /\ "cancel" \in Disturbances /\ CpuIdle /\ outcome = "none"
  /\ interrupt # "caller" /\ pump # "new"
  /\ Interrupts("caller")

--------------------------------------------------------------------------------
(* _close_runtime and _finalize *)

\* Every unfinished task is cancelled; the cleanup task waits for all of them.
CleanupStarts ==
  /\ Runs(Cleanup) /\ cleanup = "new"
  /\ cleanup' = "gather"
  /\ gathered' = Live
  /\ cancel' = [t \in Task |-> IF t \in Live THEN "frame" ELSE cancel[t]]
  /\ pc' = [t \in Task |-> IF pc[t] = "child" THEN "childDone" ELSE pc[t]]
  /\ \E order \in SetToSeqs({t \in Task : pc[t] = "child"}) :
       ready' = Tail(ready) \o order
  /\ UNCHANGED <<queue, inFlight, sent, exhausted, batch, pump, interrupt, fatal,
                 stopped, frameVars, frameOf, childOf, stranded, runVars>>

\* asyncio.gather over the cancelled tasks returns.
GatherSkipped == TRUE                         \* mutant: cancelled tasks not awaited
AllGathered == gathered \cap Live = {}

\* The gathered tasks are done: HTTP sessions and workers close.
CleanupEnds ==
  /\ CpuIdle /\ cleanup = "gather" /\ AllGathered
  /\ cleanup' = "done"
  /\ UNCHANGED <<schedVars, pump, interrupt, fatal, gathered, stopped, frameVars,
                 taskVars, runVars>>

\* _finalize: close the root's End ports, then the worst outcome wins.  A
\* caller's cancellation skips it.
Finalize ==
  /\ CpuIdle /\ cleanup = "done" /\ outcome = "none"
  /\ LET unwritten == IF Root \in frames /\ interrupt # "caller"
                      THEN Unwritten(Root) ELSE <<>>
     IN /\ Record(unwritten)
        /\ outcome' = CASE interrupt = "caller" -> "cancelled"
                        [] interrupt # "caller" /\ aborted -> "aborted"
                        [] interrupt # "caller" /\ ~aborted /\ fatal # "none" -> "error"
                        [] OTHER -> IF log \o unwritten # <<>> THEN "failed" ELSE "passed"
  /\ UNCHANGED <<schedVars, pumpVars, frames, path, frInFlight, cancelled, endOpen,
                 closed, taskVars, aborted, late, sinceAbort>>

\* The finished run stays as it is.
Finished == outcome # "none" /\ UNCHANGED vars

--------------------------------------------------------------------------------
PumpStep ==
  \/ BindFails
  \/ \E k \in 0 .. MaxFan, S \in SeedTasks : SeedRoot(k, S)
  \/ \E f \in Frame :
       \/ PumpSkips(f) \/ PumpAbsorbs(f) \/ PumpWritesEnd(f) \/ PumpSpawns(f)
       \/ \E k \in 1 .. MaxFan : PumpFiresInline(f, k)
  \/ PumpBlocks \/ PumpStops \/ PumpResumes \/ PumpGivesUp \/ PumpInterrupted

TaskStep(t) ==
  \/ FiringAnswers(t) \/ FiringErrs(t) \/ FiringCrashes(t) \/ FiringWaits(t)
  \/ \E k \in 0 .. MaxFan, S \in SeedTasks : FlowOpens(t, k, S)
  \/ \E k \in 1 .. MaxFan : FlowOverspends(t, k)
  \/ FlowReturns(t) \/ FlowReturnsAtOnce(t)
  \/ FiringTimesOut(t) \/ FiringUnwinds(t) \/ FiringNeverStarts(t)

Disturb ==
  \/ \E t \in Task : CeilingTrips(t)
  \/ Abort \/ ClockPasses \/ CallerCancels

LoopStep == PumpStep \/ (\E t \in Task : TaskStep(t)) \/ CleanupStarts

Next ==
  \/ LoopStep
  \/ \E t \in Task : IoEnds(t)
  \/ DeadlineFires \/ CleanupEnds \/ Finalize \/ Disturb \/ Finished

Spec == Init /\ [][Next]_vars

\* The event loop runs what is ready, awaited I/O ends, timers fire.
Fairness ==
  /\ WF_vars(LoopStep) /\ WF_vars(CleanupEnds) /\ WF_vars(Finalize)
  /\ WF_vars(DeadlineFires)
  /\ \A t \in Task : WF_vars(IoEnds(t))

FairSpec == Spec /\ Fairness

\* The same with a run deadline, and without trusting I/O to end by itself:
\* only an interrupted await is known to unwind.
DeadlineSpec ==
  /\ Spec
  /\ WF_vars(LoopStep) /\ WF_vars(CleanupEnds) /\ WF_vars(Finalize)
  /\ WF_vars(DeadlineFires) /\ WF_vars(ClockPasses)
  /\ \A t \in Task : WF_vars(cancel[t] # "none" /\ IoEnds(t))

--------------------------------------------------------------------------------
(* Properties *)

\* Every variable stays within its type.
TypeOK ==
  /\ queue \in Seq(Item) /\ ready \in Seq(Handle)
  /\ inFlight \in Nat /\ sent \in 0 .. Budget /\ exhausted \in BOOLEAN
  /\ pump \in {"new", "run", "get", "woken", "yield", "closing"}
  /\ batch \in 0 .. BatchSize /\ interrupt \in {"none", "deadline", "caller"}
  /\ aborted \in BOOLEAN /\ late \in BOOLEAN /\ fatal \in Reason
  /\ cleanup \in {"none", "new", "gather", "done"} /\ gathered \subseteq Task
  /\ frames \subseteq Frame /\ path \in [Frame -> SUBSET Frame]
  /\ frInFlight \in [Frame -> Nat]
  /\ cancelled \in [Frame -> BOOLEAN] /\ endOpen \in [Frame -> BOOLEAN]
  /\ log \in Seq(Frame)
  /\ own \in [Frame -> SUBSET Nat] /\ closed \in [Frame -> SUBSET Nat]
  /\ pc \in [Task -> {"free"} \cup Waiting \cup Runnable]
  /\ frameOf \in [Task -> Frame] /\ childOf \in [Task -> Frame]
  /\ cancel \in [Task -> {"none", "ceiling", "frame"}]
  /\ outcome \in {"none", "passed", "failed", "error", "aborted", "cancelled"}
  /\ stranded \in Nat /\ sinceAbort \in Nat
  /\ stopped \in {"no", "quiet", "halted"}

Queued == {i \in DOMAIN queue : queue[i].tag = "msg"}
QueuedIds == {queue[i].id : i \in Queued}
Busy == Queued # {} \/ Live # {}

\* _in_flight counts exactly the queued deliveries, the unfinished tasks and
\* the tasks that were cancelled before their first step.
InFlightExact ==
  inFlight = Cardinality(QueuedIds) + Cardinality(Live) + stranded

\* Quiescence is termination: a run that stopped on its last decrement has no
\* delivery queued and no firing unfinished, in any frame.
QuietIsQuiet == stopped = "quiet" => ~Busy

\* A flow node goes on only when its child is over: nothing of the child's
\* subtree is queued or firing when its task returns normally.  (Exhausting the
\* budget while seeding a frame leaves that frame behind in a run that is over.)
ChildIsOver ==
  ~exhausted => \A t \in Task :
    pc[t] = "childDone" /\ cancel[t] = "none" =>
      /\ \A i \in Queued : childOf[t] \notin path[queue[i].frame]
                             \/ cancelled[queue[i].frame]
      /\ \A u \in Live : childOf[t] \in path[frameOf[u]] => cancelled[frameOf[u]]
      /\ ~cancelled[childOf[t]]

\* No owned task is live once the final state is reported (the comment above
\* _wait_for_cleanup in execute).
NothingLeftRunning == outcome # "none" => Live = {}

\* D20/D21: the counters of an active frame's subtree hold exactly the run-wide
\* entries whose frame id lies under that frame, each once; detaching finished
\* children and cancelling subtrees lose nothing.  (Same exception as above.)
CountersMatchLog ==
  ~exhausted => \A f \in frames :
    /\ UNION {own[g] \cup closed[g] : g \in Subtree(f)}
         = {i \in DOMAIN log : f \in path[log[i]]}
    /\ own[f] \cap closed[f] = {}
    /\ \A g \in frames \ {f} : (own[f] \cup closed[f]) \cap (own[g] \cup closed[g]) = {}

\* A green run went quiet, recorded nothing, and left no required End port
\* unwritten in a frame that was not cancelled.
NoFalseGreen ==
  outcome = "passed" =>
    /\ stopped = "quiet" /\ log = <<>> /\ fatal = "none"
    /\ \A f \in Frame : endOpen[f] => cancelled[f]

\* Once the deadline has passed while the run is pumping, the run cannot
\* settle as passed or failed.
DeadlineWins == late => stopped # "quiet" /\ outcome \notin {"passed", "failed"}

\* After abort() the pump consumes at most one more batch.
AbortIsPrompt == sinceAbort <= BatchSize

\* A cancelled frame is silent: it emits nothing, records nothing, starts no
\* task and opens no frame.
CancelledIsSilent ==
  [][\A f \in Frame : cancelled[f] =>
       /\ \A i \in DOMAIN queue' : queue'[i].id > sent => queue'[i].frame # f
       /\ \A i \in DOMAIN log' : i > Len(log) => log'[i] # f
       /\ \A t \in Task : pc'[t] # "free" /\ frameOf'[t] = f =>
                            pc[t] # "free" /\ frameOf[t] = f
       /\ \A g \in Frame : f \in path'[g] => f \in path[g]]_vars

\* Every run reports a final state.
Terminates == <>(outcome # "none")

\* A run with nothing left to do reports a final state (engine spec section 3:
\* "Quiescence = termination").
QuietTerminates == (pump # "new" /\ ~Busy) ~> outcome # "none"

\* Engine spec section 3: an exhausted message budget makes the run `error`.
BudgetHitIsError ==
  exhausted /\ outcome # "none" => outcome \in {"error", "aborted", "cancelled"}

\* The run keeps the contract of RunContract.
Contract == INSTANCE RunContract WITH
  Stopped <- {"error", "aborted", "cancelled"},
  Settled <- {"passed", "failed", "aborted", "cancelled"},
  busy <- Busy,
  phase <- CASE pump = "new" -> "new"
             [] pump # "new" /\ stopped = "no" -> "pumping"
             [] OTHER -> stopped
KeepsContract == Contract!Spec
================================================================================
