----------------------------- MODULE WorkerPool -----------------------------
(***************************************************************************)
(* The Python workers of a run: one process for the flow's nodes.py, to    *)
(* which firings send tasks one at a time, and which is replaced when it   *)
(* died or when a task it was given was cancelled. Calls wait for the      *)
(* pool's spawn lock, for a new process, for the worker's lock and for an  *)
(* answer; they can be cancelled at each of these awaits, the process can  *)
(* die or talk nonsense at any time, and the run can be closed at any time.*)
(*                                                                         *)
(* An action is what the event loop, a process or the caller does between  *)
(* two awaits. Tasks that are ready run in any order. A worker is numbered *)
(* by the spawn that made it. Code: core/worker.py, core/worker_main.py.   *)
(***************************************************************************)
EXTENDS Integers, FiniteSets

CONSTANTS
  Call,        \* the firings of python nodes
  NoCall,
  MaxWorkers,  \* bound: spawns; one more fails as a spawn may
  MaxFaults    \* bound: processes that die, fall silent or talk nonsense

Worker == 1..MaxWorkers
None == 0

ASSUME NoCallAssumption == NoCall \notin Call
ASSUME BoundsAssumption == MaxWorkers \in Nat /\ MaxFaults \in Nat

VARIABLES
  pc,         \* call -> the await it is at
  attempt,    \* call -> which of its two attempts this is
  mine,       \* call -> the worker it was handed
  future,     \* call -> the state of its entry in _pending
  result,     \* call -> how WorkerPool.call ended
  spawnLock,  \* the call that holds the pool's _spawn_lock
  current,    \* _workers[nodes_path]
  spawned,    \* how many processes were started
  lock,       \* worker -> the call that holds its _lock
  proc,       \* worker -> its process
  ready,      \* worker -> the ready handshake was read
  dead,       \* worker -> _Worker.dead
  pump,       \* worker -> its protocol reader
  ending,     \* worker -> it was told to end: SIGTERM and then SIGKILL, or EOF
  request,    \* worker -> the task its process has read
  reply,      \* worker -> the answer in its pipe
  sentTo,     \* history: call -> the workers its task was written to
  failed,     \* history: worker -> its process failed on its own
  faults,
  phase       \* the run: running, cleaning (firings are cancelled), closing, closed

callVars == <<pc, attempt, mine, future, result, sentTo>>
poolVars == <<spawnLock, current, spawned>>
procVars == <<proc, ready, dead, pump, ending, request, reply, failed>>
vars == <<callVars, poolVars, lock, procVars, faults, phase>>

TypeOK ==
  /\ pc \in [Call -> {"idle", "wantsSpawn", "replacing", "spawning", "wantsWorker", "sent",
                      "broken", "killing", "ended"}]
  /\ attempt \in [Call -> 1..2]
  /\ mine \in [Call -> Worker \cup {None}]
  /\ future \in [Call -> {"none", "waits", "value", "crash"}]
  /\ result \in [Call -> {"none", "answer", "error", "crash", "cancelled"}]
  /\ sentTo \in [Call -> SUBSET Worker]
  /\ spawnLock \in Call \cup {NoCall}
  /\ current \in Worker \cup {None}
  /\ spawned \in 0..MaxWorkers
  /\ lock \in [Worker -> Call \cup {NoCall}]
  /\ proc \in [Worker -> {"none", "starting", "alive", "mute", "exited"}]
  /\ ready \in [Worker -> BOOLEAN]
  /\ dead \in [Worker -> BOOLEAN]
  /\ pump \in [Worker -> {"reads", "reaps", "done"}]
  /\ ending \in [Worker -> BOOLEAN]
  /\ request \in [Worker -> Call \cup {NoCall}]
  /\ reply \in [Worker -> Call \cup {NoCall}]
  /\ failed \in [Worker -> BOOLEAN]
  /\ faults \in 0..MaxFaults
  /\ phase \in {"running", "cleaning", "closing", "closed"}

Init ==
  /\ pc = [c \in Call |-> "idle"]
  /\ attempt = [c \in Call |-> 1]
  /\ mine = [c \in Call |-> None]
  /\ future = [c \in Call |-> "none"]
  /\ result = [c \in Call |-> "none"]
  /\ sentTo = [c \in Call |-> {}]
  /\ spawnLock = NoCall
  /\ current = None
  /\ spawned = 0
  /\ lock = [w \in Worker |-> NoCall]
  /\ proc = [w \in Worker |-> "none"]
  /\ ready = [w \in Worker |-> FALSE]
  /\ dead = [w \in Worker |-> FALSE]
  /\ pump = [w \in Worker |-> "reads"]
  /\ ending = [w \in Worker |-> FALSE]
  /\ request = [w \in Worker |-> NoCall]
  /\ reply = [w \in Worker |-> NoCall]
  /\ failed = [w \in Worker |-> FALSE]
  /\ faults = 0
  /\ phase = "running"

Set(f, x, value) == [f EXCEPT ![x] = value]
Goto(c, stage) == pc' = Set(pc, c, stage)
Ends(c, how) ==
  /\ Goto(c, "ended")
  /\ result' = Set(result, c, how)
  /\ attempt' = Set(attempt, c, 1)
  /\ mine' = Set(mine, c, None)
IsOver(w) == proc[w] \in {"none", "exited"}

\* What a fault of the process does to the bounds and to the history.
Fault(w) ==
  /\ faults < MaxFaults
  /\ faults' = faults + 1
  /\ failed' = Set(failed, w, TRUE)

\* _record_failure: the entry that waits fails.
FailPending(w) ==
  future' = [c \in Call |-> IF mine[c] = w /\ future[c] = "waits" THEN "crash" ELSE future[c]]

\* terminate(): dead first; the signals follow, and no await is left out of it.
Terminate(w) == dead' = Set(dead, w, TRUE) /\ ending' = Set(ending, w, TRUE)
\* Its end: the process is gone and its readers are joined.
IsTerminated(w) == IsOver(w) /\ (proc[w] = "exited" => pump[w] = "done")

-----------------------------------------------------------------------------
(* A call: WorkerPool.call, _get_or_spawn and _Worker.call. *)

StartCall(c) ==
  /\ pc[c] = "idle"
  /\ phase = "running"
  /\ Goto(c, "wantsSpawn")
  /\ UNCHANGED <<attempt, mine, future, result, sentTo, poolVars, lock, procVars,
                 faults, phase>>

\* create_subprocess_exec, under the spawn lock: it starts a process or fails.
Spawns(c) ==
  \/ /\ spawned < MaxWorkers
     /\ spawned' = spawned + 1
     /\ current' = spawned + 1
     /\ mine' = Set(mine, c, spawned + 1)
     /\ proc' = Set(proc, spawned + 1, "starting")
     /\ spawnLock' = c
     /\ Goto(c, "spawning")
     /\ UNCHANGED <<attempt, result, faults>>
  \/ /\ spawned = MaxWorkers \/ faults < MaxFaults
     /\ faults' = IF faults < MaxFaults THEN faults + 1 ELSE faults
     /\ current' = None
     /\ spawnLock' = NoCall
     /\ Ends(c, "crash")
     /\ UNCHANGED <<spawned, proc>>

TakeSpawnLock(c) ==
  /\ pc[c] = "wantsSpawn"
  /\ spawnLock = NoCall
  /\ \/ /\ current # None /\ ~dead[current]
        /\ mine' = Set(mine, c, current)
        /\ Goto(c, "wantsWorker")
        /\ UNCHANGED <<attempt, result, poolVars, proc, dead, ending, faults>>
     \/ /\ current # None /\ dead[current]
        /\ mine' = Set(mine, c, current)
        /\ spawnLock' = c
        /\ Terminate(current)
        /\ Goto(c, "replacing")
        /\ UNCHANGED <<attempt, result, current, spawned, proc, faults>>
     \/ /\ current = None
        /\ Spawns(c)
        /\ UNCHANGED <<dead, ending>>
  /\ UNCHANGED <<future, sentTo, lock, ready, pump, request, reply, failed,
                 phase>>

ReplaceAtOnce(c) ==                            \* mutant: the old process is not awaited
  /\ pc[c] = "replacing"
  /\ Spawns(c)
  /\ UNCHANGED <<future, sentTo, lock, ready, dead, pump, ending, request, reply, failed,
                 phase>>
\* The replacement starts when the old process is over.
Replace(c) ==
  /\ pc[c] = "replacing"
  /\ IsTerminated(mine[c])
  /\ Spawns(c)
  /\ UNCHANGED <<future, sentTo, lock, ready, dead, pump, ending, request,
                 reply, failed, phase>>

\* start() returns on the handshake and raises on the recorded failure.
Spawned(c) ==
  /\ pc[c] = "spawning"
  /\ \/ ready[mine[c]] /\ Goto(c, "wantsWorker") /\ UNCHANGED <<attempt, mine, result>>
     \/ ~ready[mine[c]] /\ pump[mine[c]] = "done" /\ Ends(c, "crash")
  /\ spawnLock' = NoCall
  /\ UNCHANGED <<future, sentTo, current, spawned, lock, procVars,
                 faults, phase>>

\* With the worker's lock: a worker that died meanwhile was sent nothing, so
\* the first attempt is repeated; inputs that cannot be encoded are not sent.
TakeWorker(c) ==
  LET w == mine[c] IN
  /\ pc[c] = "wantsWorker"
  /\ lock[w] = NoCall
  /\ \/ /\ dead[w] /\ attempt[c] = 1
        /\ attempt' = Set(attempt, c, 2)
        /\ Goto(c, "wantsSpawn")
        /\ UNCHANGED <<mine, future, result, sentTo, lock, request>>
     \/ /\ dead[w] /\ attempt[c] = 2
        /\ Ends(c, "crash")
        /\ UNCHANGED <<future, sentTo, lock, request>>
     \/ /\ ~dead[w]
        /\ lock' = Set(lock, w, c)
        /\ future' = Set(future, c, "waits")
        /\ sentTo' = [sentTo EXCEPT ![c] = @ \cup {w}]
        /\ request' = IF proc[w] = "alive" THEN Set(request, w, c) ELSE request
        /\ Goto(c, "sent")
        /\ UNCHANGED <<attempt, mine, result>>
     \/ /\ ~dead[w]
        /\ Ends(c, "error")
        /\ UNCHANGED <<future, sentTo, lock, request>>
  /\ UNCHANGED <<poolVars, proc, ready, dead, pump, ending, reply, failed,
                 faults, phase>>

AnsweredOrRetried(c) ==                        \* mutant: a crash is retried, sent or not
  /\ pc[c] = "sent"
  /\ \/ future[c] = "value" /\ Ends(c, "answer")
     \/ /\ future[c] = "crash" /\ attempt[c] = 1
        /\ attempt' = Set(attempt, c, 2)
        /\ Goto(c, "wantsSpawn")
        /\ UNCHANGED <<result, mine>>
     \/ future[c] = "crash" /\ attempt[c] = 2 /\ Ends(c, "crash")
  /\ future' = Set(future, c, "none")
  /\ lock' = Set(lock, mine[c], NoCall)
  /\ UNCHANGED <<sentTo, poolVars, procVars, faults, phase>>
Answered(c) ==
  /\ pc[c] = "sent"
  /\ \/ future[c] = "value" /\ Ends(c, "answer")
     \/ future[c] = "crash" /\ Ends(c, "crash")
  /\ future' = Set(future, c, "none")
  /\ lock' = Set(lock, mine[c], NoCall)
  /\ UNCHANGED <<sentTo, poolVars, procVars, faults, phase>>

\* The write or its drain meets a closed pipe. The entry is dropped; the
\* process is reaped, the failure recorded and the worker terminated.
WriteFails(c) ==
  /\ pc[c] = "sent"
  /\ future[c] = "waits"
  /\ proc[mine[c]] = "exited"
  /\ future' = Set(future, c, "none")
  /\ Goto(c, "broken")
  /\ UNCHANGED <<attempt, mine, result, sentTo, poolVars, lock, procVars, faults,
                 phase>>

BrokenEnds(c) ==
  /\ pc[c] = "broken"
  /\ IsTerminated(mine[c])
  /\ Terminate(mine[c])
  /\ lock' = Set(lock, mine[c], NoCall)
  /\ Ends(c, "crash")
  /\ UNCHANGED <<future, sentTo, poolVars, proc, ready, pump, request,
                 reply, failed, faults, phase>>

-----------------------------------------------------------------------------
(* Cancellation: a ceiling, the deadline, an abort or the end of the run. It *)
(* reaches a call at the await where it is, whatever has become ready there. *)

CancelQueuedKills(c) ==                        \* mutant: a queued call kills its worker too
  /\ \/ /\ pc[c] = "wantsSpawn"
        /\ Ends(c, "cancelled")
        /\ UNCHANGED <<dead, ending>>
     \/ /\ pc[c] = "wantsWorker"
        /\ Terminate(mine[c])
        /\ Goto(c, "killing")
        /\ UNCHANGED <<attempt, mine, result>>
  /\ UNCHANGED <<future, sentTo, poolVars, lock, proc, ready, pump, request, reply, failed,
                 faults, phase>>
\* Who waits for the spawn lock simply goes. Who waits for the worker's lock
\* goes too, and ends the worker first only if it is dead already.
CancelQueued(c) ==
  /\ \/ /\ pc[c] = "wantsSpawn" \/ (pc[c] = "wantsWorker" /\ ~dead[mine[c]])
        /\ Ends(c, "cancelled")
        /\ UNCHANGED <<dead, ending>>
     \/ /\ pc[c] = "wantsWorker" /\ dead[mine[c]]
        /\ Terminate(mine[c])
        /\ Goto(c, "killing")
        /\ UNCHANGED <<attempt, mine, result>>
  /\ UNCHANGED <<future, sentTo, poolVars, lock, proc, ready, pump,
                 request, reply, failed, faults, phase>>

CancelSentAtOnce(c) ==                         \* mutant: the termination is not awaited
  /\ pc[c] = "sent"
  /\ future' = Set(future, c, "none")
  /\ lock' = Set(lock, mine[c], NoCall)
  /\ Terminate(mine[c])
  /\ Ends(c, "cancelled")
  /\ UNCHANGED <<sentTo, poolVars, proc, ready, pump, request, reply, failed, faults, phase>>
\* The task was sent, answered or not: the worker is dead for everybody and
\* is terminated before the cancellation goes on.
CancelSent(c) ==
  /\ pc[c] = "sent"
  /\ future' = Set(future, c, "none")
  /\ lock' = Set(lock, mine[c], NoCall)
  /\ Terminate(mine[c])
  /\ Goto(c, "killing")
  /\ UNCHANGED <<attempt, mine, result, sentTo, poolVars, proc, ready, pump, request,
                 reply, failed, faults, phase>>

\* Under the spawn lock, which is kept until the worker has ended.
CancelSpawning(c) ==
  /\ pc[c] \in {"replacing", "spawning"}
  /\ Terminate(mine[c])
  /\ Goto(c, "killing")
  /\ UNCHANGED <<attempt, mine, future, result, sentTo, poolVars, lock, proc, ready,
                 pump, request, reply, failed, faults, phase>>

\* While the write's failure is being handled: the worker need not be known
\* to be dead yet.
CancelBroken(c) ==
  /\ pc[c] = "broken"
  /\ lock' = Set(lock, mine[c], NoCall)
  /\ \/ dead[mine[c]] /\ Terminate(mine[c]) /\ Goto(c, "killing") /\ UNCHANGED <<attempt, mine, result>>
     \/ ~dead[mine[c]] /\ Ends(c, "cancelled") /\ UNCHANGED <<dead, ending>>
  /\ UNCHANGED <<future, sentTo, poolVars, proc, ready, pump, request,
                 reply, failed, faults, phase>>

\* _terminate_cancel_safe swallows further cancellations until it is done.
Killed(c) ==
  /\ pc[c] = "killing"
  /\ IsTerminated(mine[c])
  /\ spawnLock' = IF spawnLock = c THEN NoCall ELSE spawnLock
  /\ Ends(c, "cancelled")
  /\ UNCHANGED <<future, sentTo, current, spawned, lock, procVars,
                 faults, phase>>

-----------------------------------------------------------------------------
(* A worker's process, and the task that reads its protocol. *)

\* The child has imported nodes.py, and its handshake is read.
Ready(w) ==
  /\ proc[w] = "starting"
  /\ proc' = Set(proc, w, "alive")
  /\ ready' = Set(ready, w, TRUE)
  /\ UNCHANGED <<callVars, poolVars, lock, dead, pump, ending, request, reply, failed, faults,
                 phase>>

\* The function returned or raised; either way there is one answer.
Answers(w) ==
  /\ proc[w] = "alive"
  /\ request[w] # NoCall
  /\ request' = Set(request, w, NoCall)
  /\ reply' = Set(reply, w, request[w])
  /\ UNCHANGED <<callVars, poolVars, lock, proc, ready, dead, pump, ending, failed, faults,
                 phase>>

\* It dies, or closes its output and lives on.
ProcFails(w) ==
  /\ proc[w] \in {"starting", "alive"}
  /\ Fault(w)
  /\ \E state \in {"exited", "mute"} : proc' = Set(proc, w, state)
  /\ UNCHANGED <<callVars, poolVars, lock, ready, dead, pump, ending, request, reply, phase>>

\* Told to, it ends: by itself, by SIGTERM or by SIGKILL after the grace.
ProcEnds(w) ==
  /\ ending[w]
  /\ ~IsOver(w)
  /\ proc' = Set(proc, w, "exited")
  /\ UNCHANGED <<callVars, poolVars, lock, ready, dead, pump, ending, request, reply, failed,
                 faults, phase>>

\* An answer settles its own call, unless that has been given up.
PumpReply(w) ==
  /\ pump[w] = "reads"
  /\ reply[w] # NoCall
  /\ future' = IF future[reply[w]] = "waits" /\ mine[reply[w]] = w
               THEN Set(future, reply[w], "value") ELSE future
  /\ reply' = Set(reply, w, NoCall)
  /\ UNCHANGED <<pc, attempt, mine, result, sentTo, poolVars, lock, proc, ready, dead,
                 pump, ending, request, failed, faults, phase>>

\* EOF: dead at once, the failure is recorded after the process was reaped.
PumpEof(w) ==
  /\ pump[w] = "reads"
  /\ reply[w] = NoCall
  /\ proc[w] \in {"exited", "mute"}
  /\ dead' = Set(dead, w, TRUE)
  /\ pump' = Set(pump, w, "reaps")
  /\ UNCHANGED <<callVars, poolVars, lock, proc, ready, ending, request, reply, failed,
                 faults, phase>>

\* A process that closed its output and lives is terminated after the grace.
PumpReaps(w) ==
  /\ pump[w] = "reaps"
  /\ FailPending(w)
  /\ pump' = Set(pump, w, "done")
  /\ ending' = IF IsOver(w) THEN ending ELSE Set(ending, w, TRUE)
  /\ UNCHANGED <<pc, attempt, mine, result, sentTo, poolVars, lock, proc, ready, dead,
                 request, reply, failed, faults, phase>>

\* A failed import, a line that is no message or a line too long, on either
\* pipe: the failure is recorded and the process terminated.
PumpJunk(w) ==
  /\ pump[w] = "reads"
  /\ proc[w] \in {"starting", "alive"}
  /\ Fault(w)
  /\ FailPending(w)
  /\ Terminate(w)
  /\ pump' = Set(pump, w, "done")
  /\ UNCHANGED <<pc, attempt, mine, result, sentTo, poolVars, lock, proc, ready,
                 request, reply, phase>>

-----------------------------------------------------------------------------
(* The end of the run: firings are cancelled and gathered, then the pool closes. *)

Cleanup ==
  /\ phase = "running"
  /\ phase' = "cleaning"
  /\ UNCHANGED <<pc, attempt, mine, future, result, sentTo, poolVars, lock, procVars, faults>>

ShutdownUnsaid ==                              \* mutant: the pipe is not closed
  /\ phase = "cleaning"
  /\ \A c \in Call : pc[c] \in {"idle", "ended"}
  /\ phase' = "closing"
  /\ dead' = IF current = None THEN dead ELSE Set(dead, current, TRUE)
  /\ UNCHANGED <<callVars, poolVars, lock, proc, ready, pump, ending, request, reply, failed,
                 faults>>
\* close(): the worker the pool knows gets EOF, then the signals.
Shutdown ==
  /\ phase = "cleaning"
  /\ \A c \in Call : pc[c] \in {"idle", "ended"}
  /\ phase' = "closing"
  /\ IF current = None THEN UNCHANGED <<dead, ending>> ELSE Terminate(current)
  /\ UNCHANGED <<callVars, poolVars, lock, proc, ready, pump, request, reply, failed, faults>>

Closed ==
  /\ phase = "closing"
  /\ current # None => IsTerminated(current)
  /\ phase' = "closed"
  /\ UNCHANGED <<callVars, poolVars, lock, procVars, faults>>

-----------------------------------------------------------------------------
\* Once the run is cleaned up, a call only ever gets its cancellation.
Proceeds(c) ==
  /\ phase = "running"
  /\ \/ TakeSpawnLock(c) \/ Replace(c) \/ Spawned(c) \/ TakeWorker(c) \/ Answered(c)
     \/ WriteFails(c) \/ BrokenEnds(c)
IsCancelled(c) ==
  CancelQueued(c) \/ CancelSent(c) \/ CancelSpawning(c) \/ CancelBroken(c) \/ Killed(c)
Pumps(w) == PumpReply(w) \/ PumpEof(w) \/ PumpReaps(w)
Closes == Shutdown \/ Closed

Next ==
  \/ \E c \in Call : StartCall(c) \/ Proceeds(c) \/ IsCancelled(c)
  \/ \E w \in Worker : Ready(w) \/ Answers(w) \/ ProcFails(w) \/ ProcEnds(w) \/ Pumps(w)
                       \/ PumpJunk(w)
  \/ Cleanup \/ Closes

\* The event loop runs what is ready, and a process that is killed exits. A
\* function need not return, nor an import, and nobody need end the run.
Fairness ==
  /\ \A c \in Call : /\ WF_vars(Proceeds(c))
                     /\ WF_vars(phase = "cleaning" /\ IsCancelled(c))
                     /\ WF_vars(Killed(c))
  /\ \A w \in Worker : WF_vars(ProcEnds(w)) /\ WF_vars(Pumps(w))
  /\ WF_vars(Closes)

Spec == Init /\ [][Next]_vars /\ Fairness

-----------------------------------------------------------------------------
(* Properties. *)

\* A module's processes never overlap: a replacement is started only when the
\* process before it can commit no more work.
NoOverlap == \A v, w \in Worker : ~IsOver(v) /\ ~IsOver(w) => v = w

\* A task is written to one process at most: what was sent is never sent
\* again, however it failed.
SentOnce == \A c \in Call : Cardinality(sentTo[c]) <= 1

\* When the cancellation of a call reaches its caller, no process still works
\* on what the call had sent.
CancelledIsStopped ==
  \A c \in Call : result[c] = "cancelled" => \A w \in sentTo[c] : IsOver(w)

\* A call that was sent is reported as a crash only if its own process failed
\* by itself: the cancellation of another call costs nobody an answer.
CrashIsReal ==
  \A c \in Call : result[c] = "crash" => \A w \in sentTo[c] : failed[w]

\* A run that is cleaned up comes to its end, also when functions never
\* return, and leaves no process.
CleanupEnds ==
  phase = "cleaning" ~> (phase = "closed" /\ \A w \in Worker : IsOver(w))
=============================================================================
