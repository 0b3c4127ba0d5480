---------------------------- MODULE WorkerPoolProofs ----------------------------
(***************************************************************************)
(* For any number of calls, spawns and faults: processes do not overlap,   *)
(* nothing is sent twice, no cancelled work goes on, and a reported crash  *)
(* is one. Two exclusions carry the argument: the spawn lock, under which  *)
(* only the latest process can be running, and the worker's lock, which    *)
(* makes the call that was sent the only one its end can concern.          *)
(***************************************************************************)
EXTENDS WorkerPool, FiniteSetTheorems, TLAPS

Unsent == {"idle", "wantsSpawn", "replacing", "spawning", "wantsWorker"}
Owns(c) == pc[c] \in {"sent", "broken"}

\* Under the spawn lock: who replaces or spawns is alone with the current worker,
\* which is the latest, and every other process is over.
SpawnInv ==
  /\ \A c \in Call : pc[c] \in {"replacing", "spawning"} =>
       spawnLock = c /\ mine[c] = current /\ current # None
  /\ \A c \in Call : pc[c] = "replacing" => dead[mine[c]]
  /\ \A c, d \in Call : pc[c] = "spawning" /\ mine[d] = mine[c] => c = d
  /\ current # None => current = spawned
  /\ \A w \in Worker : w # current => IsOver(w)
  /\ \A w \in Worker : proc[w] = "none" <=> w > spawned

\* A call and the worker it was handed.
HandedInv(c) ==
  /\ mine[c] <= spawned
  /\ pc[c] \in {"replacing", "spawning", "wantsWorker", "sent", "broken", "killing"} =>
       mine[c] # None
  /\ Owns(c) => lock[mine[c]] = c
  /\ future[c] # "none" => pc[c] = "sent"
  /\ future[c] = "crash" => failed[mine[c]]
  /\ pc[c] = "sent" /\ dead[mine[c]] => failed[mine[c]]
  /\ pc[c] = "broken" => proc[mine[c]] = "exited" /\ failed[mine[c]]

\* What was sent, and what became of it.
SentInv(c) ==
  /\ pc[c] \in Unsent => sentTo[c] = {}
  /\ Owns(c) => sentTo[c] = {mine[c]}
  /\ pc[c] = "killing" => sentTo[c] \subseteq {mine[c]}
  /\ pc[c] = "ended" => sentTo[c] = {} \/ \E w \in Worker : sentTo[c] = {w}
  /\ pc[c] # "ended" => result[c] = "none"
  /\ result[c] = "cancelled" => \A w \in sentTo[c] : proc[w] = "exited"
  /\ result[c] = "crash" => \A w \in sentTo[c] : failed[w]

\* Before a worker is known to be dead nobody has told it to end, and its reader
\* reads; its process ends because it was told to or because it failed.
WorkerInv(w) ==
  /\ ending[w] => dead[w]
  /\ pump[w] # "reads" => dead[w]
  /\ proc[w] \in {"exited", "mute"} => failed[w] \/ ending[w]

IInv ==
  /\ TypeOK
  /\ SpawnInv
  /\ \A c \in Call : HandedInv(c) /\ SentInv(c)
  /\ \A w \in Worker : WorkerInv(w)

-----------------------------------------------------------------------------
(* Types. *)

LEMMA TypeInit == Init => TypeOK
BY BoundsAssumption DEF Init, TypeOK, None

\* The spawn lock, the worker it was taken for, and the one it made.
LEMMA SpawnsTypes ==
  ASSUME TypeOK, NEW c \in Call, Spawns(c)
  PROVE  /\ pc' \in [Call -> {"idle", "wantsSpawn", "replacing", "spawning", "wantsWorker",
                              "sent", "broken", "killing", "ended"}]
         /\ attempt' \in [Call -> 1..2]
         /\ mine' \in [Call -> Worker \cup {None}]
         /\ result' \in [Call -> {"none", "answer", "error", "crash", "cancelled"}]
         /\ spawnLock' \in Call \cup {NoCall}
         /\ current' \in Worker \cup {None}
         /\ spawned' \in 0..MaxWorkers
         /\ proc' \in [Worker -> {"none", "starting", "alive", "mute", "exited"}]
         /\ faults' \in 0..MaxFaults
<1>1. CASE spawned < MaxWorkers /\ spawned' = spawned + 1 /\ current' = spawned + 1
           /\ mine' = Set(mine, c, spawned + 1) /\ proc' = Set(proc, spawned + 1, "starting")
           /\ spawnLock' = c /\ Goto(c, "spawning") /\ UNCHANGED <<attempt, result, faults>>
  <2>1. spawned + 1 \in Worker /\ spawned + 1 \in 0..MaxWorkers
    BY <1>1, BoundsAssumption DEF TypeOK, Worker
  <2> QED
    BY <1>1, <2>1 DEF TypeOK, Set, Goto
<1>2. CASE faults' = (IF faults < MaxFaults THEN faults + 1 ELSE faults) /\ current' = None
           /\ spawnLock' = NoCall /\ Ends(c, "crash") /\ UNCHANGED <<spawned, proc>>
  <2>1. faults' \in 0..MaxFaults
    BY <1>2, BoundsAssumption DEF TypeOK
  <2> QED
    BY <1>2, <2>1 DEF TypeOK, Set, Goto, Ends
<1> QED
  BY <1>1, <1>2 DEF Spawns

LEMMA EndsTypes ==
  ASSUME TypeOK, NEW c \in Call, NEW how \in {"answer", "error", "crash", "cancelled"}, Ends(c, how)
  PROVE  /\ pc' \in [Call -> {"idle", "wantsSpawn", "replacing", "spawning", "wantsWorker",
                              "sent", "broken", "killing", "ended"}]
         /\ attempt' \in [Call -> 1..2]
         /\ mine' \in [Call -> Worker \cup {None}]
         /\ result' \in [Call -> {"none", "answer", "error", "crash", "cancelled"}]
BY DEF TypeOK, Ends, Goto, Set

LEMMA CallTypes ==
  ASSUME TypeOK, NEW c \in Call, pc[c] = "wantsWorker" => mine[c] \in Worker,
         StartCall(c) \/ Proceeds(c) \/ IsCancelled(c)
  PROVE  TypeOK'
<1> USE DEF Set, Goto
<1>0. \A how \in {"answer", "error", "crash", "cancelled"} : Ends(c, how) =>
        /\ pc' \in [Call -> {"idle", "wantsSpawn", "replacing", "spawning", "wantsWorker",
                             "sent", "broken", "killing", "ended"}]
        /\ attempt' \in [Call -> 1..2]
        /\ mine' \in [Call -> Worker \cup {None}]
        /\ result' \in [Call -> {"none", "answer", "error", "crash", "cancelled"}]
  BY EndsTypes
<1>1. CASE StartCall(c)
  BY <1>1 DEF TypeOK, StartCall, poolVars, procVars
<1>2. CASE TakeSpawnLock(c)
  <2>1. CASE Spawns(c) /\ UNCHANGED <<dead, ending>>
    BY <1>2, <2>1, SpawnsTypes DEF TypeOK, TakeSpawnLock
  <2>2. CASE current # None /\ UNCHANGED <<attempt, result, poolVars, proc, dead, ending, faults>>
             /\ mine' = Set(mine, c, current) /\ Goto(c, "wantsWorker")
    BY <1>2, <2>2 DEF TypeOK, TakeSpawnLock, poolVars
  <2>3. CASE current # None /\ UNCHANGED <<attempt, result, current, spawned, proc, faults>>
             /\ mine' = Set(mine, c, current) /\ Goto(c, "replacing") /\ spawnLock' = c
             /\ Terminate(current)
    BY <1>2, <2>3 DEF TypeOK, TakeSpawnLock, Terminate
  <2> QED
    BY <1>2, <2>1, <2>2, <2>3 DEF TakeSpawnLock
<1>3. CASE Replace(c)
  BY <1>3, SpawnsTypes DEF TypeOK, Replace
<1>4. CASE Spawned(c)
  BY <1>0, <1>4 DEF TypeOK, Spawned, procVars
<1>5. CASE TakeWorker(c)
  <2>1. CASE ~dead[mine[c]] /\ Goto(c, "sent")
             /\ lock' = Set(lock, mine[c], c) /\ future' = Set(future, c, "waits")
             /\ sentTo' = [sentTo EXCEPT ![c] = @ \cup {mine[c]}]
             /\ request' = (IF proc[mine[c]] = "alive" THEN Set(request, mine[c], c) ELSE request)
             /\ UNCHANGED <<attempt, mine, result>>
    <3>1. mine[c] \in Worker
      BY <1>5 DEF TakeWorker
    <3> QED
      BY <1>5, <2>1, <3>1 DEF TypeOK, TakeWorker, poolVars
  <2>2. CASE (\E how \in {"crash", "error"} : Ends(c, how))
             /\ UNCHANGED <<future, sentTo, lock, request>>
    BY <1>0, <1>5, <2>2 DEF TypeOK, TakeWorker, poolVars
  <2>3. CASE attempt' = Set(attempt, c, 2) /\ Goto(c, "wantsSpawn")
             /\ UNCHANGED <<mine, future, result, sentTo, lock, request>>
    BY <1>5, <2>3 DEF TypeOK, TakeWorker, poolVars
  <2> QED
    BY <1>5, <2>1, <2>2, <2>3 DEF TakeWorker
<1>6. CASE Answered(c)
  BY <1>0, <1>6 DEF TypeOK, Answered, poolVars, procVars
<1>7. CASE WriteFails(c)
  BY <1>7 DEF TypeOK, WriteFails, poolVars, procVars
<1>8. CASE BrokenEnds(c)
  BY <1>0, <1>8 DEF TypeOK, BrokenEnds, Terminate, poolVars
<1>9. CASE CancelQueued(c)
  <2>1. CASE Ends(c, "cancelled") /\ UNCHANGED <<dead, ending>>
    BY <1>0, <1>9, <2>1 DEF TypeOK, CancelQueued, poolVars
  <2>2. CASE Terminate(mine[c]) /\ Goto(c, "killing") /\ UNCHANGED <<attempt, mine, result>>
    BY <1>9, <2>2 DEF TypeOK, CancelQueued, Terminate, poolVars
  <2> QED
    BY <1>9, <2>1, <2>2 DEF CancelQueued
<1>10. CASE CancelSent(c)
  BY <1>10 DEF TypeOK, CancelSent, Terminate, poolVars
<1>11. CASE CancelSpawning(c)
  BY <1>11 DEF TypeOK, CancelSpawning, Terminate, poolVars
<1>12. CASE CancelBroken(c)
  <2>1. CASE Ends(c, "cancelled") /\ UNCHANGED <<dead, ending>>
    BY <1>0, <1>12, <2>1 DEF TypeOK, CancelBroken, poolVars
  <2>2. CASE Terminate(mine[c]) /\ Goto(c, "killing") /\ UNCHANGED <<attempt, mine, result>>
    BY <1>12, <2>2 DEF TypeOK, CancelBroken, Terminate, poolVars
  <2> QED
    BY <1>12, <2>1, <2>2 DEF CancelBroken
<1>13. CASE Killed(c)
  BY <1>0, <1>13 DEF TypeOK, Killed, procVars
<1> QED
  BY <1>1, <1>2, <1>3, <1>4, <1>5, <1>6, <1>7, <1>8, <1>9, <1>10, <1>11, <1>12, <1>13
     DEF Proceeds, IsCancelled

WorkerSteps(w) == \/ Ready(w) \/ Answers(w) \/ ProcFails(w) \/ ProcEnds(w) \/ PumpReply(w)
                  \/ PumpEof(w) \/ PumpReaps(w) \/ PumpJunk(w)

LEMMA WorkerTypes ==
  ASSUME TypeOK, NEW w \in Worker, WorkerSteps(w)
  PROVE  TypeOK'
<1>1. Fault(w) => faults' \in 0..MaxFaults /\ failed' \in [Worker -> BOOLEAN]
  BY BoundsAssumption DEF TypeOK, Fault, Set
<1> USE DEF Set
<1>2. CASE Ready(w)
  BY <1>2 DEF TypeOK, Ready, callVars, poolVars
<1>3. CASE Answers(w)
  BY <1>3 DEF TypeOK, Answers, callVars, poolVars
<1>4. CASE ProcFails(w)
  BY <1>1, <1>4 DEF TypeOK, ProcFails, callVars, poolVars
<1>5. CASE ProcEnds(w)
  BY <1>5 DEF TypeOK, ProcEnds, callVars, poolVars
<1>6. CASE PumpReply(w)
  BY <1>6 DEF TypeOK, PumpReply, poolVars
<1>7. CASE PumpEof(w)
  BY <1>7 DEF TypeOK, PumpEof, callVars, poolVars
<1>8. CASE PumpReaps(w)
  BY <1>8 DEF TypeOK, PumpReaps, FailPending, poolVars
<1>9. CASE PumpJunk(w)
  BY <1>1, <1>9 DEF TypeOK, PumpJunk, FailPending, Terminate, poolVars
<1> QED
  BY <1>2, <1>3, <1>4, <1>5, <1>6, <1>7, <1>8, <1>9 DEF WorkerSteps

LEMMA PhaseTypes ==
  ASSUME TypeOK, Cleanup \/ Closes \/ UNCHANGED vars
  PROVE  TypeOK'
<1>1. CASE Cleanup
  BY <1>1 DEF TypeOK, Cleanup, callVars, poolVars, procVars
<1>2. CASE Shutdown
  <2>1. dead' \in [Worker -> BOOLEAN] /\ ending' \in [Worker -> BOOLEAN]
    BY <1>2 DEF TypeOK, Shutdown, Terminate, Set
  <2>2. phase' = "closing" /\ UNCHANGED <<callVars, poolVars, lock, proc, ready, pump, request,
                                         reply, failed, faults>>
    BY <1>2 DEF Shutdown
  <2> QED
    BY <2>1, <2>2 DEF TypeOK, callVars, poolVars
<1>3. CASE Closed
  BY <1>3 DEF TypeOK, Closed, callVars, poolVars, procVars
<1>4. CASE UNCHANGED vars
  BY <1>4 DEF TypeOK, vars, callVars, poolVars, procVars
<1> QED
  BY <1>1, <1>2, <1>3, <1>4 DEF Closes

-----------------------------------------------------------------------------
(* What a step leaves alone. *)

LEMMA Handed == ASSUME TypeOK, NEW c \in Call, mine[c] # None PROVE mine[c] \in Worker
BY DEF TypeOK

\* A call keeps its part of the invariant when it does not move itself, its worker
\* does not come back to life, and nobody else can have ended that worker.
LEMMA CallKeeps ==
  ASSUME TypeOK, TypeOK', NEW c \in Call, HandedInv(c), SentInv(c),
         pc'[c] = pc[c], mine'[c] = mine[c], result'[c] = result[c], sentTo'[c] = sentTo[c],
         spawned <= spawned',
         \A w \in Worker : failed[w] => failed'[w],
         \A w \in Worker : proc[w] = "exited" => proc'[w] = "exited",
         Owns(c) => lock'[mine[c]] = c,
         \/ future'[c] = future[c]
         \/ future[c] # "none" /\ future'[c] = "value"
         \/ future[c] # "none" /\ future'[c] = "crash" /\ failed'[mine[c]],
         pc[c] = "sent" /\ dead'[mine[c]] => dead[mine[c]] \/ failed'[mine[c]]
  PROVE  HandedInv(c)' /\ SentInv(c)'
<1>1. mine[c] # None => mine[c] \in Worker
  BY DEF TypeOK
<1>2. pc[c] \in {"sent", "broken"} => mine[c] \in Worker
  BY <1>1 DEF HandedInv
<1>3. future[c] # "none" => pc[c] = "sent"
  BY DEF HandedInv
<1>4. HandedInv(c)'
  <2>1. (mine[c] <= spawned)'
    BY DEF HandedInv, TypeOK, Worker, None
  <2>2. (future[c] = "crash" => failed[mine[c]])'
    BY <1>2, <1>3 DEF HandedInv
  <2>3. (pc[c] = "sent" /\ dead[mine[c]] => failed[mine[c]])'
    BY <1>2 DEF HandedInv
  <2>4. (pc[c] = "broken" => proc[mine[c]] = "exited" /\ failed[mine[c]])'
    BY <1>2 DEF HandedInv
  <2>5. (future[c] # "none" => pc[c] = "sent")'
    BY <1>3
  <2>6. (Owns(c) => lock[mine[c]] = c)'
    BY DEF Owns
  <2> QED
    BY <2>1, <2>2, <2>3, <2>4, <2>5, <2>6 DEF HandedInv
<1>5. SentInv(c)'
  <2>1. sentTo[c] \subseteq Worker
    BY DEF TypeOK
  <2> QED
    BY <2>1 DEF SentInv, Owns
<1> QED
  BY <1>4, <1>5

\* The spawn lock's part is kept by a step that starts no process and hands no
\* worker to anybody.
LEMMA SpawnKeeps ==
  ASSUME TypeOK, SpawnInv, \A c \in Call : HandedInv(c),
         UNCHANGED <<current, spawned>>,
         \A w \in Worker : dead[w] => dead'[w],
         \A w \in Worker : (proc'[w] = "none" <=> proc[w] = "none") /\ (IsOver(w) => IsOver(w)'),
         \A c \in Call : pc'[c] \in {"replacing", "spawning"} =>
           pc'[c] = pc[c] /\ mine'[c] = mine[c] /\ spawnLock' = spawnLock,
         \A c \in Call : mine'[c] \in {mine[c], None}
  PROVE  SpawnInv'
<1>1. \A c \in Call : pc'[c] \in {"replacing", "spawning"} =>
        spawnLock' = c /\ mine'[c] = current' /\ current' # None /\ mine[c] \in Worker
  BY Handed DEF SpawnInv
<1>2. \A c \in Call : pc'[c] = "replacing" => dead'[mine'[c]]
  BY <1>1 DEF SpawnInv
<1>3. \A c, d \in Call : pc'[c] = "spawning" /\ mine'[d] = mine'[c] => c = d
  BY <1>1 DEF SpawnInv
<1>4. current' # None => current' = spawned'
  BY DEF SpawnInv
<1>5. \A w \in Worker : w # current' => IsOver(w)'
  BY DEF SpawnInv
<1>6. \A w \in Worker : proc'[w] = "none" <=> w > spawned'
  BY DEF SpawnInv
<1>7. \A c \in Call : pc'[c] \in {"replacing", "spawning"} =>
        spawnLock' = c /\ mine'[c] = current' /\ current' # None
  BY <1>1
<1> QED
  BY <1>2, <1>3, <1>4, <1>5, <1>6, <1>7 DEF SpawnInv

LEMMA WorkerKeeps ==
  ASSUME NEW w \in Worker, WorkerInv(w),
         dead[w] => dead'[w],
         ending'[w] => ending[w] \/ dead'[w],
         pump'[w] # "reads" => pump[w] # "reads" \/ dead'[w],
         ending[w] => ending'[w],
         failed[w] => failed'[w],
         proc'[w] \in {"exited", "mute"} =>
           proc[w] \in {"exited", "mute"} \/ failed'[w] \/ ending'[w]
  PROVE  WorkerInv(w)'
BY DEF WorkerInv

-----------------------------------------------------------------------------
(* The steps of a process and of the task that reads it. *)

LEMMA WorkerStepKeeps ==
  ASSUME IInv, NEW w \in Worker, WorkerSteps(w)
  PROVE  IInv'
<1>1. TypeOK /\ SpawnInv /\ TypeOK'
  BY WorkerTypes DEF IInv
<1>2. UNCHANGED <<pc, attempt, mine, result, sentTo, poolVars, lock>>
  BY DEF WorkerSteps, Ready, Answers, ProcFails, ProcEnds, PumpReply, PumpEof, PumpReaps,
         PumpJunk, callVars
<1>3. UNCHANGED <<current, spawned, spawnLock>>
  BY <1>2 DEF poolVars
<1>4. \A v \in Worker :
        /\ dead[v] => dead'[v]
        /\ failed[v] => failed'[v]
        /\ ending[v] => ending'[v]
        /\ proc'[v] = "none" <=> proc[v] = "none"
        /\ proc[v] = "exited" => proc'[v] = "exited"
        /\ IsOver(v) => IsOver(v)'
  <2>1. CASE Ready(w)
    BY <1>1, <2>1 DEF Ready, TypeOK, Set, IsOver
  <2>2. CASE Answers(w)
    BY <1>1, <2>2 DEF Answers, IsOver
  <2>3. CASE ProcFails(w)
    BY <1>1, <2>3 DEF ProcFails, Fault, TypeOK, Set, IsOver
  <2>4. CASE ProcEnds(w)
    BY <1>1, <2>4 DEF ProcEnds, TypeOK, Set, IsOver
  <2>5. CASE PumpReply(w)
    BY <1>1, <2>5 DEF PumpReply, IsOver
  <2>6. CASE PumpEof(w)
    BY <1>1, <2>6 DEF PumpEof, TypeOK, Set, IsOver
  <2>7. CASE PumpReaps(w)
    BY <1>1, <2>7 DEF PumpReaps, TypeOK, Set, IsOver
  <2>8. CASE PumpJunk(w)
    BY <1>1, <2>8 DEF PumpJunk, Fault, Terminate, TypeOK, Set, IsOver
  <2> QED
    BY <2>1, <2>2, <2>3, <2>4, <2>5, <2>6, <2>7, <2>8 DEF WorkerSteps
<1>5. SpawnInv'
  <2>1. \A c \in Call : HandedInv(c)
    BY DEF IInv
  <2> QED
    BY <1>1, <1>2, <1>3, <1>4, <2>1, SpawnKeeps
<1>6. ASSUME NEW c \in Call
      PROVE  /\ \/ future'[c] = future[c]
                \/ future[c] # "none" /\ future'[c] = "value"
                \/ future[c] # "none" /\ future'[c] = "crash" /\ failed'[mine[c]]
             /\ pc[c] = "sent" /\ dead'[mine[c]] => dead[mine[c]] \/ failed'[mine[c]]
  <2>1. pc[c] = "sent" => mine[c] \in Worker
    BY <1>1, Handed DEF IInv, HandedInv
  <2>2. HandedInv(c) /\ WorkerInv(w)
    BY DEF IInv
  <2>3. CASE \/ Ready(w) \/ Answers(w) \/ ProcFails(w) \/ ProcEnds(w)
    BY <2>3 DEF Ready, Answers, ProcFails, ProcEnds, callVars
  <2>4. CASE PumpReply(w)
    BY <1>1, <2>4 DEF PumpReply, TypeOK, Set
  <2>5. CASE PumpEof(w)
    <3>1. future' = future
      BY <2>5 DEF PumpEof, callVars
    <3>2. mine[c] = w /\ pc[c] = "sent" => dead[w] \/ failed[w]
      BY <2>2, <2>5 DEF PumpEof, WorkerInv
    <3>3. mine[c] # w /\ mine[c] \in Worker => dead'[mine[c]] = dead[mine[c]]
      BY <1>1, <2>5 DEF PumpEof, TypeOK, Set
    <3> QED
      BY <1>4, <2>1, <3>1, <3>2, <3>3
  <2>6. CASE PumpReaps(w)
    <3>1. dead' = dead /\ failed' = failed
      BY <2>6 DEF PumpReaps
    <3>2. mine[c] = w /\ future[c] = "waits" => failed[w]
      BY <2>2, <2>6 DEF PumpReaps, WorkerInv, HandedInv
    <3>3. future'[c] = IF mine[c] = w /\ future[c] = "waits" THEN "crash" ELSE future[c]
      BY <2>6 DEF PumpReaps, FailPending
    <3> QED
      BY <3>1, <3>2, <3>3
  <2>7. CASE PumpJunk(w)
    <3>1. failed'[w]
      BY <1>1, <2>7 DEF PumpJunk, Fault, TypeOK, Set
    <3>2. future'[c] = IF mine[c] = w /\ future[c] = "waits" THEN "crash" ELSE future[c]
      BY <2>7 DEF PumpJunk, FailPending
    <3>3. mine[c] # w /\ mine[c] \in Worker => dead'[mine[c]] = dead[mine[c]]
      BY <1>1, <2>7 DEF PumpJunk, Terminate, TypeOK, Set
    <3> QED
      BY <2>1, <3>1, <3>2, <3>3
  <2> QED
    BY <2>3, <2>4, <2>5, <2>6, <2>7 DEF WorkerSteps
<1>7. ASSUME NEW c \in Call PROVE HandedInv(c)' /\ SentInv(c)'
  <2>1. HandedInv(c) /\ SentInv(c)
    BY DEF IInv
  <2>2. spawned <= spawned'
    BY <1>1, <1>3 DEF TypeOK
  <2>3. Owns(c) => lock'[mine[c]] = c
    BY <1>2, <2>1 DEF HandedInv
  <2> QED
    BY <1>1, <1>2, <1>4, <1>6, <2>1, <2>2, <2>3, CallKeeps
<1>8. ASSUME NEW v \in Worker PROVE WorkerInv(v)'
  <2>1. WorkerInv(v)
    BY DEF IInv
  <2> DEFINE Kept == /\ ending'[v] => ending[v] \/ dead'[v]
                     /\ pump'[v] # "reads" => pump[v] # "reads" \/ dead'[v]
                     /\ proc'[v] \in {"exited", "mute"} =>
                          proc[v] \in {"exited", "mute"} \/ failed'[v] \/ ending'[v]
  <2>2. ASSUME Ready(w) PROVE Kept
    BY <1>1, <2>2 DEF Ready, TypeOK, Set
  <2>3. ASSUME Answers(w) PROVE Kept
    BY <1>1, <2>3 DEF Answers
  <2>4. ASSUME ProcFails(w) PROVE Kept
    BY <1>1, <2>4 DEF ProcFails, Fault, TypeOK, Set
  <2>5. ASSUME ProcEnds(w) PROVE Kept
    BY <1>1, <2>5 DEF ProcEnds, TypeOK, Set
  <2>6. ASSUME PumpReply(w) PROVE Kept
    BY <1>1, <2>6 DEF PumpReply
  <2>7. ASSUME PumpEof(w) PROVE Kept
    BY <1>1, <2>7 DEF PumpEof, TypeOK, Set
  <2>8. ASSUME PumpReaps(w) PROVE Kept
    BY <1>1, <2>1, <2>8 DEF PumpReaps, TypeOK, Set, WorkerInv
  <2>9. ASSUME PumpJunk(w) PROVE Kept
    BY <1>1, <2>9 DEF PumpJunk, Fault, Terminate, TypeOK, Set
  <2>10. Kept
    BY <2>2, <2>3, <2>4, <2>5, <2>6, <2>7, <2>8, <2>9 DEF WorkerSteps
  <2> QED
    BY <1>4, <2>1, <2>10, WorkerKeeps
<1> QED
  BY <1>1, <1>5, <1>7, <1>8 DEF IInv

-----------------------------------------------------------------------------
(* The steps of a call. *)

\* The others do not move, the worker of which the caller has no lock is taken
\* from nobody, and who is not known to be dead dies only with the caller's task.
LEMMA MoveKeeps ==
  ASSUME IInv, TypeOK', NEW c \in Call, HandedInv(c)', SentInv(c)', SpawnInv',
         \A d \in Call \ {c} : /\ pc'[d] = pc[d] /\ mine'[d] = mine[d] /\ result'[d] = result[d]
                               /\ sentTo'[d] = sentTo[d] /\ future'[d] = future[d],
         UNCHANGED <<failed, pump>>, spawned <= spawned',
         \A w \in Worker :
           /\ proc[w] = "exited" => proc'[w] = "exited"
           /\ proc'[w] \in {"exited", "mute"} => proc'[w] = proc[w]
           /\ lock'[w] = lock[w] \/ lock[w] \in {c, NoCall}
           /\ dead[w] => dead'[w]
           /\ ending[w] => ending'[w]
           /\ ending'[w] => ending[w] \/ dead'[w]
           /\ dead'[w] => dead[w] \/ lock[w] = c \/ \A d \in Call \ {c} : mine[d] # w
  PROVE  IInv'
<1>1. TypeOK
  BY DEF IInv
<1>2. ASSUME NEW d \in Call \ {c} PROVE HandedInv(d)' /\ SentInv(d)'
  <2>1. HandedInv(d) /\ SentInv(d)
    BY DEF IInv
  <2>2. Owns(d) => mine[d] \in Worker /\ lock[mine[d]] = d
    BY <1>1, <2>1, Handed DEF HandedInv, Owns
  <2>3. Owns(d) => lock'[mine[d]] = d
    BY <2>2, NoCallAssumption
  <2>4. pc[d] = "sent" /\ dead'[mine[d]] => dead[mine[d]] \/ failed'[mine[d]]
    BY <2>2 DEF Owns
  <2> QED
    BY <1>1, <2>1, <2>3, <2>4, CallKeeps
<1>3. \A d \in Call : HandedInv(d)' /\ SentInv(d)'
  BY <1>2
<1>4. ASSUME NEW w \in Worker PROVE WorkerInv(w)'
  <2>1. WorkerInv(w)
    BY DEF IInv
  <2> QED
    BY <2>1, WorkerKeeps
<1> QED
  BY <1>3, <1>4 DEF IInv

\* A step that starts no process.
LEMMA LocalKeeps ==
  ASSUME IInv, TypeOK', NEW c \in Call, HandedInv(c)', SentInv(c)',
         \A d \in Call \ {c} : /\ pc'[d] = pc[d] /\ mine'[d] = mine[d] /\ result'[d] = result[d]
                               /\ sentTo'[d] = sentTo[d] /\ future'[d] = future[d],
         pc'[c] \notin {"replacing", "spawning"}, mine'[c] \in {mine[c], None},
         UNCHANGED <<failed, pump, proc, current, spawned>>,
         spawnLock' = spawnLock \/ spawnLock = c,
         \A w \in Worker :
           /\ lock'[w] = lock[w] \/ lock[w] \in {c, NoCall}
           /\ dead[w] => dead'[w]
           /\ ending[w] => ending'[w]
           /\ ending'[w] => ending[w] \/ dead'[w]
           /\ dead'[w] => dead[w] \/ lock[w] = c \/ \A d \in Call \ {c} : mine[d] # w
  PROVE  IInv'
<1>1. TypeOK /\ SpawnInv /\ \A d \in Call : HandedInv(d)
  BY DEF IInv
<1>2. \A d \in Call : pc'[d] \in {"replacing", "spawning"} =>
        pc'[d] = pc[d] /\ mine'[d] = mine[d] /\ spawnLock' = spawnLock
  BY <1>1 DEF SpawnInv
<1>3. \A d \in Call : mine'[d] \in {mine[d], None}
  OBVIOUS
<1>4. SpawnInv'
  BY <1>1, <1>2, <1>3, SpawnKeeps DEF IsOver
<1>5. spawned <= spawned'
  BY <1>1 DEF TypeOK
<1> QED
  BY <1>4, <1>5, MoveKeeps

\* A call that ends has sent its task to one worker at most, and says of it what is true.
LEMMA EndKeeps ==
  ASSUME TypeOK, TypeOK', NEW c \in Call, NEW how, Ends(c, how),
         future'[c] = "none", sentTo'[c] = sentTo[c],
         sentTo[c] = {} \/ \E w \in Worker : sentTo[c] = {w},
         how = "cancelled" => \A w \in sentTo[c] : proc'[w] = "exited",
         how = "crash" => \A w \in sentTo[c] : failed'[w]
  PROVE  /\ HandedInv(c)' /\ SentInv(c)'
         /\ pc'[c] = "ended" /\ mine'[c] = None
         /\ \A d \in Call \ {c} : pc'[d] = pc[d] /\ mine'[d] = mine[d] /\ result'[d] = result[d]
<1>1. pc'[c] = "ended" /\ mine'[c] = None /\ result'[c] = how
  BY DEF Ends, Goto, Set, TypeOK
<1>2. \A d \in Call \ {c} : pc'[d] = pc[d] /\ mine'[d] = mine[d] /\ result'[d] = result[d]
  BY DEF Ends, Goto, Set, TypeOK
<1>3. HandedInv(c)'
  BY <1>1 DEF HandedInv, Owns, TypeOK, None
<1>4. SentInv(c)'
  BY <1>1 DEF SentInv, Owns, Unsent
<1> QED
  BY <1>1, <1>2, <1>3, <1>4

\* What the invariant says of one call.
LEMMA CallFacts ==
  ASSUME IInv, NEW c \in Call
  PROVE  /\ TypeOK /\ SpawnInv /\ HandedInv(c) /\ SentInv(c)
         /\ pc[c] \in {"replacing", "spawning", "wantsWorker", "sent", "broken", "killing"} =>
              mine[c] \in Worker /\ WorkerInv(mine[c])
         /\ pc[c] # "ended" => sentTo[c] = {} \/ (mine[c] \in Worker /\ sentTo[c] = {mine[c]})
         /\ pc[c] # "sent" => future[c] = "none"
         /\ pc[c] \in Unsent => sentTo[c] = {}
         /\ Owns(c) => lock[mine[c]] = c
<1>1. TypeOK /\ SpawnInv /\ HandedInv(c) /\ SentInv(c)
  BY DEF IInv
<1>2. pc[c] \in {"replacing", "spawning", "wantsWorker", "sent", "broken", "killing"} =>
        mine[c] \in Worker
  BY <1>1, Handed DEF HandedInv
<1>3. mine[c] \in Worker => WorkerInv(mine[c])
  BY DEF IInv
<1>4. pc[c] # "ended" => pc[c] \in Unsent \/ Owns(c) \/ pc[c] = "killing"
  BY <1>1 DEF TypeOK, Unsent, Owns
<1>5. sentTo[c] \subseteq Worker
  BY <1>1 DEF TypeOK
<1>6. pc[c] # "ended" => sentTo[c] = {} \/ (mine[c] \in Worker /\ sentTo[c] = {mine[c]})
  BY <1>1, <1>2, <1>4, <1>5 DEF SentInv, Owns
<1> QED
  BY <1>1, <1>2, <1>3, <1>6 DEF HandedInv, SentInv

LEMMA StartKeeps == ASSUME IInv, NEW c \in Call, StartCall(c) PROVE IInv'
<1>1. TypeOK /\ HandedInv(c) /\ SentInv(c) /\ TypeOK'
  BY CallFacts, CallTypes DEF StartCall
<1>2. \A d \in Call : pc'[d] = IF d = c THEN "wantsSpawn" ELSE pc[d]
  BY <1>1 DEF StartCall, Goto, Set, TypeOK
<1>3. UNCHANGED <<attempt, mine, future, result, sentTo, spawnLock, current, spawned, lock,
                  proc, ready, dead, pump, ending, failed>>
  BY DEF StartCall, poolVars, procVars
<1>4. HandedInv(c)'
  BY <1>1, <1>2, <1>3 DEF HandedInv, Owns, StartCall
<1>5. SentInv(c)'
  BY <1>1, <1>2, <1>3 DEF SentInv, Owns, Unsent, StartCall
<1> QED
  BY <1>1, <1>2, <1>3, <1>4, <1>5, LocalKeeps

LEMMA SpawnedKeeps == ASSUME IInv, NEW c \in Call, Spawned(c), TypeOK' PROVE IInv'
<1>1. /\ TypeOK /\ SpawnInv /\ HandedInv(c) /\ SentInv(c)
      /\ mine[c] \in Worker /\ sentTo[c] = {} /\ future[c] = "none" /\ spawnLock = c
  BY CallFacts DEF Spawned, Unsent, SpawnInv
<1>2. UNCHANGED <<future, sentTo, current, spawned, lock, proc, ready, dead, pump, ending, failed>>
  BY DEF Spawned, procVars
<1>3. CASE ready[mine[c]] /\ Goto(c, "wantsWorker") /\ UNCHANGED <<attempt, mine, result>>
  <2>1. \A d \in Call : pc'[d] = IF d = c THEN "wantsWorker" ELSE pc[d]
    BY <1>1, <1>3 DEF Goto, Set, TypeOK
  <2>2. HandedInv(c)'
    BY <1>1, <1>2, <1>3, <2>1 DEF HandedInv, Owns, Spawned
  <2>3. SentInv(c)'
    BY <1>1, <1>2, <1>3, <2>1 DEF SentInv, Owns, Unsent, Spawned
  <2> QED
    BY <1>1, <1>2, <1>3, <2>1, <2>2, <2>3, LocalKeeps
<1>4. CASE Ends(c, "crash")
  <2>1. /\ HandedInv(c)' /\ SentInv(c)' /\ pc'[c] = "ended" /\ mine'[c] = None
        /\ \A d \in Call \ {c} : pc'[d] = pc[d] /\ mine'[d] = mine[d] /\ result'[d] = result[d]
    BY <1>1, <1>2, <1>4, EndKeeps
  <2> QED
    BY <1>1, <1>2, <2>1, LocalKeeps
<1> QED
  BY <1>3, <1>4 DEF Spawned

LEMMA TakeWorkerKeeps == ASSUME IInv, NEW c \in Call, TakeWorker(c), TypeOK' PROVE IInv'
<1> DEFINE w == mine[c]
<1>1. /\ TypeOK /\ HandedInv(c) /\ SentInv(c) /\ w \in Worker
      /\ sentTo[c] = {} /\ future[c] = "none" /\ pc[c] = "wantsWorker" /\ lock[w] = NoCall
  BY CallFacts DEF TakeWorker, Unsent
<1>2. UNCHANGED <<spawnLock, current, spawned, proc, dead, pump, ending, failed>>
  BY DEF TakeWorker, poolVars
<1>3. CASE /\ attempt' = Set(attempt, c, 2) /\ Goto(c, "wantsSpawn")
           /\ UNCHANGED <<mine, future, result, sentTo, lock, request>>
  <2>1. \A d \in Call : pc'[d] = IF d = c THEN "wantsSpawn" ELSE pc[d]
    BY <1>1, <1>3 DEF Goto, Set, TypeOK
  <2>2. HandedInv(c)'
    BY <1>1, <1>2, <1>3, <2>1 DEF HandedInv, Owns
  <2>3. SentInv(c)'
    BY <1>1, <1>2, <1>3, <2>1 DEF SentInv, Owns, Unsent
  <2> QED
    BY <1>1, <1>2, <1>3, <2>1, <2>2, <2>3, LocalKeeps
<1>4. CASE (\E how \in {"crash", "error"} : Ends(c, how)) /\ UNCHANGED <<future, sentTo, lock, request>>
  <2>1. /\ HandedInv(c)' /\ SentInv(c)' /\ pc'[c] = "ended" /\ mine'[c] = None
        /\ \A d \in Call \ {c} : pc'[d] = pc[d] /\ mine'[d] = mine[d] /\ result'[d] = result[d]
    BY <1>1, <1>2, <1>4, EndKeeps
  <2> QED
    BY <1>1, <1>2, <1>4, <2>1, LocalKeeps
<1>5. CASE /\ ~dead[w] /\ lock' = Set(lock, w, c) /\ future' = Set(future, c, "waits")
           /\ sentTo' = [sentTo EXCEPT ![c] = @ \cup {w}]
           /\ Goto(c, "sent") /\ UNCHANGED <<attempt, mine, result>>
  <2>1. \A d \in Call : pc'[d] = IF d = c THEN "sent" ELSE pc[d]
    BY <1>1, <1>5 DEF Goto, Set, TypeOK
  <2>2. \A d \in Call : future'[d] = IF d = c THEN "waits" ELSE future[d]
    BY <1>1, <1>5 DEF Set, TypeOK
  <2>3. \A d \in Call : sentTo'[d] = IF d = c THEN {w} ELSE sentTo[d]
    BY <1>1, <1>5 DEF TypeOK
  <2>4. \A v \in Worker : lock'[v] = IF v = w THEN c ELSE lock[v]
    BY <1>1, <1>5 DEF Set, TypeOK
  <2>5. HandedInv(c)'
    BY <1>1, <1>2, <1>5, <2>1, <2>2, <2>4 DEF HandedInv, Owns
  <2>6. SentInv(c)'
    BY <1>1, <1>2, <1>5, <2>1, <2>3 DEF SentInv, Owns, Unsent
  <2> QED
    BY <1>1, <1>2, <1>5, <2>1, <2>2, <2>3, <2>4, <2>5, <2>6, LocalKeeps
<1> QED
  BY <1>3, <1>4, <1>5 DEF TakeWorker

\* Terminate(w) is known to all, and only of w is anything new.
LEMMA TerminateFacts ==
  ASSUME TypeOK, NEW w \in Worker, Terminate(w)
  PROVE  /\ \A v \in Worker : dead[v] => dead'[v]
         /\ \A v \in Worker : ending[v] => ending'[v]
         /\ \A v \in Worker : ending'[v] => ending[v] \/ dead'[v]
         /\ \A v \in Worker : dead'[v] => dead[v] \/ v = w
         /\ dead'[w] /\ ending'[w]
BY DEF Terminate, Set, TypeOK

\* Releasing the worker's lock.
LEMMA ReleaseFacts ==
  ASSUME TypeOK, NEW c \in Call, NEW w \in Worker, lock[w] = c, lock' = Set(lock, w, NoCall)
  PROVE  \A v \in Worker : lock'[v] = lock[v] \/ lock[v] \in {c, NoCall}
BY DEF Set, TypeOK

LEMMA AnsweredKeeps == ASSUME IInv, NEW c \in Call, Answered(c), TypeOK' PROVE IInv'
<1>1. /\ TypeOK /\ HandedInv(c) /\ SentInv(c) /\ mine[c] \in Worker
      /\ sentTo[c] = {mine[c]} /\ lock[mine[c]] = c
  BY CallFacts DEF Answered, Owns, SentInv
<1>2. UNCHANGED <<sentTo, spawnLock, current, spawned, proc, dead, pump, ending, failed>>
  BY DEF Answered, poolVars, procVars
<1>3. \A d \in Call : future'[d] = IF d = c THEN "none" ELSE future[d]
  BY <1>1 DEF Answered, Set, TypeOK
<1>4. \A v \in Worker : lock'[v] = lock[v] \/ lock[v] \in {c, NoCall}
  BY <1>1, ReleaseFacts DEF Answered
<1>5. \E how \in {"answer", "crash"} :
        /\ Ends(c, how)
        /\ how = "crash" => failed[mine[c]]
  BY <1>1 DEF Answered, HandedInv
<1>6. PICK how \in {"answer", "crash"} : Ends(c, how) /\ (how = "crash" => failed[mine[c]])
  BY <1>5
<1>7. /\ HandedInv(c)' /\ SentInv(c)' /\ pc'[c] = "ended" /\ mine'[c] = None
      /\ \A d \in Call \ {c} : pc'[d] = pc[d] /\ mine'[d] = mine[d] /\ result'[d] = result[d]
  BY <1>1, <1>2, <1>3, <1>6, EndKeeps
<1> QED
  BY <1>1, <1>2, <1>3, <1>4, <1>7, LocalKeeps

LEMMA WriteFailsKeeps == ASSUME IInv, NEW c \in Call, WriteFails(c), TypeOK' PROVE IInv'
<1>1. /\ TypeOK /\ HandedInv(c) /\ SentInv(c) /\ mine[c] \in Worker /\ WorkerInv(mine[c])
      /\ sentTo[c] = {mine[c]} /\ lock[mine[c]] = c /\ proc[mine[c]] = "exited"
  BY CallFacts DEF WriteFails, Owns, SentInv
<1>2. UNCHANGED <<mine, result, sentTo, spawnLock, current, spawned, lock, proc, dead, pump,
                  ending, failed>>
  BY DEF WriteFails, poolVars, procVars
<1>3. \A d \in Call : future'[d] = IF d = c THEN "none" ELSE future[d]
  BY <1>1 DEF WriteFails, Set, TypeOK
<1>4. \A d \in Call : pc'[d] = IF d = c THEN "broken" ELSE pc[d]
  BY <1>1 DEF WriteFails, Goto, Set, TypeOK
<1>5. failed[mine[c]]
  BY <1>1 DEF WriteFails, WorkerInv, HandedInv
<1>6. HandedInv(c)'
  BY <1>1, <1>2, <1>3, <1>4, <1>5 DEF HandedInv, Owns, None, Worker
<1>7. SentInv(c)'
  BY <1>1, <1>2, <1>4 DEF SentInv, Owns, Unsent, WriteFails
<1> QED
  BY <1>1, <1>2, <1>3, <1>4, <1>6, <1>7, LocalKeeps

LEMMA BrokenEndsKeeps == ASSUME IInv, NEW c \in Call, BrokenEnds(c), TypeOK' PROVE IInv'
<1>1. /\ TypeOK /\ HandedInv(c) /\ SentInv(c) /\ mine[c] \in Worker /\ future[c] = "none"
      /\ sentTo[c] = {mine[c]} /\ lock[mine[c]] = c /\ failed[mine[c]]
  BY CallFacts DEF BrokenEnds, Owns, SentInv, HandedInv
<1>2. UNCHANGED <<future, sentTo, spawnLock, current, spawned, proc, pump, failed>>
  BY DEF BrokenEnds, poolVars
<1>3. \A v \in Worker : lock'[v] = lock[v] \/ lock[v] \in {c, NoCall}
  BY <1>1, ReleaseFacts DEF BrokenEnds
<1>4. Ends(c, "crash") /\ Terminate(mine[c])
  BY DEF BrokenEnds
<1>5. /\ HandedInv(c)' /\ SentInv(c)' /\ pc'[c] = "ended" /\ mine'[c] = None
      /\ \A d \in Call \ {c} : pc'[d] = pc[d] /\ mine'[d] = mine[d] /\ result'[d] = result[d]
  BY <1>1, <1>2, <1>4, EndKeeps
<1>6. \A v \in Worker : /\ dead[v] => dead'[v]
                        /\ ending[v] => ending'[v]
                        /\ ending'[v] => ending[v] \/ dead'[v]
                        /\ dead'[v] => dead[v] \/ lock[v] = c
  BY <1>1, <1>4, TerminateFacts
<1> QED
  BY <1>1, <1>2, <1>3, <1>5, <1>6, LocalKeeps

\* A call that goes on to see its worker end.
LEMMA KillingKeeps ==
  ASSUME TypeOK, TypeOK', NEW c \in Call, HandedInv(c), SentInv(c), mine[c] \in Worker,
         pc[c] \notin {"idle", "killing", "ended"}, Goto(c, "killing"), future'[c] = "none",
         UNCHANGED <<mine, result, sentTo, spawned>>
  PROVE  /\ HandedInv(c)' /\ SentInv(c)'
         /\ pc'[c] = "killing"
         /\ \A d \in Call \ {c} : pc'[d] = pc[d] /\ mine'[d] = mine[d] /\ result'[d] = result[d]
                                  /\ sentTo'[d] = sentTo[d]
<1>1. \A d \in Call : pc'[d] = IF d = c THEN "killing" ELSE pc[d]
  BY DEF Goto, Set, TypeOK
<1>2. pc[c] \in Unsent \/ Owns(c)
  BY DEF TypeOK, Unsent, Owns
<1>3. HandedInv(c)'
  BY <1>1 DEF HandedInv, Owns, None, Worker
<1>4. SentInv(c)'
  BY <1>1, <1>2 DEF SentInv, Owns, Unsent
<1> QED
  BY <1>1, <1>3, <1>4

LEMMA CancelQueuedKeeps == ASSUME IInv, NEW c \in Call, CancelQueued(c), TypeOK' PROVE IInv'
<1>1. /\ TypeOK /\ HandedInv(c) /\ SentInv(c) /\ future[c] = "none" /\ sentTo[c] = {}
      /\ pc[c] = "wantsWorker" => mine[c] \in Worker
  BY CallFacts DEF CancelQueued, Unsent
<1>2. UNCHANGED <<future, sentTo, spawnLock, current, spawned, lock, proc, pump, failed>>
  BY DEF CancelQueued, poolVars
<1>3. CASE Ends(c, "cancelled") /\ UNCHANGED <<dead, ending>>
  <2>1. /\ HandedInv(c)' /\ SentInv(c)' /\ pc'[c] = "ended" /\ mine'[c] = None
        /\ \A d \in Call \ {c} : pc'[d] = pc[d] /\ mine'[d] = mine[d] /\ result'[d] = result[d]
    BY <1>1, <1>2, <1>3, EndKeeps
  <2> QED
    BY <1>1, <1>2, <1>3, <2>1, LocalKeeps
<1>4. CASE /\ pc[c] = "wantsWorker" /\ dead[mine[c]] /\ Terminate(mine[c])
           /\ Goto(c, "killing") /\ UNCHANGED <<attempt, mine, result>>
  <2>1. /\ HandedInv(c)' /\ SentInv(c)' /\ pc'[c] = "killing"
        /\ \A d \in Call \ {c} : pc'[d] = pc[d] /\ mine'[d] = mine[d] /\ result'[d] = result[d]
                                 /\ sentTo'[d] = sentTo[d]
    BY <1>1, <1>2, <1>4, KillingKeeps
  <2>2. \A v \in Worker : /\ dead[v] => dead'[v]
                          /\ ending[v] => ending'[v]
                          /\ ending'[v] => ending[v] \/ dead'[v]
                          /\ dead'[v] => dead[v]
    BY <1>1, <1>4, TerminateFacts
  <2> QED
    BY <1>1, <1>2, <1>4, <2>1, <2>2, LocalKeeps
<1> QED
  BY <1>3, <1>4 DEF CancelQueued

LEMMA CancelSentKeeps == ASSUME IInv, NEW c \in Call, CancelSent(c), TypeOK' PROVE IInv'
<1>1. /\ TypeOK /\ HandedInv(c) /\ SentInv(c) /\ mine[c] \in Worker /\ lock[mine[c]] = c
  BY CallFacts DEF CancelSent, Owns
<1>2. UNCHANGED <<mine, result, sentTo, spawnLock, current, spawned, proc, pump, failed>>
  BY DEF CancelSent, poolVars
<1>3. \A d \in Call : future'[d] = IF d = c THEN "none" ELSE future[d]
  BY <1>1 DEF CancelSent, Set, TypeOK
<1>4. \A v \in Worker : lock'[v] = lock[v] \/ lock[v] \in {c, NoCall}
  BY <1>1, ReleaseFacts DEF CancelSent
<1>5. /\ HandedInv(c)' /\ SentInv(c)' /\ pc'[c] = "killing"
      /\ \A d \in Call \ {c} : pc'[d] = pc[d] /\ mine'[d] = mine[d] /\ result'[d] = result[d]
                               /\ sentTo'[d] = sentTo[d]
  BY <1>1, <1>2, <1>3, KillingKeeps DEF CancelSent
<1>6. \A v \in Worker : /\ dead[v] => dead'[v]
                        /\ ending[v] => ending'[v]
                        /\ ending'[v] => ending[v] \/ dead'[v]
                        /\ dead'[v] => dead[v] \/ lock[v] = c
  BY <1>1, TerminateFacts DEF CancelSent
<1> QED
  BY <1>1, <1>2, <1>3, <1>4, <1>5, <1>6, LocalKeeps

LEMMA CancelSpawningKeeps == ASSUME IInv, NEW c \in Call, CancelSpawning(c), TypeOK' PROVE IInv'
<1>1. /\ TypeOK /\ SpawnInv /\ HandedInv(c) /\ SentInv(c) /\ mine[c] \in Worker
      /\ future[c] = "none"
  BY CallFacts DEF CancelSpawning
<1>2. UNCHANGED <<mine, future, result, sentTo, spawnLock, current, spawned, lock, proc, pump,
                  failed>>
  BY DEF CancelSpawning, poolVars
<1>3. /\ HandedInv(c)' /\ SentInv(c)' /\ pc'[c] = "killing"
      /\ \A d \in Call \ {c} : pc'[d] = pc[d] /\ mine'[d] = mine[d] /\ result'[d] = result[d]
                               /\ sentTo'[d] = sentTo[d]
  BY <1>1, <1>2, KillingKeeps DEF CancelSpawning
<1>4. dead[mine[c]] \/ \A d \in Call \ {c} : mine[d] # mine[c]
  BY <1>1 DEF SpawnInv, CancelSpawning
<1>5. \A v \in Worker : /\ dead[v] => dead'[v]
                        /\ ending[v] => ending'[v]
                        /\ ending'[v] => ending[v] \/ dead'[v]
                        /\ dead'[v] => dead[v] \/ \A d \in Call \ {c} : mine[d] # v
  BY <1>1, <1>4, TerminateFacts DEF CancelSpawning
<1> QED
  BY <1>1, <1>2, <1>3, <1>5, LocalKeeps

LEMMA CancelBrokenKeeps == ASSUME IInv, NEW c \in Call, CancelBroken(c), TypeOK' PROVE IInv'
<1>1. /\ TypeOK /\ HandedInv(c) /\ SentInv(c) /\ mine[c] \in Worker /\ lock[mine[c]] = c
      /\ future[c] = "none" /\ sentTo[c] = {mine[c]} /\ proc[mine[c]] = "exited"
  BY CallFacts DEF CancelBroken, Owns, SentInv, HandedInv
<1>2. UNCHANGED <<future, sentTo, spawnLock, current, spawned, proc, pump, failed>>
  BY DEF CancelBroken, poolVars
<1>3. \A v \in Worker : lock'[v] = lock[v] \/ lock[v] \in {c, NoCall}
  BY <1>1, ReleaseFacts DEF CancelBroken
<1>4. CASE Ends(c, "cancelled") /\ UNCHANGED <<dead, ending>>
  <2>1. /\ HandedInv(c)' /\ SentInv(c)' /\ pc'[c] = "ended" /\ mine'[c] = None
        /\ \A d \in Call \ {c} : pc'[d] = pc[d] /\ mine'[d] = mine[d] /\ result'[d] = result[d]
    BY <1>1, <1>2, <1>4, EndKeeps
  <2> QED
    BY <1>1, <1>2, <1>3, <1>4, <2>1, LocalKeeps
<1>5. CASE Terminate(mine[c]) /\ Goto(c, "killing") /\ UNCHANGED <<attempt, mine, result>>
  <2>1. /\ HandedInv(c)' /\ SentInv(c)' /\ pc'[c] = "killing"
        /\ \A d \in Call \ {c} : pc'[d] = pc[d] /\ mine'[d] = mine[d] /\ result'[d] = result[d]
                                 /\ sentTo'[d] = sentTo[d]
    BY <1>1, <1>2, <1>5, KillingKeeps DEF CancelBroken
  <2>2. \A v \in Worker : /\ dead[v] => dead'[v]
                          /\ ending[v] => ending'[v]
                          /\ ending'[v] => ending[v] \/ dead'[v]
                          /\ dead'[v] => dead[v] \/ lock[v] = c
    BY <1>1, <1>5, TerminateFacts
  <2> QED
    BY <1>1, <1>2, <1>3, <1>5, <2>1, <2>2, LocalKeeps
<1> QED
  BY <1>4, <1>5 DEF CancelBroken

LEMMA KilledKeeps == ASSUME IInv, NEW c \in Call, Killed(c), TypeOK' PROVE IInv'
<1>1. /\ TypeOK /\ SpawnInv /\ HandedInv(c) /\ SentInv(c) /\ mine[c] \in Worker
      /\ future[c] = "none" /\ sentTo[c] \in {{}, {mine[c]}}
  BY CallFacts DEF Killed
<1>2. UNCHANGED <<future, sentTo, current, spawned, lock, proc, dead, pump, ending, failed>>
      /\ (spawnLock' = spawnLock \/ spawnLock = c)
  BY DEF Killed, procVars
<1>3. proc[mine[c]] = "exited"
  <2>1. mine[c] <= spawned /\ mine[c] \in Nat /\ spawned \in Nat
    BY <1>1 DEF HandedInv, TypeOK, Worker
  <2>2. proc[mine[c]] # "none"
    BY <1>1, <2>1 DEF SpawnInv
  <2> QED
    BY <2>2 DEF Killed, IsTerminated, IsOver
<1>4. /\ HandedInv(c)' /\ SentInv(c)' /\ pc'[c] = "ended" /\ mine'[c] = None
      /\ \A d \in Call \ {c} : pc'[d] = pc[d] /\ mine'[d] = mine[d] /\ result'[d] = result[d]
  BY <1>1, <1>2, <1>3, EndKeeps DEF Killed
<1> QED
  BY <1>1, <1>2, <1>4, LocalKeeps

-----------------------------------------------------------------------------
(* The spawn lock: the steps that hand out a worker or start a process. *)

\* With the lock taken by c or by nobody, no other call replaces or spawns.
LEMMA AloneAtSpawn ==
  ASSUME SpawnInv, NEW c \in Call, spawnLock = NoCall \/ spawnLock = c
  PROVE  \A d \in Call \ {c} : pc[d] \notin {"replacing", "spawning"}
BY NoCallAssumption DEF SpawnInv

LEMMA SpawnsKeep ==
  ASSUME IInv, TypeOK', NEW c \in Call, pc[c] \in {"wantsSpawn", "replacing"},
         spawnLock = NoCall \/ spawnLock = c, \A w \in Worker : IsOver(w), Spawns(c),
         UNCHANGED <<future, sentTo, lock, dead, pump, ending, failed>>
  PROVE  IInv'
<1>1. /\ TypeOK /\ SpawnInv /\ HandedInv(c) /\ SentInv(c)
      /\ future[c] = "none" /\ sentTo[c] = {} /\ result[c] = "none"
  BY CallFacts DEF Unsent, SentInv
<1>2. \A d \in Call \ {c} : pc[d] \notin {"replacing", "spawning"}
  BY <1>1, AloneAtSpawn
<1>3. CASE /\ spawned < MaxWorkers
           /\ spawned' = spawned + 1
           /\ current' = spawned + 1
           /\ mine' = Set(mine, c, spawned + 1)
           /\ proc' = Set(proc, spawned + 1, "starting")
           /\ spawnLock' = c
           /\ Goto(c, "spawning")
           /\ UNCHANGED <<attempt, result, faults>>
  <2>1. /\ spawned \in Nat /\ spawned + 1 \in Worker
        /\ \A w \in Worker : w \in Nat
    BY <1>1, <1>3, BoundsAssumption DEF TypeOK, Worker
  <2>2. \A d \in Call : pc'[d] = IF d = c THEN "spawning" ELSE pc[d]
    BY <1>1, <1>3 DEF Goto, Set, TypeOK
  <2>3. \A d \in Call : mine'[d] = IF d = c THEN spawned + 1 ELSE mine[d]
    BY <1>1, <1>3 DEF Set, TypeOK
  <2>4. \A w \in Worker : proc'[w] = IF w = spawned + 1 THEN "starting" ELSE proc[w]
    BY <1>1, <1>3 DEF Set, TypeOK
  <2>5. proc[spawned + 1] = "none"
    BY <1>1, <2>1 DEF SpawnInv
  <2>6. \A d \in Call : mine[d] <= spawned /\ mine[d] \in Nat
    BY <1>1 DEF IInv, HandedInv, TypeOK, Worker, None
  <2>7. HandedInv(c)'
    BY <1>1, <1>3, <2>1, <2>2, <2>3 DEF HandedInv, Owns, None
  <2>8. SentInv(c)'
    BY <1>1, <1>3, <2>2 DEF SentInv, Owns, Unsent
  <2>9. SpawnInv'
    <3>1. \A d \in Call : pc'[d] \in {"replacing", "spawning"} =>
            spawnLock' = d /\ mine'[d] = current' /\ current' # None
      BY <1>2, <1>3, <2>1, <2>2, <2>3 DEF None
    <3>2. \A d \in Call : pc'[d] # "replacing"
      BY <1>2, <2>2
    <3>3. \A d, e \in Call : pc'[d] = "spawning" /\ mine'[e] = mine'[d] => d = e
      BY <1>2, <2>1, <2>2, <2>3, <2>6
    <3>4. \A w \in Worker : w # current' => IsOver(w)'
      BY <1>3, <2>4 DEF IsOver
    <3>5. \A w \in Worker : proc'[w] = "none" <=> w > spawned'
      BY <1>1, <1>3, <2>1, <2>4 DEF SpawnInv
    <3> QED
      BY <1>3, <3>1, <3>2, <3>3, <3>4, <3>5 DEF SpawnInv
  <2>10. \A d \in Call \ {c} : /\ pc'[d] = pc[d] /\ mine'[d] = mine[d] /\ result'[d] = result[d]
                               /\ sentTo'[d] = sentTo[d] /\ future'[d] = future[d]
    BY <1>3, <2>2, <2>3
  <2>11. spawned <= spawned'
    BY <1>3, <2>1
  <2>12. \A w \in Worker : /\ proc[w] = "exited" => proc'[w] = "exited"
                           /\ proc'[w] \in {"exited", "mute"} => proc'[w] = proc[w]
    BY <2>4, <2>5
  <2> QED
    BY <2>7, <2>8, <2>9, <2>10, <2>11, <2>12, MoveKeeps
<1>4. CASE /\ current' = None
           /\ spawnLock' = NoCall
           /\ Ends(c, "crash")
           /\ UNCHANGED <<spawned, proc>>
  <2>1. /\ HandedInv(c)' /\ SentInv(c)' /\ pc'[c] = "ended" /\ mine'[c] = None
        /\ \A d \in Call \ {c} : pc'[d] = pc[d] /\ mine'[d] = mine[d] /\ result'[d] = result[d]
    BY <1>1, <1>4, EndKeeps
  <2>2. SpawnInv'
    <3>1. \A d \in Call : pc'[d] \notin {"replacing", "spawning"}
      BY <1>2, <2>1
    <3>2. \A w \in Worker : IsOver(w)'
      BY <1>4 DEF IsOver
    <3>3. \A w \in Worker : proc'[w] = "none" <=> w > spawned'
      BY <1>1, <1>4 DEF SpawnInv
    <3> QED
      BY <1>4, <3>1, <3>2, <3>3 DEF SpawnInv
  <2>3. spawned <= spawned'
    BY <1>1, <1>4 DEF TypeOK
  <2> QED
    BY <1>4, <2>1, <2>2, <2>3, MoveKeeps
<1> QED
  BY <1>3, <1>4 DEF Spawns

LEMMA ReplaceKeeps == ASSUME IInv, NEW c \in Call, Replace(c), TypeOK' PROVE IInv'
<1>1. TypeOK /\ SpawnInv
  BY DEF IInv
<1>2. spawnLock = c /\ \A w \in Worker : IsOver(w)
  BY <1>1 DEF SpawnInv, Replace, IsTerminated
<1> QED
  BY <1>2, SpawnsKeep DEF Replace

LEMMA TakeSpawnLockKeeps == ASSUME IInv, NEW c \in Call, TakeSpawnLock(c), TypeOK' PROVE IInv'
<1>1. /\ TypeOK /\ SpawnInv /\ HandedInv(c) /\ SentInv(c)
      /\ future[c] = "none" /\ sentTo[c] = {} /\ result[c] = "none"
  BY CallFacts DEF Unsent, SentInv, TakeSpawnLock
<1>2. UNCHANGED <<future, sentTo, lock, pump, failed>>
      /\ pc[c] = "wantsSpawn" /\ spawnLock = NoCall
  BY DEF TakeSpawnLock
<1>3. \A d \in Call \ {c} : pc[d] \notin {"replacing", "spawning"}
  BY <1>1, <1>2, AloneAtSpawn
<1>4. current \in Worker \cup {None} /\ (current # None => current = spawned)
      /\ spawned \in Nat /\ \A d \in Call : mine[d] <= spawned
  BY <1>1 DEF IInv, TypeOK, SpawnInv, HandedInv
<1>5. CASE current = None /\ Spawns(c) /\ UNCHANGED <<dead, ending>>
  <2>1. \A w \in Worker : IsOver(w)
    BY <1>1, <1>5 DEF SpawnInv, None, Worker
  <2> QED
    BY <1>2, <1>5, <2>1, SpawnsKeep
<1>6. ASSUME NEW stage \in {"wantsWorker", "replacing"}, current # None,
             stage = "replacing" => dead[current] /\ spawnLock' = c,
             mine' = Set(mine, c, current), Goto(c, stage),
             UNCHANGED <<result, current, spawned, proc>>,
             \A w \in Worker : /\ dead'[w] <=> dead[w]
                               /\ ending[w] => ending'[w]
                               /\ ending'[w] => ending[w] \/ dead'[w]
      PROVE  IInv'
  <2>1. \A d \in Call : pc'[d] = IF d = c THEN stage ELSE pc[d]
    BY <1>1, <1>6 DEF Goto, Set, TypeOK
  <2>2. \A d \in Call : mine'[d] = IF d = c THEN current ELSE mine[d]
    BY <1>1, <1>6 DEF Set, TypeOK
  <2>3. HandedInv(c)'
    BY <1>1, <1>2, <1>4, <1>6, <2>1, <2>2 DEF HandedInv, Owns
  <2>4. SentInv(c)'
    BY <1>1, <1>2, <1>6, <2>1 DEF SentInv, Owns, Unsent
  <2>5. SpawnInv'
    <3>1. \A d \in Call : pc'[d] \in {"replacing", "spawning"} =>
            spawnLock' = d /\ mine'[d] = current' /\ current' # None
      BY <1>3, <1>6, <2>1, <2>2
    <3>2. \A d \in Call : pc'[d] = "replacing" => dead'[mine'[d]]
      BY <1>3, <1>4, <1>6, <2>1, <2>2
    <3>3. \A d \in Call : pc'[d] # "spawning"
      BY <1>3, <1>6, <2>1
    <3> QED
      BY <1>1, <1>6, <3>1, <3>2, <3>3 DEF SpawnInv, IsOver
  <2>6. spawned <= spawned'
    BY <1>4, <1>6
  <2> QED
    BY <1>2, <1>6, <2>1, <2>2, <2>3, <2>4, <2>5, <2>6, MoveKeeps
<1>7. CASE /\ current # None
           /\ mine' = Set(mine, c, current)
           /\ Goto(c, "wantsWorker")
           /\ UNCHANGED <<attempt, result, poolVars, proc, dead, ending, faults>>
  BY <1>6, <1>7 DEF poolVars
<1>8. CASE /\ current # None /\ dead[current]
           /\ mine' = Set(mine, c, current)
           /\ spawnLock' = c
           /\ Terminate(current)
           /\ Goto(c, "replacing")
           /\ UNCHANGED <<attempt, result, current, spawned, proc, faults>>
  <2>1. \A w \in Worker : /\ dead'[w] <=> dead[w]
                          /\ ending[w] => ending'[w]
                          /\ ending'[w] => ending[w] \/ dead'[w]
    <3>1. current \in Worker
      BY <1>4, <1>8
    <3> QED
      BY <1>1, <1>8, <3>1, TerminateFacts
  <2> QED
    BY <1>6, <1>8, <2>1
<1> QED
  BY <1>5, <1>7, <1>8 DEF TakeSpawnLock

-----------------------------------------------------------------------------
(* The end of the run. *)

LEMMA PhaseKeeps == ASSUME IInv, Cleanup \/ Closes \/ UNCHANGED vars PROVE IInv'
<1>1. TypeOK /\ TypeOK' /\ SpawnInv /\ \A c \in Call : HandedInv(c) /\ SentInv(c)
  BY PhaseTypes DEF IInv
<1>2. UNCHANGED <<pc, mine, future, result, sentTo, spawnLock, current, spawned, lock, proc,
                  pump, failed>>
  BY DEF Cleanup, Closes, Shutdown, Closed, vars, callVars, poolVars, procVars
<1>3. \A w \in Worker : /\ dead[w] => dead'[w]
                        /\ ending[w] => ending'[w]
                        /\ ending'[w] => ending[w] \/ dead'[w]
  <2>1. CASE UNCHANGED <<dead, ending>>
    BY <2>1
  <2>2. CASE current \in Worker /\ Terminate(current)
    BY <1>1, <2>2, TerminateFacts
  <2>3. current = None \/ current \in Worker
    BY <1>1 DEF TypeOK
  <2> QED
    BY <2>1, <2>2, <2>3 DEF Cleanup, Closes, Shutdown, Closed, vars, procVars
<1>4. (\E c \in Call : pc[c] = "sent") => UNCHANGED dead
  BY DEF Cleanup, Closes, Shutdown, Closed, vars, procVars
<1>5. ASSUME NEW c \in Call PROVE HandedInv(c)' /\ SentInv(c)'
  <2>1. Owns(c) => lock'[mine[c]] = c
    BY <1>1, <1>2 DEF HandedInv
  <2>2. pc[c] = "sent" /\ dead'[mine[c]] => dead[mine[c]] \/ failed'[mine[c]]
    BY <1>4
  <2>3. spawned <= spawned'
    BY <1>1, <1>2 DEF TypeOK
  <2> QED
    BY <1>1, <1>2, <2>1, <2>2, <2>3, CallKeeps
<1>6. SpawnInv'
  BY <1>1, <1>2, <1>3, SpawnKeeps DEF IsOver
<1>7. ASSUME NEW w \in Worker PROVE WorkerInv(w)'
  <2>1. WorkerInv(w)
    BY DEF IInv
  <2> QED
    BY <1>2, <1>3, <2>1, WorkerKeeps
<1> QED
  BY <1>1, <1>5, <1>6, <1>7 DEF IInv

-----------------------------------------------------------------------------
(* The invariant. *)

LEMMA InitHolds == Init => IInv
<1> SUFFICES ASSUME Init PROVE IInv
  OBVIOUS
<1>1. TypeOK
  BY TypeInit
<1>2. SpawnInv
  BY DEF Init, SpawnInv, IsOver, None, Worker
<1>3. \A c \in Call : HandedInv(c) /\ SentInv(c)
  BY DEF Init, HandedInv, SentInv, Owns, Unsent, None
<1>4. \A w \in Worker : WorkerInv(w)
  BY DEF Init, WorkerInv
<1> QED
  BY <1>1, <1>2, <1>3, <1>4 DEF IInv

LEMMA CallStepKeeps ==
  ASSUME IInv, NEW c \in Call, StartCall(c) \/ Proceeds(c) \/ IsCancelled(c)
  PROVE  IInv'
<1>1. TypeOK'
  BY CallTypes, CallFacts
<1>2. Proceeds(c) => IInv'
  BY <1>1, TakeSpawnLockKeeps, ReplaceKeeps, SpawnedKeeps, TakeWorkerKeeps, AnsweredKeeps,
     WriteFailsKeeps, BrokenEndsKeeps DEF Proceeds
<1>3. IsCancelled(c) => IInv'
  BY <1>1, CancelQueuedKeeps, CancelSentKeeps, CancelSpawningKeeps, CancelBrokenKeeps,
     KilledKeeps DEF IsCancelled
<1> QED
  BY <1>2, <1>3, StartKeeps

LEMMA StepKeeps == IInv /\ [Next]_vars => IInv'
<1> SUFFICES ASSUME IInv, [Next]_vars PROVE IInv'
  OBVIOUS
<1>1. CASE \E c \in Call : StartCall(c) \/ Proceeds(c) \/ IsCancelled(c)
  BY <1>1, CallStepKeeps
<1>2. CASE \E w \in Worker : WorkerSteps(w)
  BY <1>2, WorkerStepKeeps
<1>3. CASE Cleanup \/ Closes \/ UNCHANGED vars
  BY <1>3, PhaseKeeps
<1> QED
  BY <1>1, <1>2, <1>3 DEF Next, WorkerSteps, Pumps

LEMMA InvariantAlways == Spec => []IInv
<1>1. Init => IInv
  BY InitHolds
<1>2. IInv /\ [Next]_vars => IInv'
  BY StepKeeps
<1> QED
  BY <1>1, <1>2, PTL DEF Spec

LEMMA Overlap == IInv => NoOverlap
BY DEF IInv, SpawnInv, NoOverlap

LEMMA Once == IInv => SentOnce
<1> SUFFICES ASSUME IInv, NEW c \in Call PROVE Cardinality(sentTo[c]) <= 1
  BY DEF SentOnce
<1>1. TypeOK /\ SentInv(c)
  BY CallFacts
<1>2. sentTo[c] = {} \/ \E w : sentTo[c] = {w}
  BY <1>1, CallFacts DEF SentInv
<1>3. Cardinality({}) = 0 /\ \A w : Cardinality({w}) = 1
  BY FS_EmptySet, FS_Singleton
<1> QED
  BY <1>2, <1>3

LEMMA Stopped == IInv => CancelledIsStopped
BY DEF IInv, SentInv, CancelledIsStopped, IsOver

LEMMA Crashed == IInv => CrashIsReal
BY DEF IInv, SentInv, CrashIsReal

\* The spawn lock and the wait for the old process leave at most one process
\* running (WorkerPool._get_or_spawn, _Worker.terminate).
THEOREM NoOverlapAlways == Spec => []NoOverlap
BY InvariantAlways, Overlap, PTL

\* Only a task that was not sent is tried again (WorkerPool.call).
THEOREM SentOnceAlways == Spec => []SentOnce
BY InvariantAlways, Once, PTL

\* A cancellation waits for the process that has the task to end
\* (_terminate_cancel_safe).
THEOREM CancelledIsStoppedAlways == Spec => []CancelledIsStopped
BY InvariantAlways, Stopped, PTL

\* A reported crash is the process's own doing: who is terminated for one call
\* had no other (_Worker.call and its lock).
THEOREM CrashIsRealAlways == Spec => []CrashIsReal
BY InvariantAlways, Crashed, PTL
=============================================================================
