---------------------------- MODULE FiringRules ----------------------------
(***************************************************************************)
(* One frame of a run, from the gate to quiescence, at the level of single *)
(* messages: which delivery makes which node fire, with which values, and  *)
(* what the firing sends. Merges and guards are fired inline by the pump;  *)
(* every other node is a task, which starts in the order of creation and,  *)
(* if it awaits something, ends in any order. RunCore has the scheduler    *)
(* around it (frames, cancellation, deadline, cleanup) and leaves all this *)
(* free. The document is checked first, and only runs if the gate is open. *)
(*                                                                         *)
(* A message is its number and the port that sent it. Rendering, requests  *)
(* and user code decide between the outcomes the node has. A ceiling that  *)
(* expires is one of the failures of an await. A spent budget stops the    *)
(* run; RunCore has the steps in between.                                  *)
(* Code: core/engine.py, core/runprep.py.                                  *)
(***************************************************************************)
EXTENDS FlowCheck

CONSTANTS
  Shapes,         \* the lists of node kinds to wire in every way
  Mistaken,       \* those to which an edge or a broken reference is added
  Workspaces,     \* the references between flows, and the flows on disk
  Entry,          \* the identity of the flow itself
  Laps,           \* config.count of every counter
  Count,          \* config.count of every collect
  MaxAttempts,    \* retry.max_attempts of every request
  MessageBudget,  \* defaults.run.message_budget
  MaxChanges      \* bound: times the fixture file changes on disk

ASSUME LimitsAssumption ==
  /\ Laps \in Nat /\ Count \in Nat \ {0} /\ MaxAttempts \in Nat \ {0}
  /\ MessageBudget \in Nat /\ MaxChanges \in Nat

ASSUME ShapesAssumption ==
  /\ \A shape \in Shapes \cup Mistaken : shape \in Seq(Kind)
  /\ \A shape \in Mistaken : Len(shape) > 1

\* Flows are numbered by their names.
ASSUME WorkspacesAssumption ==
  /\ Entry \in Nat
  /\ \A w \in Workspaces : w.onDisk \in SUBSET Nat /\ IsFiniteSet(w.onDisk)

VARIABLES
  doc,        \* the entry flow
  workspace,  \* the flows it refers to
  phase,      \* loaded, refused, bound, running, exhausted, broken, quiet
  report,     \* the diagnostics of the gate
  queue,      \* deliveries, oldest first
  ready,      \* firings created and not started, oldest first
  waiting,    \* firings at an await
  sent,       \* messages numbered so far, at most MessageBudget
  slots,      \* node -> port -> the latest message, for rule 2 and merge `all`
  collected,  \* node -> the messages of merge `collect`
  guards,     \* node -> passes left, or whether the deadline has passed
  assigned,   \* a `set` has fired in this frame
  file,       \* the fixture file: its version
  cached,     \* the version in _fixture_cache, 0 for none
  seen        \* what happened, for the properties: nodes reached, rounds of
              \* merges, failures nothing handles, versions served

inputVars == <<doc, workspace>>
taskVars == <<queue, ready, waiting, sent>>
frameVars == <<slots, collected, guards, assigned>>
fileVars == <<file, cached>>
vars == <<inputVars, phase, report, taskVars, frameVars, fileVars, seen>>

Smaller(a, b) == IF a < b THEN a ELSE b
KindOf(n) == doc.kinds[n]

\* The state a guard has after reset: passes left, or 2 for a clock that is
\* not started; 1 is a started clock and 0 an expired one.
Pristine(kind) == IF kind = "counter" THEN Laps ELSE 2

NoHistory == [reached |-> {}, rounds |-> [n \in Nodes(doc) |-> <<>>],
              unhandled |-> {}, served |-> {}]

-----------------------------------------------------------------------------
(* The flows to consider. *)

Ports(shape, Table(_)) == UNION {{<<n, port>> : port \in Table(shape[n])} : n \in DOMAIN shape}

Edge(source, target) ==
  [from |-> source[1], out |-> source[2], to |-> target[1], in |-> target[2]]

Document(shape, edges, broken) == [kinds |-> shape, edges |-> edges, broken |-> broken]

\* One output, or none, at every input.
Wirings(shape) == [Ports(shape, Inputs) -> Ports(shape, Outputs) \cup {<<>>}]

EdgesOf(wiring) == {Edge(wiring[t], t) : t \in {u \in DOMAIN wiring : wiring[u] # <<>>}}

\* One edge more than that, perhaps at a port the node does not have, and
\* perhaps a function or file that is not there.
DrawsMistaken ==
  \E shape \in Mistaken : \E wiring \in Wirings(shape) :
  \E source \in Ports(shape, Outputs) \cup {<<1, "ghost">>},
     target \in Ports(shape, Inputs) \cup {<<2, "ghost">>} :
  \E broken \in {{}, {2}} :
    doc = Document(shape, EdgesOf(wiring) \cup {Edge(source, target)}, broken)

Draws == \E shape \in Shapes : \E wiring \in Wirings(shape) :
           doc = Document(shape, EdgesOf(wiring), {})

EmptyFlow == Document(<<"start", "bare_end">>, {}, {})
Alone == [refs |-> [f \in {Entry} |-> {}], onDisk |-> {Entry}]

Init ==
  /\ \/ (Draws \/ DrawsMistaken) /\ workspace = Alone
     \/ doc = EmptyFlow /\ workspace \in Workspaces
  /\ phase = "loaded"
  /\ report = {}
  /\ queue = <<>> /\ ready = <<>> /\ waiting = {} /\ sent = 0
  /\ slots = [n \in Nodes(doc) |-> <<>>]
  /\ collected = [n \in Nodes(doc) |-> {}]
  /\ guards = [n \in Nodes(doc) |-> Pristine(KindOf(n))]
  /\ assigned = FALSE
  /\ file = 1 /\ cached = 0
  /\ seen = NoHistory

-----------------------------------------------------------------------------
(* prepare_run: warnings proceed, errors refuse. *)

Check ==
  /\ phase = "loaded"
  /\ report' = RunDiagnostics(doc, Entry, workspace.refs, workspace.onDisk)
  /\ phase' = IF Blocks(report') THEN "refused" ELSE "bound"
  /\ UNCHANGED <<inputVars, taskVars, frameVars, fileVars, seen>>

-----------------------------------------------------------------------------
(* _emit_output: one message per edge, in order, while the budget lasts.   *)

InOrder(edges) ==
  CHOOSE s \in [1..Cardinality(edges) -> edges] :
    \A i, j \in DOMAIN s : i # j => s[i] # s[j]

EdgesFrom(n, port) == {e \in doc.edges : e.from = n /\ e.out = port}

Room(n, port) == Smaller(Cardinality(EdgesFrom(n, port)), MessageBudget - sent)

Deliveries(n, port) ==
  LET edges == InOrder(EdgesFrom(n, port))
      Message(i) == [id |-> sent + i, from |-> n, out |-> port]
  IN [i \in 1..Room(n, port) |-> [to |-> edges[i].to, in |-> edges[i].in, message |-> Message(i)]]

\* _ERROR_CLASS_PORTS: a message that leaves one of them unwired is a failure
\* nothing handles.
ErrorClassPort(kind) ==
  CASE kind \in {"request", "python"} -> "error"
    [] kind = "assert"               -> "failed"
    [] OTHER                         -> "none"

\* What is sent through a port goes behind rest, the queue so far. In an except
\* clause nobody catches the end of the budget: what is left is not sent.
Emit(n, port, rest, history, caught) ==
  /\ queue' = rest \o Deliveries(n, port)
  /\ sent' = sent + Room(n, port)
  /\ phase' = IF caught /\ Room(n, port) < Cardinality(EdgesFrom(n, port))
              THEN "exhausted" ELSE "running"
  /\ seen' = IF EdgesFrom(n, port) = {} /\ ErrorClassPort(KindOf(n)) = port
             THEN [history EXCEPT !.unhandled = @ \cup {<<n, port>>}]
             ELSE history

Reaches(n) == [seen EXCEPT !.reached = @ \cup {n}]

\* _node_error: the error outlet, or a recorded failure.
NodeError(n, history) ==
  IF KindOf(n) \in {"request", "python"}
  THEN Emit(n, "error", queue, history, FALSE)
  ELSE /\ seen' = [history EXCEPT !.unhandled = @ \cup {<<n, "none">>}]
       /\ UNCHANGED <<phase, queue, sent>>

Firing(n, values) == [node |-> n, values |-> values, attempt |-> 1]

-----------------------------------------------------------------------------
(* _seed: Start emits, then every fixture without a trigger fires. *)

SeededFixtures ==
  LET Sources == {n \in Nodes(doc) : KindOf(n) = "fixture" /\ ~Wired(doc, n, "trigger")}
      Nth(i) == CHOOSE n \in Sources : Cardinality({m \in Sources : m < n}) = i - 1
  IN [i \in 1..Cardinality(Sources) |-> Firing(Nth(i), <<>>)]

Seed ==
  /\ phase = "bound"
  /\ LET start == CHOOSE n \in Nodes(doc) : KindOf(n) = "start"
     IN Emit(start, "out", queue, Reaches(start), TRUE)
  /\ ready' = SeededFixtures
  /\ UNCHANGED <<inputVars, report, waiting, frameVars, fileVars>>

-----------------------------------------------------------------------------
(* _dispatch: the delivery at the head of the queue. *)

Filled(n, port, message) ==
  [p \in DOMAIN slots[n] \cup {port} |-> IF p = port THEN message ELSE slots[n][p]]

Set(f, n, value) == [f EXCEPT ![n] = value]

\* Rule 5: End keeps the latest value.
ToEnd(d) ==
  /\ KindOf(d.to) \in Ends
  /\ queue' = Tail(queue)
  /\ seen' = Reaches(d.to)
  /\ UNCHANGED <<phase, ready, sent, frameVars>>

\* Nothing is sent yet.
Absorbs ==
  /\ queue' = Tail(queue)
  /\ UNCHANGED <<phase, sent, seen>>

MergeEmits(n, msgs) ==
  Emit(n, "out", Tail(queue),
       [Reaches(n) EXCEPT !.rounds[n] = Append(@, msgs)], TRUE)

\* Mutant: the slots of a round stay filled.
AfterRoundKeeps(n) == slots

\* Rule 3, mode all: a round has one message from every wired port.
AfterRound(n) == Set(slots, n, <<>>)

ToAll(d) ==
  /\ KindOf(d.to) = "all"
  /\ LET filled == Filled(d.to, d.in, d.message)
     IN IF DOMAIN filled # InPorts(doc, d.to)
        THEN Absorbs /\ slots' = Set(slots, d.to, filled)
        ELSE /\ MergeEmits(d.to, {filled[p] : p \in DOMAIN filled})
             /\ slots' = AfterRound(d.to)
  /\ UNCHANGED <<ready, collected, guards, assigned>>

ToAny(d) ==
  /\ KindOf(d.to) = "any"
  /\ MergeEmits(d.to, {d.message})
  /\ UNCHANGED <<ready, frameVars>>

ToCollect(d) ==
  /\ KindOf(d.to) = "collect"
  /\ LET bucket == collected[d.to] \cup {d.message}
     IN IF Cardinality(bucket) < Count
        THEN Absorbs /\ collected' = Set(collected, d.to, bucket)
        ELSE MergeEmits(d.to, bucket) /\ collected' = Set(collected, d.to, {})
  /\ UNCHANGED <<ready, slots, guards, assigned>>

\* Rule 4: a guard passes or trips; reset restores it and emits nothing.
Passes(n, left, port, d) ==
  /\ guards' = Set(guards, n, left)
  /\ Emit(n, port, Tail(queue), Reaches(n), TRUE)

\* Mutant: a pass is not written back.
CountsForever(d) ==
  IF guards[d.to] > 0 THEN Passes(d.to, guards[d.to], "continue", d)
                      ELSE Passes(d.to, 0, "exhausted", d)

Counts(d) ==
  IF guards[d.to] > 0 THEN Passes(d.to, guards[d.to] - 1, "continue", d)
                      ELSE Passes(d.to, 0, "exhausted", d)

Clocks(d) ==
  \/ guards[d.to] > 0 /\ Passes(d.to, 1, "continue", d)
  \/ guards[d.to] < 2 /\ Passes(d.to, 0, "expired", d)

ToGuard(d) ==
  /\ KindOf(d.to) \in Guards
  /\ IF d.in = "reset"
     THEN Absorbs /\ guards' = Set(guards, d.to, Pristine(KindOf(d.to)))
     ELSE IF KindOf(d.to) = "counter" THEN Counts(d) ELSE Clocks(d)
  /\ UNCHANGED <<ready, slots, collected, assigned>>

\* Rules 1 and 2: with several wired inputs, once each has a value.
ToTask(d) ==
  /\ KindOf(d.to) \notin Ends \cup Merges \cup Guards
  /\ UNCHANGED <<phase, sent, seen, collected, guards, assigned>>
  /\ queue' = Tail(queue)
  /\ LET filled == Filled(d.to, d.in, d.message)
         several == Cardinality(InPorts(doc, d.to)) > 1
     IN /\ slots' = IF several THEN Set(slots, d.to, filled) ELSE slots
        /\ ready' = IF several /\ DOMAIN filled # InPorts(doc, d.to) THEN ready
                    ELSE Append(ready, Firing(d.to, filled))

Dispatch ==
  /\ phase = "running" /\ queue # <<>>
  /\ LET d == Head(queue)
     IN ToEnd(d) \/ ToAll(d) \/ ToAny(d) \/ ToCollect(d) \/ ToGuard(d) \/ ToTask(d)
  /\ UNCHANGED <<inputVars, report, waiting, fileVars>>

-----------------------------------------------------------------------------
(* _fire: the oldest task starts, and either ends at once or awaits. *)

Awaits == {"request", "python", "delay"}

\* A firing without an await ends with one output, or its rendering fails.
Outcomes(n) ==
  CASE KindOf(n) \in {"set", "log"}        -> {"out"}
    [] KindOf(n) = "get"                   -> IF assigned THEN {"value"} ELSE {}
    [] KindOf(n) \in {"condition", "assert"} -> Outputs(KindOf(n))
    [] OTHER                               -> {}

MayFail(n) == KindOf(n) \in {"condition", "assert", "set"} \/ (KindOf(n) = "get" /\ ~assigned)

RunsAtOnce(f) ==
  /\ KindOf(f.node) \notin Awaits \cup {"fixture"}
  /\ \/ \E port \in Outcomes(f.node) :
          /\ Emit(f.node, port, queue, Reaches(f.node), TRUE)
          /\ assigned' = (assigned \/ KindOf(f.node) = "set")
     \/ MayFail(f.node) /\ NodeError(f.node, Reaches(f.node)) /\ UNCHANGED assigned
  /\ UNCHANGED <<waiting, fileVars>>

\* _fire: an exception nobody expects is fatal to the run.
Crashes(n) ==
  /\ phase' = "broken"
  /\ seen' = Reaches(n)
  /\ UNCHANGED <<queue, sent>>

\* _load_fixture: the path is resolved each time; the file is read until that
\* works once, then never again. Bytes that are not UTF-8 are no OSError.
Serves(n, version) ==
  Emit(n, "value", queue,
       [Reaches(n) EXCEPT !.served = @ \cup {version}], TRUE)

\* Mutant: the file is read each time.
LoadFixtureAgain(n) ==
  \/ Serves(n, file) /\ cached' = file
  \/ (NodeError(n, Reaches(n)) \/ Crashes(n)) /\ UNCHANGED cached

LoadFixture(n) ==
  \/ NodeError(n, Reaches(n)) /\ UNCHANGED cached
  \/ cached # 0 /\ Serves(n, cached) /\ UNCHANGED cached
  \/ cached = 0 /\ Serves(n, file) /\ cached' = file
  \/ cached = 0 /\ Crashes(n) /\ UNCHANGED cached

RunsFixture(f) ==
  /\ KindOf(f.node) = "fixture"
  /\ LoadFixture(f.node)
  /\ UNCHANGED <<waiting, assigned, file>>

BeginsToWait(f) ==
  /\ KindOf(f.node) \in Awaits
  /\ waiting' = waiting \cup {f}
  /\ seen' = Reaches(f.node)
  /\ UNCHANGED <<phase, queue, sent, assigned, fileVars>>

Start ==
  /\ phase = "running" /\ ready # <<>>
  /\ ready' = Tail(ready)
  /\ RunsAtOnce(Head(ready)) \/ RunsFixture(Head(ready)) \/ BeginsToWait(Head(ready))
  /\ UNCHANGED <<inputVars, report, slots, collected, guards>>

-----------------------------------------------------------------------------
(* The ends of an await. *)

Success(kind) == IF kind = "request" THEN "response" ELSE "out"

Returns(f) ==
  /\ waiting' = waiting \ {f}
  /\ Emit(f.node, Success(KindOf(f.node)), queue, seen, TRUE)

\* The ceiling, an exception, a crash, the last attempt, a bad body.
Breaks(f) ==
  /\ waiting' = waiting \ {f}
  /\ NodeError(f.node, seen)

\* A transport error before the last attempt.
Retries(f) ==
  /\ KindOf(f.node) = "request" /\ f.attempt < MaxAttempts
  /\ waiting' = (waiting \ {f}) \cup {[f EXCEPT !.attempt = @ + 1]}
  /\ UNCHANGED <<phase, queue, sent, seen>>

Resume ==
  /\ phase = "running"
  /\ \E f \in waiting : Returns(f) \/ Breaks(f) \/ Retries(f)
  /\ UNCHANGED <<inputVars, report, ready, frameVars, fileVars>>

-----------------------------------------------------------------------------
FileChanges ==
  /\ phase = "running" /\ file <= MaxChanges
  /\ \E n \in Nodes(doc) : KindOf(n) = "fixture"
  /\ file' = file + 1
  /\ UNCHANGED <<inputVars, phase, report, taskVars, frameVars, cached, seen>>

\* Nothing is in flight: the run is over.
GoesQuiet ==
  /\ phase = "running"
  /\ queue = <<>> /\ ready = <<>> /\ waiting = {}
  /\ phase' = "quiet"
  /\ UNCHANGED <<inputVars, report, taskVars, frameVars, fileVars, seen>>

Next == Check \/ Seed \/ Dispatch \/ Start \/ Resume \/ FileChanges \/ GoesQuiet

Spec == Init /\ [][Next]_vars

-----------------------------------------------------------------------------
(* What a cycle is, independently of the search for one. *)

HasCycle(V, next) == \E S \in SUBSET V : S # {} /\ \A u \in S : next[u] \cap S # {}

IsCycle(path, next) ==
  /\ Len(path) > 1 /\ path[1] = path[Len(path)]
  /\ \A i \in 1..(Len(path) - 1) : path[i + 1] \in next[path[i]]
  /\ \A i, j \in 1..(Len(path) - 1) : i # j => path[i] # path[j]

Finds(path, V, next) == IF HasCycle(V, next) THEN IsCycle(path, next) ELSE path = <<>>

\* The search of the checker finds a cycle exactly when there is one, and what
\* it reports is one: of guard-free edges (W101), of references (E007).
FindsCycle ==
  LET loaded == Followed(Entry, workspace.refs, workspace.onDisk)
  IN phase \in {"refused", "bound"} =>
       /\ Finds(GuardFreeCycle(doc), Guardless(doc), GuardlessNext(doc))
       /\ Finds(ReferenceCycle(Entry, workspace.refs, workspace.onDisk),
                loaded, ReferenceNext(Entry, workspace.refs, workspace.onDisk))

\* A loop that no counter ends: a counter's `continue` edge bounds the laps
\* through it unless its own reset is wired.
BoundedEdge(e) ==
  KindOf(e.from) = "counter" /\ e.out = "continue" /\ ~Wired(doc, e.from, "reset")

FreeEdges == {e \in doc.edges : ~BoundedEdge(e)}

HasRunaway ==
  HasCycle(Nodes(doc), [n \in Nodes(doc) |-> {e.to : e \in {f \in FreeEdges : f.from = n}}])

\* The ways on which messages come: from a root, or from a pass of a counter,
\* along edges that are not bounded.
IsPath(S, n) ==
  /\ \A f, g \in S : f.from = g.from => f = g
  /\ \A f \in S : f.from = n \/ \E g \in S : g.to = f.from

Origins == {<<n>> : n \in Roots(doc)}
             \cup {<<e.to, e, lap>> : e \in doc.edges \ FreeEdges, lap \in 1..Laps}

Journeys == {j \in Origins \X SUBSET FreeEdges : IsPath(j[2], j[1][1])}

\* What the checker says of a document is what its runs do: a node it calls
\* unreachable never fires, a failure that falls off an unwired port was warned
\* about, and a budget that has a message for every journey is only spent in a
\* loop that goes round without a counter that holds.
WarningsHold ==
  /\ \A d \in report : d.code = "W104" => d.node \notin seen.reached
  /\ \A u \in seen.unhandled : u[2] # "none" => Diagnostic("W103", u[1]) \in report
  /\ phase = "exhausted" => HasRunaway \/ Cardinality(Journeys) > MessageBudget

\* A firing has a value for every required input, each sent by the one output
\* that is wired there; a round of a merge is complete, in the order of its
\* ports' messages, and shares no message with another.
ComesFrom(m, n, port) ==
  {e \in doc.edges : e.to = n /\ e.in = port}
    = {[from |-> m.from, out |-> m.out, to |-> n, in |-> port]}

CompleteFiring(f) ==
  /\ RequiredInputs(KindOf(f.node)) \subseteq DOMAIN f.values
  /\ \A port \in DOMAIN f.values : ComesFrom(f.values[port], f.node, port)

CompleteRounds(n) ==
  LET rounds == seen.rounds[n]
      Size == IF KindOf(n) = "collect" THEN Count
              ELSE IF KindOf(n) = "all" THEN Cardinality(InPorts(doc, n)) ELSE 1
  IN /\ \A i \in DOMAIN rounds : Cardinality(rounds[i]) = Size
     /\ \A i, j \in DOMAIN rounds : i < j =>
          /\ rounds[i] \cap rounds[j] = {}
          /\ \A m \in rounds[i], k \in rounds[j] :
               m.from = k.from /\ m.out = k.out /\ KindOf(n) # "any" => m.id < k.id

FiringsAreComplete ==
  /\ \A i \in DOMAIN ready : CompleteFiring(ready[i])
  /\ \A f \in waiting : CompleteFiring(f)
  /\ \A n \in Nodes(doc) : KindOf(n) \in Merges => CompleteRounds(n)

\* All firings of the fixtures of a run serve the same data, however often the
\* file changes or cannot be read.
OneFixture == Cardinality(seen.served) <= 1
=============================================================================
