----------------------------- MODULE RunHistory -----------------------------
(***************************************************************************)
(* The run history of one flow: a directory that several napflow processes *)
(* (a server, CLI runs, programs using the API) share with nothing between *)
(* them but the files in it. A run creates its log, takes a creation order *)
(* and an .active marker, writes records and blobs, and is completed or    *)
(* abandoned. Whoever completes a run, and the server whenever a reader    *)
(* leaves, deletes what exceeds the limit: it claims units under a lock    *)
(* and removes them, path by path, after it has let the lock go. Any file  *)
(* operation may fail and any process may die between two of them.         *)
(*                                                                         *)
(* An action is one file operation, or the reads and the one write that    *)
(* nothing can come between. Code: core/events.py, core/runprep.py,        *)
(* core/history_content.py, server/runs.py, core/api.py, cli/main.py.      *)
(***************************************************************************)
EXTENDS Integers, FiniteSets

CONSTANTS
  Proc,       \* the processes
  Run,        \* run ids; each is drawn at most once
  Stamp,      \* run -> its place by completed_ns and, within one instant, by id
  History,    \* defaults.run.history: completed units to keep
  Big,        \* the runs with a value above the inline threshold
  MaxFaults,  \* bound: operations that fail, runs cut short, processes that die
  NoRun, NoProc,
  Dead        \* the owner of a lease whose process died

ASSUME NamesAssumption == NoRun \notin Run /\ NoProc \notin Proc /\ Dead \notin Proc
\* The wall clock may go back: nothing relates a stamp to the creation order.
ASSUME StampAssumption ==
  /\ Stamp \in [Run -> Nat]
  /\ \A r, q \in Run : Stamp[r] = Stamp[q] => r = q
\* The manifest's history is an integer of at least one.
ASSUME HistoryAssumption == History \in Nat \ {0}
ASSUME BoundAssumption == MaxFaults \in Nat /\ Big \subseteq Run

VARIABLES
  files,    \* run -> the suffixes of its unit that exist
  tail,     \* run -> what the last line of its log is
  refs,     \* run -> the log holds a record that refers to a blob
  store,    \* run -> the state of that blob's file
  leases,   \* run -> the processes with a .reader- lease, Dead among them
  order,    \* run -> its creation order, 0 before it has one
  counter,  \* .history-order.json
  lock,     \* the process that holds .history.lock
  pc,       \* process -> where it is
  unit,     \* process -> the run it drives, or the one it reads
  ok,       \* process -> completed /\ stream_closed
  todo,     \* process -> the units still to visit in this part of the pass
  found,    \* process -> the eligible units of its listing, with their rank
  jobs,     \* process -> the units it claimed and has not deleted
  retired,  \* history variable: the units claimed so far
  faults    \* what has gone wrong so far

unitVars == <<files, tail, refs, store, leases, order>>
passVars == <<todo, found, jobs>>
vars == <<unitVars, counter, lock, pc, unit, ok, passVars, retired, faults>>

Suffix == {"log", "active", "incomplete", "complete", "blobs", "deleting"}
Stages == {"idle", "created", "ordered", "running", "stopped", "closed", "published",
           "abandoning", "retain", "resuming", "resumeDelete", "listing", "claiming",
           "deleting", "delete", "reading"}

TypeOK ==
  /\ files \in [Run -> SUBSET Suffix]
  /\ tail \in [Run -> {"prefix", "torn", "finished"}]
  /\ refs \in [Run -> BOOLEAN]
  /\ store \in [Run -> {"torn", "whole"}]
  /\ leases \in [Run -> SUBSET (Proc \cup {Dead})]
  /\ order \in [Run -> Nat]
  /\ counter \in Nat
  /\ lock \in Proc \cup {NoProc}
  /\ pc \in [Proc -> Stages]
  /\ unit \in [Proc -> Run \cup {NoRun}]
  /\ ok \in [Proc -> BOOLEAN]
  /\ todo \in [Proc -> SUBSET Run]
  /\ found \in [Proc -> SUBSET (Run \X Nat)]
  /\ jobs \in [Proc -> SUBSET Run]
  /\ retired \subseteq Run
  /\ faults \in 0..MaxFaults

Init ==
  /\ files = [r \in Run |-> {}]
  /\ tail = [r \in Run |-> "prefix"]
  /\ refs = [r \in Run |-> FALSE]
  /\ store = [r \in Run |-> "torn"]
  /\ leases = [r \in Run |-> {}]
  /\ order = [r \in Run |-> 0]
  /\ counter = 0
  /\ lock = NoProc
  /\ pc = [p \in Proc |-> "idle"]
  /\ unit = [p \in Proc |-> NoRun]
  /\ ok = [p \in Proc |-> FALSE]
  /\ todo = [p \in Proc |-> {}]
  /\ found = [p \in Proc |-> {}]
  /\ jobs = [p \in Proc |-> {}]
  /\ retired = {}
  /\ faults = 0

-----------------------------------------------------------------------------
(* What the code asks of a unit's files. *)

Has(r, suffix) == suffix \in files[r]

\* last_jsonl_record(log) is this run's run_finished: malformed last lines
\* are skipped, and a log that is not there has no record.
IsFinished(r) == Has(r, "log") /\ tail[r] = "finished"

HasReader(r) == leases[r] # {}

\* What both the listing and the resumption of a deletion leave alone.
IsProtected(r) == Has(r, "active") \/ Has(r, "incomplete") \/ HasReader(r)

\* The listing's chronology: without completion metadata a unit is a legacy
\* one, and every legacy unit sorts before every other.
Rank(r) == IF Has(r, "complete") THEN order[r] ELSE 0

EligibleEvenActive(r) ==                       \* mutant: .active is not looked at
  ~Has(r, "incomplete") /\ ~HasReader(r) /\ IsFinished(r)
IsEligible(r) == ~IsProtected(r) /\ IsFinished(r)

\* completed[:-history]: the units with at least History others above them.
\* Two runs have the same order when the counter was lost between their starts.
Above(f, g) == f[2] > g[2] \/ (f[2] = g[2] /\ Stamp[f[1]] > Stamp[g[1]])
ExcessReversed(listed) ==                      \* mutant: sorted the other way
  {f \in listed : Cardinality({g \in listed : Above(f, g)}) >= History}
Excess(listed) == {f \in listed : Cardinality({g \in listed : Above(g, f)}) >= History}

\* Orders on the markers that _next_history_order reads beside its counter.
Marked == {r \in Run : files[r] \cap {"active", "incomplete", "complete"} # {}}
OrderFromCounter == counter + 1                \* mutant: the markers are not read
NextOrder ==
  LET seen == {counter} \cup {order[r] : r \in Marked}
  IN 1 + CHOOSE n \in seen : \A m \in seen : m <= n

TombstoneFirst ==                              \* mutant: the tombstone goes first
  [complete |-> 1, active |-> 2, incomplete |-> 3, blobs |-> 4, log |-> 5, deleting |-> 0]
\* _delete_claimed_unit: companions, then the log, then the tombstone. A path
\* that is missing is passed over, and none of them ever comes back.
Turn == [complete |-> 1, active |-> 2, incomplete |-> 3, blobs |-> 4, log |-> 5, deleting |-> 6]
IsNext(r, suffix) == Has(r, suffix) /\ \A other \in files[r] : Turn[suffix] <= Turn[other]

\* One file operation fails.
Fault == faults < MaxFaults /\ faults' = faults + 1
NoFault == UNCHANGED faults

Add(r, suffix) == files' = [files EXCEPT ![r] = @ \cup {suffix}]
Remove(r, suffixes) == files' = [files EXCEPT ![r] = @ \ suffixes]
Goto(p, stage) == pc' = [pc EXCEPT ![p] = stage]
Leave(p) ==
  /\ Goto(p, "idle")
  /\ unit' = [unit EXCEPT ![p] = NoRun]
  /\ ok' = [ok EXCEPT ![p] = FALSE]

-----------------------------------------------------------------------------
(* A run: its files, its records, its end. *)

\* JsonlSink creates the log exclusively, under an id of which there is no trace.
Unused == {r \in Run : /\ files[r] = {} /\ order[r] = 0 /\ tail[r] = "prefix" /\ ~refs[r]
                       /\ \A p \in Proc : unit[p] # r}
CreateLog(p) ==
  /\ pc[p] = "idle"
  /\ Unused # {}
  /\ LET r == CHOOSE r \in Unused : TRUE
     IN /\ unit' = [unit EXCEPT ![p] = r]
        /\ Add(r, "log")
  /\ Goto(p, "created")
  /\ UNCHANGED <<tail, refs, store, leases, order, counter, lock, ok, passVars,
                 retired, faults>>

\* The order is allocated under the lock, and the marker is written without it.
AllocateOrder(p) ==
  /\ pc[p] = "created"
  /\ lock = NoProc
  /\ order' = [order EXCEPT ![unit[p]] = NextOrder]
  /\ counter' = NextOrder
  /\ Goto(p, "ordered")
  /\ UNCHANGED <<files, tail, refs, store, leases, lock, unit, ok, passVars, retired, faults>>

WriteMarker(p) ==
  /\ pc[p] = "ordered"
  /\ Add(unit[p], "active")
  /\ Goto(p, "running")
  /\ UNCHANGED <<tail, refs, store, leases, order, counter, lock, unit, ok, passVars,
                 retired, faults>>

\* begin_run_history fails: the log is unlinked, unless that fails too.
BeginFails(p) ==
  /\ pc[p] \in {"created", "ordered"}
  /\ Fault
  /\ \/ Remove(unit[p], {"log"})
     \/ UNCHANGED files
  /\ Leave(p)
  /\ UNCHANGED <<tail, refs, store, leases, order, counter, lock, passVars,
                 retired>>

\* A value above the inline threshold becomes a blob before the record that
\* refers to it is written. A write that fails removes what it created, and
\* the removal may fail in turn and leave a torn file.
PersistBlob(p) ==
  /\ pc[p] = "running"
  /\ unit[p] \in Big
  /\ ~Has(unit[p], "blobs")
  /\ \/ NoFault /\ Add(unit[p], "blobs") /\ store' = [store EXCEPT ![unit[p]] = "whole"]
     \/ Fault /\ Add(unit[p], "blobs") /\ UNCHANGED store
  /\ UNCHANGED <<tail, refs, leases, order, counter, lock, pc, unit, ok, passVars,
                 retired>>

\* persist() returns a descriptor for a blob that is there only when it has
\* read it back and found the same bytes.
DescriptorFor(r) == Has(r, "blobs") /\ store[r] = "whole"
AppendReference(p) ==
  /\ pc[p] = "running"
  /\ ~refs[unit[p]]
  /\ DescriptorFor(unit[p])
  /\ tail[unit[p]] = "prefix"
  /\ refs' = [refs EXCEPT ![unit[p]] = TRUE]
  /\ UNCHANGED <<files, tail, store, leases, order, counter, lock, pc, unit, ok,
                 passVars, retired, faults>>

\* A write that fails part-way leaves a line without its end, to which the
\* next record is glued.
TearLine(p) ==
  /\ pc[p] = "running"
  /\ tail[unit[p]] = "prefix"
  /\ Fault
  /\ tail' = [tail EXCEPT ![unit[p]] = "torn"]
  /\ UNCHANGED <<files, refs, store, leases, order, counter, lock, pc, unit, ok,
                 passVars, retired>>

\* FlowRun.execute() emits run_finished and returns its result, or it raises
\* with the record written or not (a failed emission, a cancelled task, an
\* interrupt). After a torn line the record completes it or is lost in it.
Execute(p) ==
  /\ pc[p] = "running"
  /\ \E written, returned \in BOOLEAN :
       /\ returned => written \/ tail[unit[p]] = "torn"
       /\ tail' = IF written THEN [tail EXCEPT ![unit[p]] = "finished"] ELSE tail
       /\ ok' = [ok EXCEPT ![p] = returned]
       /\ IF returned THEN NoFault ELSE Fault
  /\ Goto(p, "stopped")
  /\ UNCHANGED <<files, refs, store, leases, order, counter, lock, unit, passVars,
                 retired>>

\* FlowRun cannot be built: the opened unit is closed and abandoned unused.
SetupFails(p) ==
  /\ pc[p] = "running"
  /\ tail[unit[p]] = "prefix" /\ ~Has(unit[p], "blobs")
  /\ Fault
  /\ ok' = [ok EXCEPT ![p] = FALSE]
  /\ Goto(p, "closed")
  /\ UNCHANGED <<unitVars, counter, lock, unit, passVars, retired>>

\* EventStream.close closes every sink and reports the first failure.
CloseStream(p) ==
  /\ pc[p] = "stopped"
  /\ \/ NoFault /\ UNCHANGED ok
     \/ Fault /\ ok' = [ok EXCEPT ![p] = FALSE]
  /\ Goto(p, "closed")
  /\ UNCHANGED <<unitVars, counter, lock, unit, passVars, retired>>

\* The CLI writes its reports before it finalizes: a report that fails costs
\* the unit its completion.
ReportFails(p) ==
  /\ pc[p] = "closed"
  /\ ok[p]
  /\ Fault
  /\ ok' = [ok EXCEPT ![p] = FALSE]
  /\ UNCHANGED <<unitVars, counter, lock, pc, unit, passVars, retired>>

\* complete_run_history believes the log, not its caller: without a final
\* run_finished the unit is abandoned.
Publish(p) ==
  /\ pc[p] = "closed"
  /\ \/ /\ ok[p] /\ IsFinished(unit[p])
        /\ NoFault
        /\ Add(unit[p], "complete")
        /\ Goto(p, "published")
     \/ /\ ok[p] /\ IsFinished(unit[p])
        /\ Fault
        /\ Goto(p, "abandoning")
        /\ UNCHANGED files
     \/ /\ ~(ok[p] /\ IsFinished(unit[p]))
        /\ NoFault
        /\ Goto(p, "abandoning")
        /\ UNCHANGED files
  /\ UNCHANGED <<tail, refs, store, leases, order, counter, lock, unit, ok, passVars,
                 retired>>

\* .active goes only after .complete is durable; then the directory is retained.
ReleaseActive(p) ==
  /\ pc[p] = "published"
  /\ \/ /\ NoFault
        /\ Remove(unit[p], {"active", "incomplete"})
        /\ Goto(p, "retain")
        /\ unit' = [unit EXCEPT ![p] = NoRun]
        /\ ok' = [ok EXCEPT ![p] = FALSE]
     \/ Fault /\ Goto(p, "abandoning") /\ UNCHANGED <<files, unit, ok>>
  /\ UNCHANGED <<tail, refs, store, leases, order, counter, lock, passVars,
                 retired>>

\* finalize_run_history(completed=False), asked for or as the fallback of a
\* completion that failed: one rename, which may fail and leave .active.
Abandon(p) ==
  /\ pc[p] = "abandoning"
  /\ \/ /\ NoFault
        /\ files' = [files EXCEPT ![unit[p]] =
             IF "active" \in @ THEN (@ \ {"active"}) \cup {"incomplete"} ELSE @]
     \/ Fault /\ UNCHANGED files
  /\ Leave(p)
  /\ UNCHANGED <<tail, refs, store, leases, order, counter, lock, passVars,
                 retired>>

-----------------------------------------------------------------------------
(* Readers: the server's pages and live views of a run. *)

OpenReaderOfDeleted(p, r) ==                   \* mutant: the tombstone is not looked at
  /\ pc[p] = "idle"
  /\ lock = NoProc
  /\ Has(r, "log")
  /\ leases' = [leases EXCEPT ![r] = @ \cup {p}]
  /\ unit' = [unit EXCEPT ![p] = r]
  /\ Goto(p, "reading")
  /\ UNCHANGED <<files, tail, refs, store, order, counter, lock, ok, passVars, retired,
                 faults>>
\* begin_history_reader looks for the log and the tombstone and writes its
\* lease under the lock.
OpenReader(p, r) ==
  /\ pc[p] = "idle"
  /\ lock = NoProc
  /\ Has(r, "log")
  /\ ~Has(r, "deleting")
  /\ leases' = [leases EXCEPT ![r] = @ \cup {p}]
  /\ unit' = [unit EXCEPT ![p] = r]
  /\ Goto(p, "reading")
  /\ UNCHANGED <<files, tail, refs, store, order, counter, lock, ok, passVars, retired, faults>>

\* The lease is released without the lock, then the server retains. A lease
\* that cannot be unlinked stays, and belongs to nobody.
CloseReader(p) ==
  /\ pc[p] = "reading"
  /\ \/ /\ NoFault
        /\ leases' = [leases EXCEPT ![unit[p]] = @ \ {p}]
        /\ Goto(p, "retain")
     \/ /\ Fault
        /\ leases' = [leases EXCEPT ![unit[p]] = (@ \ {p}) \cup {Dead}]
        /\ Goto(p, "idle")
  /\ unit' = [unit EXCEPT ![p] = NoRun]
  /\ UNCHANGED <<files, tail, refs, store, order, counter, lock, ok, passVars, retired>>

-----------------------------------------------------------------------------
(* Retention: one pass of apply_retention. *)

StartPassAfresh(p) ==                          \* mutant: tombstones are not resumed
  /\ pc[p] = "retain"
  /\ lock = NoProc
  /\ lock' = p
  /\ Goto(p, "resuming")
  /\ UNCHANGED <<unitVars, counter, unit, ok, passVars, retired, faults>>
StartPass(p) ==
  /\ pc[p] = "retain"
  /\ lock = NoProc
  /\ lock' = p
  /\ todo' = [todo EXCEPT ![p] = {r \in Run : Has(r, "deleting")}]
  /\ Goto(p, "resuming")
  /\ UNCHANGED <<unitVars, counter, unit, ok, found, jobs, retired, faults>>

LockFails(p) ==
  /\ pc[p] = "retain"
  /\ Fault
  /\ Goto(p, "idle")
  /\ UNCHANGED <<unitVars, counter, lock, unit, ok, passVars, retired>>

\* A tombstone is void when its unit is protected or not finished, and
\* otherwise the deletion it stands for is done again. The log looks
\* unfinished when another process unlinks it between the two looks at it.
IsVoid(r) == IsProtected(r) \/ (Has(r, "log") /\ ~IsFinished(r))
Vanishes(r) == ~Has(r, "log") /\ \E q \in Proc : pc[q] = "delete" /\ unit[q] = r
ResumeClaim(p, r) ==
  /\ pc[p] = "resuming"
  /\ r \in todo[p]
  /\ todo' = [todo EXCEPT ![p] = @ \ {r}]
  /\ \/ /\ ~Has(r, "deleting")
        /\ UNCHANGED <<files, pc, unit>>
     \/ /\ Has(r, "deleting") /\ (IsVoid(r) \/ Vanishes(r))
        /\ Remove(r, {"deleting"})
        /\ UNCHANGED <<pc, unit>>
     \/ /\ Has(r, "deleting") /\ ~IsVoid(r)
        /\ unit' = [unit EXCEPT ![p] = r]
        /\ Goto(p, "resumeDelete")
        /\ UNCHANGED files
  /\ UNCHANGED <<tail, refs, store, leases, order, counter, lock, ok, found, jobs,
                 retired, faults>>

StartListing(p) ==
  /\ pc[p] = "resuming"
  /\ todo[p] = {}
  /\ todo' = [todo EXCEPT ![p] = {r \in Run : Has(r, "log")}]
  /\ Goto(p, "listing")
  /\ UNCHANGED <<unitVars, counter, lock, unit, ok, found, jobs, retired, faults>>

\* The reads that judge one unit are one step.
ListUnit(p, r) ==
  /\ pc[p] = "listing"
  /\ r \in todo[p]
  /\ todo' = [todo EXCEPT ![p] = @ \ {r}]
  /\ found' = IF IsEligible(r) THEN [found EXCEPT ![p] = @ \cup {<<r, Rank(r)>>}] ELSE found
  /\ UNCHANGED <<unitVars, counter, lock, pc, unit, ok, jobs, retired, faults>>

ChooseExcess(p) ==
  /\ pc[p] = "listing"
  /\ todo[p] = {}
  /\ todo' = [todo EXCEPT ![p] = {f[1] : f \in Excess(found[p])}]
  /\ found' = [found EXCEPT ![p] = {}]
  /\ Goto(p, "claiming")
  /\ UNCHANGED <<unitVars, counter, lock, unit, ok, jobs, retired, faults>>

\* _claim_deletion: the tombstone is created exclusively; one that exists, or
\* cannot be created, leaves the unit to somebody else.
ClaimUnit(p, r) ==
  /\ pc[p] = "claiming"
  /\ r \in todo[p]
  /\ todo' = [todo EXCEPT ![p] = @ \ {r}]
  /\ \/ /\ ~Has(r, "deleting")
        /\ NoFault
        /\ Add(r, "deleting")
        /\ jobs' = [jobs EXCEPT ![p] = @ \cup {r}]
        /\ retired' = retired \cup {r}
     \/ Has(r, "deleting") /\ NoFault /\ UNCHANGED <<files, jobs, retired>>
     \/ ~Has(r, "deleting") /\ Fault /\ UNCHANGED <<files, jobs, retired>>
  /\ UNCHANGED <<tail, refs, store, leases, order, counter, lock, pc, unit, ok, found>>

\* The deletions of what was just claimed come after the lock is released.
Unlock(p) ==
  /\ pc[p] = "claiming"
  /\ todo[p] = {}
  /\ lock' = NoProc
  /\ Goto(p, "deleting")
  /\ UNCHANGED <<unitVars, counter, unit, ok, passVars, retired, faults>>

NextJob(p, r) ==
  /\ pc[p] = "deleting"
  /\ r \in jobs[p]
  /\ jobs' = [jobs EXCEPT ![p] = @ \ {r}]
  /\ unit' = [unit EXCEPT ![p] = r]
  /\ Goto(p, "delete")
  /\ UNCHANGED <<unitVars, counter, lock, ok, todo, found, retired, faults>>

\* One path goes. An error abandons the deletion and leaves the tombstone.
Resumed(p) == IF pc[p] = "resumeDelete" THEN "resuming" ELSE "deleting"
EndDeletion(p) == Goto(p, Resumed(p)) /\ unit' = [unit EXCEPT ![p] = NoRun]
DeletePath(p) ==
  /\ pc[p] \in {"resumeDelete", "delete"}
  /\ LET r == unit[p]
     IN \/ \E suffix \in files[r] :
             /\ IsNext(r, suffix)
             /\ NoFault
             /\ Remove(r, {suffix})
             /\ IF files[r] = {suffix} THEN EndDeletion(p) ELSE UNCHANGED <<pc, unit>>
        \/ /\ (files[r] = {} /\ NoFault) \/ Fault
           /\ EndDeletion(p)
           /\ UNCHANGED files
  /\ UNCHANGED <<tail, refs, store, leases, order, counter, lock, ok, passVars, retired>>

EndPass(p) ==
  /\ pc[p] = "deleting"
  /\ jobs[p] = {}
  /\ Leave(p)
  /\ UNCHANGED <<unitVars, counter, lock, passVars, retired, faults>>

-----------------------------------------------------------------------------
(* What the environment does. *)

\* A process dies. The system drops its lock; its files stay as they are.
Crash(p) ==
  /\ pc[p] # "idle"
  /\ Fault
  /\ lock' = IF lock = p THEN NoProc ELSE lock
  /\ leases' = IF pc[p] = "reading"
               THEN [leases EXCEPT ![unit[p]] = (@ \ {p}) \cup {Dead}] ELSE leases
  /\ Leave(p)
  /\ todo' = [todo EXCEPT ![p] = {}]
  /\ found' = [found EXCEPT ![p] = {}]
  /\ jobs' = [jobs EXCEPT ![p] = {}]
  /\ UNCHANGED <<files, tail, refs, store, order, counter, retired>>

\* .history-order.json is removed or unreadable.
LoseCounter ==
  /\ counter # 0
  /\ Fault
  /\ counter' = 0
  /\ UNCHANGED <<unitVars, lock, pc, unit, ok, passVars, retired>>

Runs(p) ==
  \/ CreateLog(p) \/ AllocateOrder(p) \/ WriteMarker(p) \/ BeginFails(p)
  \/ PersistBlob(p) \/ AppendReference(p) \/ TearLine(p) \/ Execute(p) \/ SetupFails(p)
  \/ CloseStream(p) \/ ReportFails(p)

Finalizes(p) == Publish(p) \/ ReleaseActive(p) \/ Abandon(p)

Retains(p) ==
  \/ StartPass(p) \/ StartListing(p) \/ ChooseExcess(p) \/ Unlock(p)
  \/ DeletePath(p) \/ EndPass(p)
  \/ \E r \in Run : ResumeClaim(p, r) \/ ListUnit(p, r) \/ ClaimUnit(p, r) \/ NextJob(p, r)

Next ==
  \/ \E p \in Proc :
       \/ Runs(p) \/ Finalizes(p) \/ Retains(p)
       \/ \E r \in Run : OpenReader(p, r)
       \/ CloseReader(p) \/ LockFails(p) \/ Crash(p)
  \/ LoseCounter

\* A pass that has begun goes on, and one that is asked for begins when the
\* lock is free; nobody has to start a run or to read one.
Fairness == \A p \in Proc : WF_vars(Retains(p))

Spec == Init /\ [][Next]_vars /\ Fairness

-----------------------------------------------------------------------------
(* Properties. *)

\* Who reads a unit reads all of it: while a live process holds a lease, nobody
\* has claimed the unit, every blob that the log refers to can be resolved, and
\* the log is there, unless its run never began.
Resolves(r) == refs[r] => Has(r, "blobs") /\ store[r] = "whole"
LeasedIsWhole ==
  \A p \in Proc : pc[p] = "reading" =>
    LET r == unit[p] IN /\ ~Has(r, "deleting")
                        /\ Resolves(r)
                        /\ files[r] # {} => Has(r, "log")

\* A deletion that was interrupted, by an error or by a crash, never leaves
\* half a unit that looks like a whole one: without a tombstone a log has its
\* blobs, and a unit without its log has nothing that a listing could show.
WholeOrClaimed ==
  \A r \in Run : ~Has(r, "deleting") =>
    IF Has(r, "log") THEN Resolves(r) ELSE files[r] \cap {"blobs", "complete"} = {}

\* k began after r, or has the same order and a later stamp.
Later(k, r) == order[k] > order[r] \/ (order[k] = order[r] /\ Stamp[k] > Stamp[r])

\* Only what is older than History completed units that stay was ever
\* claimed, whatever several passes, deletions and runs do at once.
NewestAreKept ==
  \A r \in retired :
    History <= Cardinality({k \in Run \ retired :
                   /\ IsFinished(k) /\ Has(k, "complete") /\ ~Has(k, "deleting")
                   /\ Later(k, r)})

\* A unit whose run is under way, its report and finalization included, is
\* changed by the process that drives it and by no other.
Drives(p) == pc[p] \in {"created", "ordered", "running", "stopped", "closed", "published",
                        "abandoning"}
DrivenIsUntouched ==
  [][\A p \in Proc : Drives(p) /\ pc'[p] = pc[p] /\ Drives(p)' =>
       LET r == unit[p] IN
         \/ files'[r] = files[r]
         \/ pc[p] = "running" /\ files'[r] = files[r] \cup {"blobs"}]_vars

\* A run that begins sorts after every unit whose markers are there, also
\* when the counter file was lost in between.
NewRunSortsLast ==
  [][\A p \in Proc : pc[p] = "created" /\ pc'[p] = "ordered" =>
       \A r \in Marked : order[r] < order'[unit[p]]]_vars

\* As long as passes are asked for again and again, every claim ends: what a
\* crash or an error left half deleted is deleted by a later pass.
ClaimsEnd ==
  []<>(\E p \in Proc : pc[p] = "retain") =>
    \A r \in Run : (Has(r, "deleting") ~> ~Has(r, "deleting"))
=============================================================================
