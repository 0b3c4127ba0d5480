---------------------------- MODULE RunHistoryProofs ----------------------------
(***************************************************************************)
(* For any number of processes, runs and faults, and whatever History is:  *)
(* nobody touches a unit while its run is under way, an interrupted        *)
(* deletion leaves nothing that looks whole, who reads a unit reads all of *)
(* it, a new run sorts last, and the newest completed units are kept.      *)
(*                                                                         *)
(* The argument is about what retention has judged: a unit that was found  *)
(* finished, unmarked and unread under the lock can be marked or read by   *)
(* nobody any more, whether it has been claimed yet or not. On top of it:  *)
(* what a pass claims, or is about to, has History kept units above it.    *)
(***************************************************************************)
EXTENDS RunHistory, FiniteSetTheorems, WellFoundedInduction, TLAPS

\* The types of what the argument looks at; the ranks in found are not.
TypeInv ==
  /\ files \in [Run -> SUBSET Suffix]
  /\ tail \in [Run -> {"prefix", "torn", "finished"}]
  /\ refs \in [Run -> BOOLEAN]
  /\ store \in [Run -> {"torn", "whole"}]
  /\ leases \in [Run -> SUBSET (Proc \cup {Dead})]
  /\ pc \in [Proc -> Stages]
  /\ unit \in [Proc -> Run \cup {NoRun}]
  /\ todo \in [Proc -> SUBSET Run]
  /\ found = [p \in Proc |-> found[p]]
  /\ \A p \in Proc : \A f \in found[p] : f[1] \in Run
  /\ jobs \in [Proc -> SUBSET Run]

\* Finished, without a marker and unread.
Judged(r) == tail[r] = "finished" /\ files[r] \cap {"active", "incomplete"} = {} /\ leases[r] = {}

Opens(p) == pc[p] \in {"created", "ordered"}
Uses(p) == Drives(p) \/ pc[p] \in {"reading", "delete", "resumeDelete"}

\* A driven unit is whole, not judged, and driven by one process.
DrivenInv(p) ==
  Drives(p) =>
    LET r == unit[p] IN
      /\ "log" \in files[r] /\ "deleting" \notin files[r]
      /\ IF Opens(p) THEN tail[r] = "prefix" /\ files[r] = {"log"} ELSE "active" \in files[r]
      /\ pc[p] = "running" => tail[r] # "finished"
      /\ \A q \in Proc : Drives(q) /\ unit[q] = r => q = p

\* Without its log a unit is gone but for its tombstone; what is not claimed is whole.
UnitInv(r) ==
  /\ "log" \notin files[r] => files[r] \subseteq {"deleting"}
  /\ "deleting" \in files[r] => Judged(r)
  /\ "log" \in files[r] /\ "deleting" \notin files[r] => Resolves(r)

\* A pass holds the lock from its first look at the directory to its last claim,
\* and what it has judged stays judged; a deletion finds its tombstone or nothing.
PassInv(p) ==
  /\ pc[p] \in {"resuming", "resumeDelete", "listing", "claiming"} => lock = p
  /\ pc[p] # "listing" => found[p] = {}
  /\ \A f \in found[p] : Judged(f[1])
  /\ pc[p] = "claiming" => \A r \in todo[p] : Judged(r)
  /\ \A r \in jobs[p] : Judged(r) /\ ("deleting" \in files[r] \/ files[r] = {})
  /\ pc[p] \in {"delete", "resumeDelete"} =>
       Judged(unit[p]) /\ ("deleting" \in files[unit[p]] \/ files[unit[p]] = {})

ReaderInv(p) ==
  pc[p] = "reading" =>
    LET r == unit[p] IN
      /\ p \in leases[r]
      /\ "deleting" \notin files[r]
      /\ Resolves(r)

IInv ==
  /\ TypeInv
  /\ \A p \in Proc : /\ Uses(p) => unit[p] \in Run
                     /\ DrivenInv(p) /\ PassInv(p) /\ ReaderInv(p)
  /\ \A r \in Run : UnitInv(r)

-----------------------------------------------------------------------------
(* Types. *)

Moved(p) == pc' \in [Proc -> Stages] /\ unit' \in [Proc -> Run \cup {NoRun}]

LEMMA GotoType == ASSUME TypeInv, NEW p \in Proc, NEW s \in Stages, Goto(p, s)
                  PROVE  pc' \in [Proc -> Stages]
BY DEF TypeInv, Goto

LEMMA LeaveType == ASSUME TypeInv, NEW p \in Proc, Leave(p) PROVE Moved(p)
BY DEF TypeInv, Leave, Goto, Moved, Stages

LEMMA FilesType ==
  ASSUME TypeInv, NEW r \in Run, NEW suffixes \in SUBSET Suffix,
         files' = [files EXCEPT ![r] = suffixes]
  PROVE  files' \in [Run -> SUBSET Suffix]
BY DEF TypeInv

LEMMA AddType ==
  ASSUME TypeInv, NEW r \in Run, NEW suffix \in Suffix, Add(r, suffix)
  PROVE  files' \in [Run -> SUBSET Suffix]
BY DEF TypeInv, Add

LEMMA RemoveType ==
  ASSUME TypeInv, NEW r \in Run, NEW suffixes, Remove(r, suffixes)
  PROVE  files' \in [Run -> SUBSET Suffix]
BY DEF TypeInv, Remove

LEMMA RunsType ==
  ASSUME TypeInv, NEW p \in Proc, Uses(p) => unit[p] \in Run, Runs(p)
  PROVE  TypeInv'
<1> USE DEF TypeInv
<1>1. CASE CreateLog(p)
  <2>1. (CHOOSE r \in Unused : TRUE) \in Run
    BY <1>1 DEF CreateLog, Unused
  <2> QED
    BY <1>1, <2>1, GotoType, AddType DEF CreateLog, passVars, Suffix, Stages
<1>2. CASE AllocateOrder(p)
  BY <1>2, GotoType DEF AllocateOrder, passVars, Stages
<1>3. CASE WriteMarker(p)
  BY <1>3, GotoType, AddType DEF WriteMarker, passVars, Suffix, Stages, Uses, Drives
<1>4. CASE BeginFails(p)
  <2>1. files' \in [Run -> SUBSET Suffix]
    BY <1>4, RemoveType DEF BeginFails, Uses, Drives
  <2> QED
    BY <1>4, <2>1, LeaveType DEF BeginFails, passVars, Moved
<1>5. CASE PersistBlob(p)
  <2>1. files' \in [Run -> SUBSET Suffix]
    BY <1>5, AddType DEF PersistBlob, Uses, Drives, Suffix
  <2> QED
    BY <1>5, <2>1 DEF PersistBlob, passVars
<1>6. CASE AppendReference(p)
  BY <1>6 DEF AppendReference, passVars
<1>7. CASE TearLine(p)
  BY <1>7 DEF TearLine, passVars
<1>8. CASE Execute(p)
  BY <1>8, GotoType DEF Execute, passVars, Stages
<1>9. CASE SetupFails(p)
  BY <1>9, GotoType DEF SetupFails, passVars, unitVars, Stages
<1>10. CASE CloseStream(p)
  BY <1>10, GotoType DEF CloseStream, passVars, unitVars, Stages
<1>11. CASE ReportFails(p)
  BY <1>11 DEF ReportFails, passVars, unitVars
<1> QED
  BY <1>1, <1>2, <1>3, <1>4, <1>5, <1>6, <1>7, <1>8, <1>9, <1>10, <1>11 DEF Runs

LEMMA FinalizesType ==
  ASSUME TypeInv, NEW p \in Proc, Uses(p) => unit[p] \in Run, Finalizes(p)
  PROVE  TypeInv'
<1> USE DEF TypeInv
<1>1. CASE Publish(p)
  <2>1. files' \in [Run -> SUBSET Suffix] /\ pc' \in [Proc -> Stages]
    BY <1>1, GotoType, AddType DEF Publish, Suffix, Stages, Uses, Drives
  <2> QED
    BY <1>1, <2>1 DEF Publish, passVars
<1>2. CASE ReleaseActive(p)
  <2>1. files' \in [Run -> SUBSET Suffix] /\ pc' \in [Proc -> Stages]
    BY <1>2, GotoType, RemoveType DEF ReleaseActive, Stages, Uses, Drives
  <2> QED
    BY <1>2, <2>1 DEF ReleaseActive, passVars
<1>3. CASE Abandon(p)
  <2>1. files' \in [Run -> SUBSET Suffix]
    BY <1>3 DEF Abandon, Suffix, Uses, Drives
  <2> QED
    BY <1>3, <2>1, LeaveType DEF Abandon, passVars, Moved
<1> QED
  BY <1>1, <1>2, <1>3 DEF Finalizes

LEMMA ExcessIsListed ==
  ASSUME NEW listed PROVE \A f \in Excess(listed) : f \in listed
BY DEF Excess

LEMMA RetainsType ==
  ASSUME TypeInv, NEW p \in Proc, Uses(p) => unit[p] \in Run, Retains(p)
  PROVE  TypeInv'
<1> USE DEF TypeInv
<1>1. CASE StartPass(p)
  BY <1>1, GotoType DEF StartPass, unitVars, Stages
<1>2. CASE StartListing(p)
  BY <1>2, GotoType DEF StartListing, unitVars, Stages
<1>3. CASE ChooseExcess(p)
  <2>1. {f[1] : f \in Excess(found[p])} \subseteq Run
    BY ExcessIsListed
  <2> QED
    BY <1>3, <2>1, GotoType DEF ChooseExcess, unitVars, Stages
<1>4. CASE Unlock(p)
  BY <1>4, GotoType DEF Unlock, unitVars, passVars, Stages
<1>5. CASE DeletePath(p)
  <2>1. unit[p] \in Run
    BY <1>5 DEF DeletePath, Uses
  <2>2. files' \in [Run -> SUBSET Suffix]
    BY <1>5, <2>1, RemoveType DEF DeletePath
  <2>3. Resumed(p) \in Stages
    BY DEF Resumed, Stages
  <2>4. EndDeletion(p) \/ UNCHANGED <<pc, unit>>
    BY <1>5 DEF DeletePath
  <2>5. pc' \in [Proc -> Stages] /\ unit' \in [Proc -> Run \cup {NoRun}]
    BY <2>3, <2>4, GotoType DEF EndDeletion
  <2> QED
    BY <1>5, <2>2, <2>5 DEF DeletePath, passVars
<1>6. CASE EndPass(p)
  BY <1>6, LeaveType DEF EndPass, unitVars, passVars, Moved
<1>7. ASSUME NEW r \in Run, ResumeClaim(p, r) PROVE TypeInv'
  <2>1. files' \in [Run -> SUBSET Suffix] /\ pc' \in [Proc -> Stages]
    BY <1>7, GotoType, RemoveType DEF ResumeClaim, Stages
  <2> QED
    BY <1>7, <2>1 DEF ResumeClaim
<1>8. ASSUME NEW r \in Run, ListUnit(p, r) PROVE TypeInv'
  <2>1. \A q \in Proc : \A f \in found'[q] : f[1] \in Run
    <3>1. \A q \in Proc : \A f \in found'[q] : f \in found[q] \/ f = <<r, Rank(r)>>
      BY <1>8 DEF ListUnit
    <3> QED
      BY <3>1
  <2>2. found' = [q \in Proc |-> found'[q]]
    BY <1>8 DEF ListUnit
  <2> QED
    BY <1>8, <2>1, <2>2 DEF ListUnit, unitVars
<1>9. ASSUME NEW r \in Run, ClaimUnit(p, r) PROVE TypeInv'
  <2>1. files' \in [Run -> SUBSET Suffix]
    BY <1>9, AddType DEF ClaimUnit, Suffix
  <2> QED
    BY <1>9, <2>1 DEF ClaimUnit
<1>10. ASSUME NEW r \in Run, NextJob(p, r) PROVE TypeInv'
  BY <1>10, GotoType DEF NextJob, unitVars, Stages
<1> QED
  BY <1>1, <1>2, <1>3, <1>4, <1>5, <1>6, <1>7, <1>8, <1>9, <1>10 DEF Retains

LEMMA OtherType ==
  ASSUME TypeInv, NEW p \in Proc, Uses(p) => unit[p] \in Run,
         (\E r \in Run : OpenReader(p, r)) \/ CloseReader(p) \/ LockFails(p) \/ Crash(p)
  PROVE  TypeInv'
<1> USE DEF TypeInv
<1>1. ASSUME NEW r \in Run, OpenReader(p, r) PROVE TypeInv'
  BY <1>1, GotoType DEF OpenReader, passVars, Stages
<1>2. CASE CloseReader(p)
  <2>1. unit[p] \in Run
    BY <1>2 DEF CloseReader, Uses
  <2>2. pc' \in [Proc -> Stages] /\ leases' \in [Run -> SUBSET (Proc \cup {Dead})]
    BY <1>2, <2>1, GotoType DEF CloseReader, Stages
  <2> QED
    BY <1>2, <2>2 DEF CloseReader, passVars
<1>3. CASE LockFails(p)
  BY <1>3, GotoType DEF LockFails, unitVars, passVars, Stages
<1>4. CASE Crash(p)
  <2>1. leases' \in [Run -> SUBSET (Proc \cup {Dead})]
    BY <1>4 DEF Crash, Uses
  <2>2. found' = [q \in Proc |-> found'[q]] /\ \A q \in Proc : \A f \in found'[q] : f[1] \in Run
    BY <1>4 DEF Crash
  <2> QED
    BY <1>4, <2>1, <2>2, LeaveType DEF Crash, Moved
<1> QED
  BY <1>1, <1>2, <1>3, <1>4

-----------------------------------------------------------------------------
(* What a step by p leaves alone. *)

Claimed(r) == "deleting" \in files[r] \/ files[r] = {}

Others(p) ==
  \A q \in Proc \ {p} :
    /\ pc'[q] = pc[q] /\ unit'[q] = unit[q]
    /\ todo'[q] = todo[q] /\ found'[q] = found[q] /\ jobs'[q] = jobs[q]
    /\ lock = q => lock' = q

\* A judgement stands under the lock, and after the unit has been claimed.
Fate ==
  \A r \in Run :
    /\ Judged(r) /\ (lock # NoProc \/ Claimed(r)) => Judged(r)'
    /\ Judged(r) /\ Claimed(r) => Claimed(r)'

Undriven(p) ==
  \A q \in Proc \ {p} : Drives(q) =>
    /\ files'[unit[q]] = files[unit[q]] /\ tail'[unit[q]] = tail[unit[q]]
    /\ ~(Drives(p)' /\ unit'[p] = unit[q])

Readable(p) ==
  \A q \in Proc \ {p} : pc[q] = "reading" =>
    /\ q \in leases'[unit[q]] /\ "deleting" \notin files'[unit[q]]
    /\ Resolves(unit[q])'

Own(p) ==
  /\ Uses(p)' => unit'[p] \in Run
  /\ DrivenInv(p)' /\ PassInv(p)' /\ ReaderInv(p)'

LEMMA OthersPass ==
  ASSUME IInv, NEW p \in Proc, NEW q \in Proc \ {p}, Others(p), Fate
  PROVE  PassInv(q)'
<1>1. /\ pc'[q] = pc[q] /\ unit'[q] = unit[q]
      /\ todo'[q] = todo[q] /\ found'[q] = found[q] /\ jobs'[q] = jobs[q]
      /\ lock = q => lock' = q
  BY DEF Others
<1>2. PassInv(q) /\ (Uses(q) => unit[q] \in Run) /\ q # NoProc
  BY NamesAssumption DEF IInv
<1>3. found[q] # {} \/ pc[q] = "claiming" => lock # NoProc
  BY <1>2 DEF PassInv
<1>4. /\ \A f \in found[q] : f[1] \in Run
      /\ jobs[q] \subseteq Run /\ todo[q] \subseteq Run
  BY DEF IInv, TypeInv
<1>5. \A f \in found[q] : Judged(f[1])'
  BY <1>2, <1>3, <1>4 DEF PassInv, Fate
<1>6. pc[q] = "claiming" => \A r \in todo[q] : Judged(r)'
  BY <1>2, <1>3, <1>4 DEF PassInv, Fate
<1>7. \A r \in jobs[q] : Judged(r)' /\ Claimed(r)'
  BY <1>2, <1>4 DEF PassInv, Fate, Claimed
<1>8. pc[q] \in {"delete", "resumeDelete"} => Judged(unit[q])' /\ Claimed(unit[q])'
  BY <1>1, <1>2 DEF PassInv, Fate, Claimed, Uses, Judged
<1>9. /\ pc'[q] \in {"resuming", "resumeDelete", "listing", "claiming"} => lock' = q
      /\ pc'[q] # "listing" => found'[q] = {}
  BY <1>1, <1>2 DEF PassInv
<1>10. \A r \in jobs'[q] : Judged(r)' /\ ("deleting" \in files'[r] \/ files'[r] = {})
  BY <1>1, <1>7 DEF Claimed
<1>11. pc'[q] \in {"delete", "resumeDelete"} =>
         Judged(unit[q])' /\ ("deleting" \in files'[unit'[q]] \/ files'[unit'[q]] = {})
  BY <1>1, <1>8 DEF Claimed
<1> QED
  BY <1>1, <1>5, <1>6, <1>9, <1>10, <1>11 DEF PassInv, Judged

LEMMA StepKeeps ==
  ASSUME IInv, TypeInv', NEW p \in Proc, Others(p), Fate, Undriven(p), Readable(p), Own(p),
         \A r \in Run : UnitInv(r)'
  PROVE  IInv' /\ Fate
<1>1. ASSUME NEW q \in Proc, q # p
      PROVE  (Uses(q)' => unit'[q] \in Run) /\ DrivenInv(q)' /\ PassInv(q)' /\ ReaderInv(q)'
  <2>1. pc'[q] = pc[q] /\ unit'[q] = unit[q]
    BY <1>1 DEF Others
  <2>2. (Uses(q) => unit[q] \in Run) /\ DrivenInv(q) /\ ReaderInv(q)
    BY DEF IInv
  <2>3. PassInv(q)'
    BY <1>1, OthersPass
  <2>4. Uses(q)' => unit'[q] \in Run
    BY <2>1, <2>2 DEF Uses, Drives
  <2>5. DrivenInv(q)'
    <3>1. CASE ~Drives(q)
      BY <2>1, <3>1 DEF DrivenInv, Drives
    <3>2. CASE Drives(q)
      <4>1. /\ files'[unit[q]] = files[unit[q]] /\ tail'[unit[q]] = tail[unit[q]]
            /\ ~(Drives(p)' /\ unit'[p] = unit[q])
        BY <1>1, <3>2 DEF Undriven
      <4>2. \A o \in Proc : Drives(o)' /\ unit'[o] = unit[q] => Drives(o) /\ unit[o] = unit[q]
        BY <4>1 DEF Others, Drives
      <4> QED
        BY <2>1, <2>2, <3>2, <4>1, <4>2 DEF DrivenInv, Opens, Drives
    <3> QED
      BY <3>1, <3>2
  <2>6. ReaderInv(q)'
    BY <1>1, <2>1, <2>2 DEF ReaderInv, Readable, Resolves, Has
  <2> QED
    BY <2>3, <2>4, <2>5, <2>6
<1> QED
  BY <1>1 DEF IInv, Own

-----------------------------------------------------------------------------
(* Steps of a process that drives its run: they concern its unit alone, which *)
(* is not judged. F is what the step leaves of the unit's files.              *)

GoesOn(p, F) ==
  /\ Drives(p)' /\ unit'[p] = unit[p] /\ "log" \in F
  /\ IF Opens(p)' THEN tail'[unit[p]] = "prefix" /\ F = {"log"} ELSE "active" \in F
  /\ pc'[p] = "running" => tail'[unit[p]] # "finished"

DriveStep(p, F) ==
  /\ Drives(p)
  /\ files' = [files EXCEPT ![unit[p]] = F]
  /\ "deleting" \notin F /\ ("log" \in F \/ F = {})
  /\ refs'[unit[p]] => "blobs" \in F /\ store'[unit[p]] = "whole"
  /\ \A r \in Run \ {unit[p]} :
       tail'[r] = tail[r] /\ refs'[r] = refs[r] /\ store'[r] = store[r]
  /\ UNCHANGED <<leases, lock, passVars>>
  /\ \A q \in Proc \ {p} : pc'[q] = pc[q] /\ unit'[q] = unit[q]
  /\ pc'[p] \in {"idle", "retain"} \/ GoesOn(p, F)

LEMMA DriveKeeps ==
  ASSUME IInv, TypeInv', NEW p \in Proc, NEW F, DriveStep(p, F)
  PROVE  IInv' /\ Fate
<1> DEFINE u == unit[p]
<1>1. /\ u \in Run /\ Drives(p) /\ DrivenInv(p) /\ PassInv(p)
      /\ files \in [Run -> SUBSET Suffix]
  BY DEF DriveStep, IInv, Uses, TypeInv
<1>2. /\ files'[u] = F /\ \A r \in Run : r # u => files'[r] = files[r]
      /\ ~Judged(u) /\ "deleting" \notin files[u]
  <2>1. ~Judged(u) /\ "deleting" \notin files[u]
    BY <1>1 DEF DrivenInv, Judged, Opens
  <2> QED
    BY <1>1, <2>1 DEF DriveStep
<1>3. \A r \in Run \ {u} : tail'[r] = tail[r] /\ refs'[r] = refs[r] /\ store'[r] = store[r]
  BY DEF DriveStep
<1>4. UNCHANGED <<leases, lock, todo, found, jobs>>
  BY DEF DriveStep, passVars
<1>5. Others(p)
  BY <1>4 DEF Others, DriveStep
<1>6. Fate
  BY <1>2, <1>3, <1>4 DEF Fate, Judged, Claimed
<1>7. \A q \in Proc \ {p} : Drives(q) => unit[q] # u /\ unit[q] \in Run
  BY <1>1 DEF IInv, DrivenInv, Uses
<1>8. Drives(p)' => unit'[p] = u
  BY DEF DriveStep, GoesOn, Drives
<1>9. Undriven(p)
  BY <1>2, <1>3, <1>7, <1>8 DEF Undriven
<1>10. \A r \in Run : Resolves(r) /\ r # u => Resolves(r)'
  BY <1>2, <1>3 DEF Resolves, Has
<1>11. ASSUME NEW q \in Proc \ {p}, pc[q] = "reading"
       PROVE  /\ q \in leases'[unit[q]] /\ "deleting" \notin files'[unit[q]]
              /\ Resolves(unit[q])'
  <2>1. ReaderInv(q) /\ unit[q] \in Run /\ unit'[q] = unit[q]
    BY <1>11 DEF IInv, Uses, DriveStep
  <2>2. CASE unit[q] = u
    BY <1>2, <1>4, <1>11, <2>1, <2>2 DEF ReaderInv, DriveStep, Resolves, Has
  <2>3. CASE unit[q] # u
    BY <1>2, <1>3, <1>4, <1>11, <2>1, <2>3 DEF ReaderInv, Resolves, Has
  <2> QED
    BY <2>2, <2>3
<1>12. Readable(p)
  BY <1>11 DEF Readable
<1>13. ASSUME NEW r \in Run PROVE UnitInv(r)'
  <2>1. CASE r = u
    BY <1>2, <2>1 DEF DriveStep, UnitInv, Resolves, Has
  <2>2. CASE r # u
    BY <1>2, <1>3, <1>4, <2>2 DEF IInv, UnitInv, Resolves, Has, Judged
  <2> QED
    BY <2>1, <2>2
<1>14. Own(p)
  <2>1. CASE pc'[p] \in {"idle", "retain"}
    <3>1. found'[p] = {} /\ jobs'[p] = jobs[p] /\ jobs[p] \subseteq Run
      BY <1>1, <1>4 DEF PassInv, Drives, IInv, TypeInv
    <3>2. \A r \in jobs'[p] : Judged(r)' /\ Claimed(r)'
      BY <1>1, <1>6, <3>1 DEF PassInv, Fate, Claimed
    <3>3. PassInv(p)'
      BY <2>1, <3>1, <3>2 DEF PassInv, Claimed, Judged
    <3> QED
      BY <2>1, <3>3 DEF Own, Uses, Drives, DrivenInv, ReaderInv
  <2>2. CASE GoesOn(p, F)
    <3>1. found'[p] = {} /\ jobs'[p] = jobs[p] /\ jobs[p] \subseteq Run
      BY <1>1, <1>4 DEF PassInv, Drives, IInv, TypeInv
    <3>2. \A r \in jobs'[p] : Judged(r)' /\ Claimed(r)'
      BY <1>1, <1>6, <3>1 DEF PassInv, Fate, Claimed
    <3>3. PassInv(p)'
      BY <2>2, <3>1, <3>2 DEF PassInv, Claimed, Judged, GoesOn, Drives
    <3>4. \A q \in Proc : Drives(q)' /\ unit'[q] = u => q = p
      BY <1>7 DEF DriveStep, Drives
    <3>5. DrivenInv(p)'
      BY <1>2, <2>2, <3>4 DEF DrivenInv, GoesOn, DriveStep
    <3> QED
      BY <1>1, <2>2, <3>3, <3>5 DEF Own, GoesOn, ReaderInv, Drives
  <2> QED
    BY <2>1, <2>2 DEF DriveStep
<1> QED
  BY <1>5, <1>6, <1>9, <1>12, <1>13, <1>14, StepKeeps

LEMMA RunsKeep ==
  ASSUME IInv, TypeInv', NEW p \in Proc, Drives(p), Runs(p)
  PROVE  IInv' /\ Fate
<1> DEFINE u == unit[p]
           F == files[u]
<1>1. /\ u \in Run /\ DrivenInv(p) /\ UnitInv(u) /\ Resolves(u)
      /\ "log" \in F /\ "deleting" \notin F /\ F \subseteq Suffix
  BY DEF IInv, Uses, DrivenInv, UnitInv, TypeInv
<1>2. /\ files \in [Run -> SUBSET Suffix] /\ pc \in [Proc -> Stages]
      /\ unit \in [Proc -> Run \cup {NoRun}] /\ refs \in [Run -> BOOLEAN]
      /\ tail \in [Run -> {"prefix", "torn", "finished"}]
      /\ store \in [Run -> {"torn", "whole"}]
  BY DEF IInv, TypeInv
<1>3. files = [files EXCEPT ![u] = F]
  BY <1>1, <1>2
<1>4. CASE AllocateOrder(p)
  <2>1. DriveStep(p, F)
    BY <1>1, <1>2, <1>3, <1>4
       DEF AllocateOrder, passVars, DriveStep, GoesOn, Goto, Drives, Opens, DrivenInv,
           Resolves, Has
  <2> QED
    BY <2>1, DriveKeeps
<1>5. CASE WriteMarker(p)
  <2>1. DriveStep(p, F \cup {"active"})
    BY <1>1, <1>2, <1>5
       DEF WriteMarker, Add, passVars, DriveStep, GoesOn, Goto, Drives, Opens, DrivenInv,
           Resolves, Has
  <2> QED
    BY <2>1, DriveKeeps
<1>6. CASE BeginFails(p)
  <2>1. F = {"log"} /\ ~refs[u]
    BY <1>1, <1>2, <1>6 DEF BeginFails, DrivenInv, Drives, Opens, Resolves, Has
  <2>2. files' = [files EXCEPT ![u] = {}] \/ files' = [files EXCEPT ![u] = F]
    BY <1>1, <1>2, <1>3, <1>6, <2>1 DEF BeginFails, Remove
  <2>3. DriveStep(p, {}) \/ DriveStep(p, F)
    BY <1>1, <1>2, <1>6, <2>1, <2>2 DEF BeginFails, passVars, DriveStep, Leave, Goto
  <2> QED
    BY <2>3, DriveKeeps
<1>7. CASE PersistBlob(p)
  <2>1. DriveStep(p, F \cup {"blobs"})
    BY <1>1, <1>2, <1>7
       DEF PersistBlob, Add, passVars, DriveStep, GoesOn, Drives, Opens, DrivenInv, Resolves, Has
  <2> QED
    BY <2>1, DriveKeeps
<1>8. CASE AppendReference(p)
  <2>1. DriveStep(p, F)
    BY <1>1, <1>2, <1>3, <1>8
       DEF AppendReference, DescriptorFor, passVars, DriveStep, GoesOn, Drives, Opens,
           DrivenInv, Has
  <2> QED
    BY <2>1, DriveKeeps
<1>9. CASE TearLine(p)
  <2>1. DriveStep(p, F)
    BY <1>1, <1>2, <1>3, <1>9
       DEF TearLine, passVars, DriveStep, GoesOn, Drives, Opens, DrivenInv, Resolves, Has
  <2> QED
    BY <2>1, DriveKeeps
<1>10. CASE Execute(p)
  <2>1. DriveStep(p, F)
    BY <1>1, <1>2, <1>3, <1>10
       DEF Execute, Goto, passVars, DriveStep, GoesOn, Drives, Opens, DrivenInv, Resolves, Has
  <2> QED
    BY <2>1, DriveKeeps
<1>11. CASE SetupFails(p) \/ CloseStream(p) \/ ReportFails(p)
  <2>1. DriveStep(p, F)
    BY <1>1, <1>2, <1>3, <1>11
       DEF SetupFails, CloseStream, ReportFails, Goto, unitVars, passVars, DriveStep, GoesOn,
           Drives, Opens, DrivenInv, Resolves, Has
  <2> QED
    BY <2>1, DriveKeeps
<1> QED
  BY <1>4, <1>5, <1>6, <1>7, <1>8, <1>9, <1>10, <1>11 DEF Runs, CreateLog, Drives

LEMMA FinalizesKeep ==
  ASSUME IInv, TypeInv', NEW p \in Proc, Finalizes(p)
  PROVE  IInv' /\ Fate
<1> DEFINE u == unit[p]
           F == files[u]
<1>1. Drives(p)
  BY DEF Finalizes, Publish, ReleaseActive, Abandon, Drives
<1>2. /\ u \in Run /\ DrivenInv(p) /\ UnitInv(u) /\ Resolves(u)
      /\ "log" \in F /\ "deleting" \notin F /\ F \subseteq Suffix
  BY <1>1 DEF IInv, Uses, DrivenInv, UnitInv, TypeInv
<1>3. /\ files \in [Run -> SUBSET Suffix] /\ pc \in [Proc -> Stages]
      /\ unit \in [Proc -> Run \cup {NoRun}] /\ refs \in [Run -> BOOLEAN]
  BY DEF IInv, TypeInv
<1>4. files = [files EXCEPT ![u] = F]
  BY <1>2, <1>3
<1>5. CASE Publish(p)
  <2>1. DriveStep(p, F \cup {"complete"}) \/ DriveStep(p, F)
    <3>1. CASE Add(u, "complete") /\ Goto(p, "published")
      BY <1>1, <1>2, <1>3, <1>5, <3>1
         DEF Publish, Add, Goto, passVars, DriveStep, GoesOn, Drives, Opens, DrivenInv, Resolves, Has
    <3>2. CASE UNCHANGED files /\ Goto(p, "abandoning")
      BY <1>1, <1>2, <1>3, <1>4, <1>5, <3>2
         DEF Publish, Goto, passVars, DriveStep, GoesOn, Drives, Opens, DrivenInv, Resolves, Has
    <3> QED
      BY <1>5, <3>1, <3>2 DEF Publish
  <2> QED
    BY <2>1, DriveKeeps
<1>6. CASE ReleaseActive(p)
  <2>1. DriveStep(p, F \ {"active", "incomplete"}) \/ DriveStep(p, F)
    <3>1. CASE Remove(u, {"active", "incomplete"}) /\ Goto(p, "retain")
      BY <1>1, <1>2, <1>3, <1>6, <3>1
         DEF ReleaseActive, Remove, Goto, passVars, DriveStep, Resolves, Has
    <3>2. CASE UNCHANGED <<files, unit>> /\ Goto(p, "abandoning")
      BY <1>1, <1>2, <1>3, <1>4, <1>6, <3>2
         DEF ReleaseActive, Goto, passVars, DriveStep, GoesOn, Drives, Opens, DrivenInv, Resolves, Has
    <3> QED
      BY <1>6, <3>1, <3>2 DEF ReleaseActive
  <2> QED
    BY <2>1, DriveKeeps
<1>7. CASE Abandon(p)
  <2> DEFINE G == IF "active" \in F THEN (F \ {"active"}) \cup {"incomplete"} ELSE F
  <2>1. files' = [files EXCEPT ![u] = G] \/ files' = [files EXCEPT ![u] = F]
    BY <1>4, <1>7 DEF Abandon
  <2>2. DriveStep(p, G) \/ DriveStep(p, F)
    BY <1>1, <1>2, <1>3, <1>7, <2>1 DEF Abandon, Leave, Goto, passVars, DriveStep, Resolves, Has
  <2> QED
    BY <2>2, DriveKeeps
<1> QED
  BY <1>5, <1>6, <1>7 DEF Finalizes

-----------------------------------------------------------------------------
(* Steps of a pass that touch no unit. *)

LEMMA LookKeeps ==
  ASSUME IInv, TypeInv', NEW p \in Proc, Others(p), PassInv(p)',
         UNCHANGED <<files, tail, refs, store, leases>>,
         ~Drives(p)', pc'[p] # "reading", Uses(p)' => unit'[p] \in Run
  PROVE  IInv' /\ Fate
<1>1. Fate
  BY DEF Fate, Judged, Claimed
<1>2. Undriven(p)
  BY DEF Undriven
<1>3. Readable(p)
  BY DEF Readable, IInv, ReaderInv, Resolves, Has, Others
<1>4. \A r \in Run : UnitInv(r)'
  BY DEF IInv, UnitInv, Resolves, Has, Judged
<1>5. Own(p)
  BY DEF Own, DrivenInv, ReaderInv
<1> QED
  BY <1>1, <1>2, <1>3, <1>4, <1>5, StepKeeps

\* The claims a process has made stay what they are.
LEMMA JobsStay ==
  ASSUME IInv, NEW p \in Proc, jobs'[p] \subseteq jobs[p],
         UNCHANGED <<files, tail, leases>>
  PROVE  \A r \in jobs'[p] : Judged(r)' /\ ("deleting" \in files'[r] \/ files'[r] = {})
BY DEF IInv, PassInv, Judged

LEMMA PassSteps ==
  ASSUME IInv, TypeInv', NEW p \in Proc,
         \/ StartPass(p) \/ StartListing(p) \/ ChooseExcess(p) \/ Unlock(p) \/ EndPass(p)
         \/ LockFails(p) \/ \E r \in Run : ListUnit(p, r) \/ NextJob(p, r)
  PROVE  IInv' /\ Fate
<1>1. /\ pc \in [Proc -> Stages] /\ todo \in [Proc -> SUBSET Run] /\ jobs \in [Proc -> SUBSET Run]
      /\ found = [q \in Proc |-> found[q]] /\ unit \in [Proc -> Run \cup {NoRun}]
      /\ \A f \in found[p] : f[1] \in Run
      /\ PassInv(p) /\ p # NoProc
  BY NamesAssumption DEF IInv, TypeInv
<1>2. UNCHANGED <<files, tail, refs, store, leases>>
  BY DEF StartPass, StartListing, ChooseExcess, Unlock, EndPass, LockFails, ListUnit, NextJob,
         unitVars
<1>3. \A r \in Run : Judged(r)' <=> Judged(r)
  BY <1>2 DEF Judged
<1>4. CASE StartPass(p)
  <2>1. Others(p) /\ pc'[p] = "resuming" /\ lock' = p
    BY <1>1, <1>4, NamesAssumption DEF StartPass, Others, Goto
  <2>2. found'[p] = {} /\ jobs'[p] = jobs[p]
    BY <1>1, <1>4 DEF StartPass, PassInv
  <2>3. PassInv(p)'
    BY <1>2, <2>1, <2>2, JobsStay DEF PassInv
  <2> QED
    BY <1>2, <2>1, <2>3, LookKeeps DEF Drives, Uses
<1>5. CASE StartListing(p)
  <2>1. Others(p) /\ pc'[p] = "listing" /\ lock' = lock /\ lock = p
    BY <1>1, <1>5 DEF StartListing, Others, Goto, PassInv
  <2>2. found'[p] = {} /\ jobs'[p] = jobs[p]
    BY <1>1, <1>5 DEF StartListing, PassInv
  <2>3. PassInv(p)'
    BY <1>2, <2>1, <2>2, JobsStay DEF PassInv
  <2> QED
    BY <1>2, <2>1, <2>3, LookKeeps DEF Drives, Uses
<1>6. CASE ChooseExcess(p)
  <2>1. Others(p) /\ pc'[p] = "claiming" /\ lock' = lock /\ lock = p
    BY <1>1, <1>6 DEF ChooseExcess, Others, Goto, PassInv
  <2>2. found'[p] = {} /\ jobs'[p] = jobs[p] /\ todo'[p] = {f[1] : f \in Excess(found[p])}
    BY <1>1, <1>6 DEF ChooseExcess
  <2>3. \A r \in todo'[p] : Judged(r)'
    <3>1. \A f \in Excess(found[p]) : Judged(f[1])' /\ f[1] \in Run
      BY <1>1, <1>3, ExcessIsListed DEF PassInv
    <3> QED
      BY <2>2, <3>1 DEF Judged
  <2>4. PassInv(p)'
    BY <1>2, <2>1, <2>2, <2>3, JobsStay DEF PassInv
  <2> QED
    BY <1>2, <2>1, <2>4, LookKeeps DEF Drives, Uses
<1>7. CASE Unlock(p)
  <2>1. Others(p) /\ pc'[p] = "deleting"
    BY <1>1, <1>7 DEF Unlock, Others, Goto, PassInv, passVars
  <2>2. found'[p] = {} /\ jobs'[p] = jobs[p]
    BY <1>1, <1>7 DEF Unlock, PassInv, passVars
  <2>3. PassInv(p)'
    BY <1>2, <2>1, <2>2, JobsStay DEF PassInv
  <2> QED
    BY <1>2, <2>1, <2>3, LookKeeps DEF Drives, Uses
<1>8. CASE EndPass(p) \/ LockFails(p)
  <2>1. Others(p) /\ pc'[p] = "idle"
    BY <1>1, <1>8 DEF EndPass, LockFails, Others, Goto, Leave, passVars
  <2>2. found'[p] = {} /\ jobs'[p] = jobs[p]
    BY <1>1, <1>8 DEF EndPass, LockFails, PassInv, passVars
  <2>3. PassInv(p)'
    BY <1>2, <2>1, <2>2, JobsStay DEF PassInv
  <2> QED
    BY <1>2, <2>1, <2>3, LookKeeps DEF Drives, Uses
<1>9. ASSUME NEW r \in Run, ListUnit(p, r) PROVE IInv' /\ Fate
  <2>1. /\ Others(p) /\ pc'[p] = "listing" /\ lock' = lock /\ lock = p
        /\ jobs'[p] = jobs[p]
    BY <1>1, <1>9 DEF ListUnit, Others, PassInv
  <2>2. IsEligible(r) => Judged(r)
    BY DEF IsEligible, IsProtected, IsFinished, HasReader, Judged, Has
  <2>3. \A f \in found'[p] : f \in found[p] \/ (f[1] = r /\ IsEligible(r))
    BY <1>1, <1>9 DEF ListUnit
  <2>4. \A f \in found'[p] : Judged(f[1])'
    BY <1>1, <1>3, <2>2, <2>3 DEF PassInv, Judged
  <2>5. PassInv(p)'
    BY <1>2, <2>1, <2>4, JobsStay DEF PassInv
  <2> QED
    BY <1>2, <2>1, <2>5, LookKeeps DEF Drives, Uses
<1>10. ASSUME NEW r \in Run, NextJob(p, r) PROVE IInv' /\ Fate
  <2>1. /\ Others(p) /\ pc'[p] = "delete" /\ unit'[p] = r /\ found'[p] = {}
        /\ jobs'[p] \subseteq jobs[p] /\ r \in jobs[p]
    BY <1>1, <1>10 DEF NextJob, Others, Goto, PassInv
  <2>2. Judged(r)' /\ ("deleting" \in files'[r] \/ files'[r] = {})
    BY <1>1, <1>2, <1>3, <2>1 DEF PassInv
  <2>3. PassInv(p)'
    BY <1>2, <2>1, <2>2, JobsStay DEF PassInv, Judged
  <2> QED
    BY <1>2, <2>1, <2>3, LookKeeps DEF Drives, Uses
<1> QED
  BY <1>4, <1>5, <1>6, <1>7, <1>8, <1>9, <1>10

-----------------------------------------------------------------------------
(* Steps of a pass that claim a judged unit or take it away. F is what is left. *)

RetireStep(p, r, F) ==
  /\ Judged(r)
  /\ files' = [files EXCEPT ![r] = F]
  /\ F \subseteq files[r] \cup {"deleting"}
  /\ "deleting" \in F \/ F = {}
  /\ "log" \notin F => F \subseteq {"deleting"}
  /\ UNCHANGED <<tail, refs, store, leases>>

LEMMA RetireKeeps ==
  ASSUME IInv, TypeInv', NEW p \in Proc, NEW r \in Run, NEW F, RetireStep(p, r, F),
         Others(p), Fate => PassInv(p)', ~Drives(p)', pc'[p] # "reading",
         Uses(p)' => unit'[p] \in Run
  PROVE  IInv' /\ Fate
<1>1. /\ files' = [files EXCEPT ![r] = F] /\ files \in [Run -> SUBSET Suffix]
      /\ UNCHANGED <<tail, refs, store, leases>>
  BY DEF RetireStep, IInv, TypeInv
<1>2. files'[r] = F /\ \A x \in Run : x # r => files'[x] = files[x]
  BY <1>1
<1>3. Judged(r)' /\ Claimed(r)'
  BY <1>1, <1>2 DEF RetireStep, Judged, Claimed
<1>4. Fate
  BY <1>1, <1>2, <1>3 DEF Fate, Judged, Claimed
<1>5. \A q \in Proc : Drives(q) => unit[q] # r /\ unit[q] \in Run
  BY DEF IInv, DrivenInv, RetireStep, Judged, Uses, Opens
<1>6. \A q \in Proc : pc[q] = "reading" => unit[q] # r /\ unit[q] \in Run /\ ReaderInv(q)
  BY DEF IInv, ReaderInv, RetireStep, Judged, Uses
<1>7. Undriven(p)
  BY <1>1, <1>2, <1>5 DEF Undriven
<1>8. Readable(p)
  BY <1>1, <1>2, <1>6 DEF Readable, ReaderInv, Resolves, Has, Others
<1>9. ASSUME NEW x \in Run PROVE UnitInv(x)'
  <2>1. CASE x = r
    BY <1>2, <1>3, <2>1 DEF RetireStep, UnitInv
  <2>2. CASE x # r
    BY <1>1, <1>2, <2>2 DEF IInv, UnitInv, Resolves, Has, Judged
  <2> QED
    BY <2>1, <2>2
<1>10. Own(p)
  BY <1>4 DEF Own, DrivenInv, ReaderInv
<1> QED
  BY <1>4, <1>7, <1>8, <1>9, <1>10, StepKeeps

\* No tombstone is void: its unit is finished, unmarked and unread.
LEMMA NoneIsVoid ==
  ASSUME IInv, NEW r \in Run, Has(r, "deleting")
  PROVE  Judged(r) /\ ~IsVoid(r)
BY DEF IInv, UnitInv, Judged, IsVoid, IsProtected, HasReader, IsFinished, Has

LEMMA ResumeClaimKeeps ==
  ASSUME IInv, TypeInv', NEW p \in Proc, NEW r \in Run, ResumeClaim(p, r)
  PROVE  IInv' /\ Fate
<1>1. /\ pc \in [Proc -> Stages] /\ todo \in [Proc -> SUBSET Run] /\ jobs \in [Proc -> SUBSET Run]
      /\ unit \in [Proc -> Run \cup {NoRun}] /\ files \in [Run -> SUBSET Suffix]
      /\ PassInv(p) /\ UnitInv(r)
  BY DEF IInv, TypeInv
<1>2. /\ pc[p] = "resuming" /\ lock' = p /\ lock = p /\ found'[p] = {} /\ jobs' = jobs
      /\ UNCHANGED <<tail, refs, store, leases>>
  BY <1>1 DEF ResumeClaim, PassInv
<1>3. CASE UNCHANGED <<files, pc, unit>>
  <2>1. Others(p)
    BY <1>1, <1>2, <1>3 DEF ResumeClaim, Others
  <2>2. PassInv(p)'
    BY <1>2, <1>3, JobsStay DEF PassInv
  <2> QED
    BY <1>2, <1>3, <2>1, <2>2, LookKeeps DEF Drives, Uses
<1>4. CASE Has(r, "deleting") /\ (IsVoid(r) \/ Vanishes(r)) /\ Remove(r, {"deleting"})
           /\ UNCHANGED <<pc, unit>>
  <2>1. Judged(r) /\ files[r] = {"deleting"}
    BY <1>1, <1>4, NoneIsVoid DEF Vanishes, UnitInv, Has
  <2>2. RetireStep(p, r, {})
    BY <1>1, <1>2, <1>4, <2>1 DEF RetireStep, Remove
  <2>3. Others(p)
    BY <1>1, <1>2, <1>4 DEF ResumeClaim, Others
  <2>4. Fate => PassInv(p)'
    BY <1>1, <1>2, <1>4 DEF Fate, PassInv, Claimed, Judged
  <2> QED
    BY <1>2, <1>4, <2>2, <2>3, <2>4, RetireKeeps DEF Drives, Uses
<1>5. CASE Has(r, "deleting") /\ unit' = [unit EXCEPT ![p] = r] /\ Goto(p, "resumeDelete")
           /\ UNCHANGED files
  <2>1. Others(p) /\ pc'[p] = "resumeDelete" /\ unit'[p] = r
    BY <1>1, <1>2, <1>5 DEF ResumeClaim, Others, Goto
  <2>2. Judged(r)' /\ "deleting" \in files'[r]
    BY <1>2, <1>5, NoneIsVoid DEF Judged, Has
  <2>3. PassInv(p)'
    BY <1>2, <1>5, <2>1, <2>2, JobsStay DEF PassInv, Judged
  <2> QED
    BY <1>2, <1>5, <2>1, <2>3, LookKeeps DEF Drives, Uses
<1> QED
  BY <1>3, <1>4, <1>5 DEF ResumeClaim

LEMMA ClaimUnitKeeps ==
  ASSUME IInv, TypeInv', NEW p \in Proc, NEW r \in Run, ClaimUnit(p, r)
  PROVE  IInv' /\ Fate
<1>1. /\ pc \in [Proc -> Stages] /\ todo \in [Proc -> SUBSET Run] /\ jobs \in [Proc -> SUBSET Run]
      /\ files \in [Run -> SUBSET Suffix] /\ PassInv(p) /\ UnitInv(r)
  BY DEF IInv, TypeInv
<1>2. /\ pc[p] = "claiming" /\ pc' = pc /\ unit' = unit /\ lock' = p /\ lock = p /\ found'[p] = {}
      /\ todo'[p] \subseteq todo[p] /\ Judged(r)
      /\ UNCHANGED <<tail, refs, store, leases>>
  BY <1>1 DEF ClaimUnit, PassInv
<1>3. Others(p)
  BY <1>1, <1>2 DEF ClaimUnit, Others
<1>4. CASE UNCHANGED <<files, jobs>>
  <2>1. \A x \in todo'[p] : Judged(x)'
    BY <1>1, <1>2, <1>4 DEF PassInv, Judged
  <2>2. PassInv(p)'
    BY <1>2, <1>4, <2>1, JobsStay DEF PassInv
  <2> QED
    BY <1>2, <1>3, <1>4, <2>2, LookKeeps DEF Drives, Uses
<1>5. CASE Add(r, "deleting") /\ jobs' = [jobs EXCEPT ![p] = @ \cup {r}]
  <2>1. RetireStep(p, r, files[r] \cup {"deleting"})
    BY <1>1, <1>2, <1>5 DEF RetireStep, Add, UnitInv
  <2>2. ASSUME Fate PROVE PassInv(p)'
    <3>1. \A x \in todo'[p] : Judged(x)'
      BY <1>1, <1>2, <2>2, NamesAssumption DEF PassInv, Fate
    <3>2. Judged(r)' /\ "deleting" \in files'[r]
      BY <1>1, <1>2, <1>5 DEF Judged, Add
    <3>3. \A x \in jobs'[p] : Judged(x)' /\ Claimed(x)'
      <4>1. \A x \in jobs'[p] : x \in jobs[p] \/ x = r
        BY <1>1, <1>5
      <4>2. \A x \in jobs[p] : Judged(x)' /\ Claimed(x)'
        BY <1>1, <2>2 DEF PassInv, Fate, Claimed
      <4> QED
        BY <3>2, <4>1, <4>2 DEF Claimed
    <3> QED
      BY <1>2, <3>1, <3>3 DEF PassInv, Claimed
  <2> QED
    BY <1>2, <1>3, <2>1, <2>2, RetireKeeps DEF Drives, Uses
<1> QED
  BY <1>4, <1>5 DEF ClaimUnit

\* The tombstone is the last path of a unit, and its log the last before it.
LEMMA DeletePathKeeps ==
  ASSUME IInv, TypeInv', NEW p \in Proc, DeletePath(p)
  PROVE  IInv' /\ Fate
<1>0. PICK r \in Run : r = unit[p]
  BY DEF IInv, DeletePath, Uses
<1>1. /\ pc \in [Proc -> Stages] /\ unit \in [Proc -> Run \cup {NoRun}]
      /\ files \in [Run -> SUBSET Suffix] /\ PassInv(p) /\ UnitInv(r)
  BY DEF IInv, TypeInv
<1>2. /\ pc[p] \in {"resumeDelete", "delete"} /\ lock' = lock /\ found' = found /\ jobs' = jobs
      /\ todo' = todo /\ found[p] = {} /\ Judged(r) /\ Claimed(r)
      /\ UNCHANGED <<tail, refs, store, leases>>
  BY <1>0, <1>1 DEF DeletePath, PassInv, passVars, Claimed
<1>3. /\ Others(p) /\ pc'[p] \in {"resumeDelete", "delete", "resuming", "deleting"}
      /\ pc'[p] \in {"resuming", "resumeDelete"} => lock' = p
      /\ pc'[p] \in {"resumeDelete", "delete"} => unit'[p] = r
  <2>1. EndDeletion(p) \/ UNCHANGED <<pc, unit>>
    BY DEF DeletePath
  <2>2. CASE EndDeletion(p)
    BY <1>0, <1>1, <1>2, <2>2 DEF EndDeletion, Resumed, Goto, Others, PassInv
  <2>3. CASE UNCHANGED <<pc, unit>>
    BY <1>0, <1>1, <1>2, <2>3 DEF Others, PassInv
  <2> QED
    BY <2>1, <2>2, <2>3
<1>4. ASSUME Fate PROVE PassInv(p)'
  <2>1. Judged(r)' /\ Claimed(r)'
    BY <1>2, <1>4 DEF Fate
  <2>2. \A x \in jobs'[p] : Judged(x)' /\ Claimed(x)'
    BY <1>1, <1>2, <1>4 DEF IInv, TypeInv, PassInv, Fate, Claimed
  <2> QED
    BY <1>2, <1>3, <2>1, <2>2 DEF PassInv, Claimed, Judged
<1>5. CASE UNCHANGED files
  <2>1. Fate
    BY <1>2, <1>5 DEF Fate, Judged, Claimed
  <2> QED
    BY <1>2, <1>3, <1>4, <1>5, <2>1, LookKeeps DEF Drives, Uses
<1>6. ASSUME NEW suffix \in files[r], IsNext(r, suffix), Remove(r, {suffix})
      PROVE  IInv' /\ Fate
  <2> DEFINE F == files[r] \ {suffix}
  <2>1. "deleting" \in files[r] /\ suffix \in Suffix /\ files[r] \subseteq Suffix
    BY <1>1, <1>2, <1>6 DEF Claimed
  <2>2. suffix = "deleting" => F = {}
    BY <1>6, <2>1 DEF IsNext, Turn, Suffix
  <2>3. suffix = "log" => F \subseteq {"deleting"}
    BY <1>6, <2>1 DEF IsNext, Turn, Suffix
  <2>4. "log" \notin F => F \subseteq {"deleting"}
    BY <1>1, <2>1, <2>3 DEF UnitInv
  <2>5. files' = [files EXCEPT ![r] = F]
    BY <1>6 DEF Remove
  <2>6. RetireStep(p, r, F)
    BY <1>2, <2>1, <2>2, <2>4, <2>5 DEF RetireStep
  <2> QED
    BY <1>3, <1>4, <2>6, RetireKeeps DEF Drives, Uses
<1> QED
  BY <1>0, <1>5, <1>6 DEF DeletePath

-----------------------------------------------------------------------------
(* A run that begins, and readers that come and go. *)

LEMMA CreateLogKeeps ==
  ASSUME IInv, TypeInv', NEW p \in Proc, CreateLog(p)
  PROVE  IInv' /\ Fate
<1> DEFINE r == CHOOSE x \in Unused : TRUE
<1>1. /\ r \in Run /\ files[r] = {} /\ tail[r] = "prefix" /\ ~refs[r]
      /\ \A q \in Proc : unit[q] # r
  BY DEF CreateLog, Unused
<1>2. Add(r, "log") /\ unit' = [unit EXCEPT ![p] = r]
  BY DEF CreateLog
<1> HIDE DEF r
<1>3. /\ pc \in [Proc -> Stages] /\ unit \in [Proc -> Run \cup {NoRun}]
      /\ files \in [Run -> SUBSET Suffix] /\ PassInv(p)
  BY DEF IInv, TypeInv
<1>4. /\ pc[p] = "idle" /\ UNCHANGED <<tail, refs, store, leases, lock, todo, found, jobs>>
      /\ pc' = [pc EXCEPT ![p] = "created"]
  BY DEF CreateLog, passVars, Goto
<1>5. files'[r] = {"log"} /\ \A x \in Run : x # r => files'[x] = files[x]
  BY <1>1, <1>2, <1>3 DEF Add
<1>6. Others(p) /\ pc'[p] = "created" /\ unit'[p] = r
  BY <1>2, <1>3, <1>4 DEF Others
<1>7. Fate
  BY <1>1, <1>4, <1>5 DEF Fate, Judged, Claimed
<1>8. Undriven(p)
  BY <1>1, <1>4, <1>5, <1>6 DEF Undriven, IInv, Uses
<1>9. Readable(p)
  BY <1>1, <1>4, <1>5, <1>6 DEF Readable, IInv, Uses, ReaderInv, Resolves, Has, Others
<1>10. \A x \in Run : UnitInv(x)'
  BY <1>1, <1>4, <1>5 DEF IInv, UnitInv, Resolves, Has, Judged
<1>11. Own(p)
  <2>1. \A x \in jobs'[p] : Judged(x)' /\ Claimed(x)'
    BY <1>3, <1>4, <1>7 DEF IInv, TypeInv, PassInv, Fate, Claimed
  <2>2. PassInv(p)'
    BY <1>3, <1>4, <1>6, <2>1 DEF PassInv, Claimed, Judged
  <2>3. \A q \in Proc : unit'[q] = r => q = p
    BY <1>1, <1>6 DEF Others
  <2>4. DrivenInv(p)'
    BY <1>1, <1>4, <1>5, <1>6, <2>3 DEF DrivenInv, Opens
  <2> QED
    BY <1>1, <1>6, <2>2, <2>4 DEF Own, ReaderInv
<1> QED
  BY <1>7, <1>6, <1>8, <1>9, <1>10, <1>11, StepKeeps

LEMMA OpenReaderKeeps ==
  ASSUME IInv, TypeInv', NEW p \in Proc, NEW r \in Run, OpenReader(p, r)
  PROVE  IInv' /\ Fate
<1>1. /\ pc \in [Proc -> Stages] /\ unit \in [Proc -> Run \cup {NoRun}]
      /\ leases \in [Run -> SUBSET (Proc \cup {Dead})] /\ PassInv(p) /\ UnitInv(r)
  BY DEF IInv, TypeInv
<1>2. /\ pc[p] = "idle" /\ lock = NoProc /\ "log" \in files[r] /\ "deleting" \notin files[r]
      /\ UNCHANGED <<files, tail, refs, store, lock, todo, found, jobs>>
      /\ pc'[p] = "reading" /\ unit'[p] = r
      /\ leases' = [leases EXCEPT ![r] = @ \cup {p}]
  BY <1>1 DEF OpenReader, passVars, Goto, Has
<1>3. Others(p)
  BY <1>1, <1>2 DEF OpenReader, Others, Goto
<1>4. Fate
  BY <1>1, <1>2 DEF Fate, Judged, Claimed
<1>5. Undriven(p)
  BY <1>2 DEF Undriven, Drives
<1>6. Readable(p)
  BY <1>1, <1>2, <1>3 DEF Readable, IInv, ReaderInv, Resolves, Has, Others, Uses
<1>7. \A x \in Run : UnitInv(x)'
  BY <1>1, <1>2 DEF IInv, UnitInv, Resolves, Has, Judged
<1>8. Own(p)
  <2>1. \A x \in jobs'[p] : Judged(x)' /\ Claimed(x)'
    BY <1>1, <1>2, <1>4 DEF IInv, TypeInv, PassInv, Fate, Claimed
  <2>2. PassInv(p)'
    BY <1>1, <1>2, <2>1 DEF PassInv, Claimed, Judged
  <2> QED
    BY <1>1, <1>2, <2>2 DEF Own, DrivenInv, Drives, ReaderInv, UnitInv, Resolves, Has
<1> QED
  BY <1>3, <1>4, <1>5, <1>6, <1>7, <1>8, StepKeeps

\* The lease of a live reader goes, by itself or with its process.
LEMMA ReaderLeaves ==
  ASSUME IInv, TypeInv', NEW p \in Proc, Others(p), pc'[p] \in {"idle", "retain"},
         UNCHANGED <<files, tail, refs, store>>, found'[p] = {}, jobs'[p] \subseteq jobs[p],
         \/ UNCHANGED leases
         \/ /\ pc[p] = "reading"
            /\ \E gone \in {{}, {Dead}} :
                 leases' = [leases EXCEPT ![unit[p]] = (@ \ {p}) \cup gone]
  PROVE  IInv' /\ Fate
<1>1. /\ leases \in [Run -> SUBSET (Proc \cup {Dead})] /\ PassInv(p) /\ ReaderInv(p)
      /\ (pc[p] = "reading" => unit[p] \in Run)
  BY DEF IInv, TypeInv, Uses
<1>2. \A r \in Run : r # unit[p] \/ pc[p] # "reading" => leases'[r] = leases[r]
  BY <1>1
<1>3. pc[p] = "reading" => leases[unit[p]] # {} /\ "deleting" \notin files[unit[p]]
  BY <1>1 DEF ReaderInv
<1>4. Fate
  BY <1>2, <1>3 DEF Fate, Judged, Claimed
<1>5. Undriven(p)
  BY DEF Undriven, Drives
<1>6. \A r \in Run : \A q \in Proc \ {p} : q \in leases[r] => q \in leases'[r]
  BY <1>1, NamesAssumption
<1>7. Readable(p)
  BY <1>6 DEF Readable, IInv, ReaderInv, Resolves, Has, Others, Uses
<1>8. \A x \in Run : UnitInv(x)'
  BY <1>2, <1>3 DEF IInv, UnitInv, Resolves, Has, Judged
<1>9. Own(p)
  <2>1. \A x \in jobs'[p] : Judged(x)' /\ Claimed(x)'
    BY <1>1, <1>4 DEF IInv, TypeInv, PassInv, Fate, Claimed
  <2>2. PassInv(p)'
    BY <1>1, <2>1 DEF PassInv, Claimed, Judged
  <2> QED
    BY <2>2 DEF Own, DrivenInv, Drives, ReaderInv, Uses
<1> QED
  BY <1>4, <1>5, <1>7, <1>8, <1>9, StepKeeps

LEMMA LeavesKeep ==
  ASSUME IInv, TypeInv', NEW p \in Proc, CloseReader(p) \/ Crash(p)
  PROVE  IInv' /\ Fate
<1>1. /\ pc \in [Proc -> Stages] /\ unit \in [Proc -> Run \cup {NoRun}] /\ PassInv(p)
      /\ todo \in [Proc -> SUBSET Run] /\ jobs \in [Proc -> SUBSET Run]
      /\ found = [q \in Proc |-> found[q]]
  BY DEF IInv, TypeInv
<1>2. CASE CloseReader(p)
  <2>1. /\ Others(p) /\ pc'[p] \in {"idle", "retain"} /\ found' = found /\ jobs' = jobs
        /\ UNCHANGED <<files, tail, refs, store>>
    BY <1>1, <1>2 DEF CloseReader, Others, passVars, Goto
  <2>2. /\ pc[p] = "reading"
        /\ \E gone \in {{}, {Dead}} :
             leases' = [leases EXCEPT ![unit[p]] = (@ \ {p}) \cup gone]
    <3>1. \A S : S \cup {} = S
      OBVIOUS
    <3> QED
      BY <1>2, <3>1 DEF CloseReader
  <2>3. found'[p] = {}
    BY <1>1, <2>1, <2>2 DEF PassInv
  <2> QED
    BY <2>1, <2>2, <2>3, ReaderLeaves
<1>3. CASE Crash(p)
  <2>1. /\ Others(p) /\ pc'[p] = "idle" /\ found'[p] = {} /\ jobs'[p] = {}
        /\ UNCHANGED <<files, tail, refs, store>>
    BY <1>1, <1>3 DEF Crash, Others, Leave, Goto
  <2>2. \/ UNCHANGED leases
        \/ /\ pc[p] = "reading"
           /\ \E gone \in {{}, {Dead}} :
                leases' = [leases EXCEPT ![unit[p]] = (@ \ {p}) \cup gone]
    BY <1>3 DEF Crash
  <2> QED
    BY <2>1, <2>2, ReaderLeaves
<1> QED
  BY <1>2, <1>3

-----------------------------------------------------------------------------
(* The invariant. *)

LEMMA InitKeeps == Init => IInv
<1> SUFFICES ASSUME Init PROVE IInv
  OBVIOUS
<1>1. TypeInv
  BY DEF Init, TypeInv, Stages
<1>2. \A p \in Proc : DrivenInv(p) /\ PassInv(p) /\ ReaderInv(p) /\ ~Uses(p)
  BY DEF Init, DrivenInv, PassInv, ReaderInv, Uses, Drives
<1>3. \A r \in Run : UnitInv(r)
  BY DEF Init, UnitInv
<1> QED
  BY <1>1, <1>2, <1>3 DEF IInv

LEMMA NextKeeps == IInv /\ [Next]_vars => IInv' /\ Fate
<1> SUFFICES ASSUME IInv, [Next]_vars PROVE IInv' /\ Fate
  OBVIOUS
<1>1. TypeInv /\ \A p \in Proc : Uses(p) => unit[p] \in Run
  BY DEF IInv
<1>2. ASSUME NEW p \in Proc, Runs(p) PROVE IInv' /\ Fate
  <2>1. TypeInv'
    BY <1>1, <1>2, RunsType
  <2>2. CreateLog(p) \/ Drives(p)
    BY <1>2 DEF Runs, AllocateOrder, WriteMarker, BeginFails, PersistBlob, AppendReference,
                TearLine, Execute, SetupFails, CloseStream, ReportFails, Drives
  <2> QED
    BY <1>2, <2>1, <2>2, CreateLogKeeps, RunsKeep
<1>3. ASSUME NEW p \in Proc, Finalizes(p) PROVE IInv' /\ Fate
  BY <1>1, <1>3, FinalizesType, FinalizesKeep
<1>4. ASSUME NEW p \in Proc, Retains(p) PROVE IInv' /\ Fate
  <2>1. TypeInv'
    BY <1>1, <1>4, RetainsType
  <2> QED
    BY <1>4, <2>1, PassSteps, ResumeClaimKeeps, ClaimUnitKeeps, DeletePathKeeps DEF Retains
<1>5. ASSUME NEW p \in Proc,
             (\E r \in Run : OpenReader(p, r)) \/ CloseReader(p) \/ LockFails(p) \/ Crash(p)
      PROVE  IInv' /\ Fate
  <2>1. TypeInv'
    BY <1>1, <1>5, OtherType
  <2> QED
    BY <1>5, <2>1, OpenReaderKeeps, LeavesKeep, PassSteps
<1>6. CASE UNCHANGED <<unitVars, lock, pc, unit, passVars>>
  <2>1. UNCHANGED <<files, tail, refs, store, leases, lock, pc, unit, todo, found, jobs>>
    BY <1>6 DEF unitVars, passVars
  <2>2. TypeInv'
    BY <1>1, <2>1 DEF TypeInv
  <2>3. \A p \in Proc : /\ Uses(p)' => unit'[p] \in Run
                        /\ DrivenInv(p)' /\ PassInv(p)' /\ ReaderInv(p)'
    BY <2>1 DEF IInv, Uses, DrivenInv, Drives, Opens, PassInv, ReaderInv, Judged, Resolves, Has
  <2>4. \A r \in Run : UnitInv(r)'
    BY <2>1 DEF IInv, UnitInv, Judged, Resolves, Has
  <2>5. Fate
    BY <2>1 DEF Fate, Judged, Claimed
  <2> QED
    BY <2>2, <2>3, <2>4, <2>5 DEF IInv
<1>7. CASE LoseCounter \/ UNCHANGED vars
  <2>1. UNCHANGED <<unitVars, lock, pc, unit, passVars>>
    BY <1>7 DEF LoseCounter, vars
  <2> QED
    BY <1>6, <2>1
<1> QED
  BY <1>2, <1>3, <1>4, <1>5, <1>7 DEF Next

LEMMA Invariance == Spec => []IInv
BY InitKeeps, NextKeeps, PTL DEF Spec

-----------------------------------------------------------------------------
(* The theorems. *)

\* Nobody claims or takes away what a live reader reads, and each of its blob
\* references resolves: the lease of begin_history_reader is enough.
THEOREM LeasedIsWholeAlways == Spec => []LeasedIsWhole
<1>1. IInv => LeasedIsWhole
  <2> SUFFICES ASSUME IInv, NEW p \in Proc, pc[p] = "reading"
               PROVE  LET r == unit[p] IN
                        ~Has(r, "deleting") /\ Resolves(r) /\ (files[r] # {} => Has(r, "log"))
    BY DEF LeasedIsWhole
  <2>1. unit[p] \in Run /\ ReaderInv(p) /\ UnitInv(unit[p])
    BY DEF IInv, Uses
  <2> QED
    BY <2>1 DEF ReaderInv, UnitInv, Has
<1> QED
  BY <1>1, Invariance, PTL

\* Wherever a deletion stops, what it leaves is claimed or whole: the order of
\* _delete_claimed_unit, and who may remove a tombstone, see to it.
THEOREM WholeOrClaimedAlways == Spec => []WholeOrClaimed
<1>1. IInv => WholeOrClaimed
  <2> SUFFICES ASSUME IInv, NEW r \in Run, ~Has(r, "deleting")
               PROVE  IF Has(r, "log") THEN Resolves(r)
                      ELSE files[r] \cap {"blobs", "complete"} = {}
    BY DEF WholeOrClaimed
  <2>1. UnitInv(r)
    BY DEF IInv
  <2> QED
    BY <2>1 DEF UnitInv, Has
<1> QED
  BY <1>1, Invariance, PTL

\* Whose files a step of p changes: its own run's, an undrawn id's, or those of
\* a unit that has been judged.
LEMMA WhoseFiles ==
  ASSUME IInv, NEW p \in Proc,
         \/ Runs(p) \/ Finalizes(p) \/ Retains(p)
         \/ \E r \in Run : OpenReader(p, r)
         \/ CloseReader(p) \/ LockFails(p) \/ Crash(p)
  PROVE  \A r \in Run : \/ files'[r] = files[r]
                        \/ Drives(p) /\ unit[p] = r
                        \/ \A q \in Proc : unit[q] # r
                        \/ Judged(r)
<1> SUFFICES ASSUME NEW r \in Run, files'[r] # files[r]
             PROVE  \/ Drives(p) /\ unit[p] = r
                    \/ \A q \in Proc : unit[q] # r
                    \/ Judged(r)
  OBVIOUS
<1>1. files \in [Run -> SUBSET Suffix]
  BY DEF IInv, TypeInv
<1>2. CASE CreateLog(p)
  <2> DEFINE x == CHOOSE x \in Unused : TRUE
  <2>1. x \in Unused /\ files' = [files EXCEPT ![x] = @ \cup {"log"}]
    BY <1>2 DEF CreateLog, Add
  <2> HIDE DEF x
  <2>2. r = x
    BY <1>1, <2>1
  <2> QED
    BY <2>1, <2>2 DEF Unused
<1>3. CASE Runs(p) /\ ~CreateLog(p)
  BY <1>1, <1>3
     DEF Runs, AllocateOrder, WriteMarker, BeginFails, PersistBlob, AppendReference, TearLine,
         Execute, SetupFails, CloseStream, ReportFails, unitVars, Drives, Add, Remove
<1>4. CASE Finalizes(p)
  BY <1>1, <1>4 DEF Finalizes, Publish, ReleaseActive, Abandon, Drives, Add, Remove
<1>5. ASSUME NEW x \in Run, ResumeClaim(p, x) PROVE Judged(r)
  <2>1. r = x /\ Has(r, "deleting")
    BY <1>1, <1>5 DEF ResumeClaim, Remove
  <2> QED
    BY <2>1, NoneIsVoid
<1>6. ASSUME NEW x \in Run, ClaimUnit(p, x) PROVE Judged(r)
  <2>1. r = x /\ pc[p] = "claiming" /\ r \in todo[p]
    BY <1>1, <1>6 DEF ClaimUnit, Add
  <2> QED
    BY <2>1 DEF IInv, PassInv
<1>7. CASE DeletePath(p)
  <2>1. r = unit[p] /\ pc[p] \in {"delete", "resumeDelete"}
    BY <1>1, <1>7 DEF DeletePath, Remove
  <2> QED
    BY <2>1 DEF IInv, PassInv
<1>8. CASE \/ StartPass(p) \/ StartListing(p) \/ ChooseExcess(p) \/ Unlock(p) \/ EndPass(p)
           \/ LockFails(p) \/ CloseReader(p) \/ Crash(p)
           \/ \E x \in Run : ListUnit(p, x) \/ NextJob(p, x) \/ OpenReader(p, x)
  BY <1>8 DEF StartPass, StartListing, ChooseExcess, Unlock, EndPass, LockFails, CloseReader,
              Crash, ListUnit, NextJob, OpenReader, unitVars
<1> QED
  BY <1>2, <1>3, <1>4, <1>5, <1>6, <1>7, <1>8 DEF Retains

\* A driver that stays where it is has written at most a blob.
LEMMA DriverWrites ==
  ASSUME TypeInv, NEW p \in Proc, unit[p] \in Run, Drives(p), pc'[p] = pc[p],
         \/ Runs(p) \/ Finalizes(p) \/ Retains(p)
         \/ \E r \in Run : OpenReader(p, r)
         \/ CloseReader(p) \/ LockFails(p) \/ Crash(p)
  PROVE  \/ files'[unit[p]] = files[unit[p]]
         \/ pc[p] = "running" /\ files'[unit[p]] = files[unit[p]] \cup {"blobs"}
<1>1. pc \in [Proc -> Stages] /\ files \in [Run -> SUBSET Suffix]
  BY DEF TypeInv
<1>2. Runs(p) \/ Finalizes(p) \/ Crash(p)
  BY DEF Retains, StartPass, StartListing, ChooseExcess, Unlock, EndPass, LockFails, CloseReader,
         ListUnit, NextJob, OpenReader, DeletePath, ResumeClaim, ClaimUnit, Drives
<1>3. CASE PersistBlob(p) \/ AppendReference(p) \/ TearLine(p) \/ ReportFails(p)
  BY <1>1, <1>3 DEF PersistBlob, AppendReference, TearLine, ReportFails, Add, unitVars
<1>4. CASE \/ CreateLog(p) \/ AllocateOrder(p) \/ WriteMarker(p) \/ BeginFails(p) \/ Execute(p)
           \/ SetupFails(p) \/ CloseStream(p) \/ Finalizes(p) \/ Crash(p)
  BY <1>1, <1>4 DEF CreateLog, AllocateOrder, WriteMarker, BeginFails, Execute, SetupFails,
     CloseStream, Finalizes, Publish, ReleaseActive, Abandon, Crash, Goto, Leave
<1> QED
  BY <1>2, <1>3, <1>4 DEF Runs

\* From its log to its .complete or .incomplete, a unit is changed by the
\* process that runs it and by nobody else.
THEOREM DrivenIsUntouchedAlways == Spec => DrivenIsUntouched
<1> DEFINE Untouched ==
      \A p \in Proc : Drives(p) /\ pc'[p] = pc[p] /\ Drives(p)' =>
        LET r == unit[p] IN
          \/ files'[r] = files[r]
          \/ pc[p] = "running" /\ files'[r] = files[r] \cup {"blobs"}
<1>1. IInv /\ [Next]_vars => Untouched
  <2> SUFFICES ASSUME IInv, [Next]_vars, NEW p \in Proc, Drives(p), pc'[p] = pc[p]
               PROVE  \/ files'[unit[p]] = files[unit[p]]
                      \/ pc[p] = "running" /\ files'[unit[p]] = files[unit[p]] \cup {"blobs"}
    OBVIOUS
  <2>1. TypeInv /\ unit[p] \in Run /\ DrivenInv(p)
    BY DEF IInv, Uses
  <2>2. ~Judged(unit[p])
    BY <2>1 DEF DrivenInv, Judged, Opens
  <2>3. CASE LoseCounter \/ UNCHANGED vars
    BY <2>3 DEF LoseCounter, vars, unitVars
  <2>4. ASSUME NEW q \in Proc,
               \/ Runs(q) \/ Finalizes(q) \/ Retains(q)
               \/ \E r \in Run : OpenReader(q, r)
               \/ CloseReader(q) \/ LockFails(q) \/ Crash(q)
        PROVE  \/ files'[unit[p]] = files[unit[p]]
               \/ pc[p] = "running" /\ files'[unit[p]] = files[unit[p]] \cup {"blobs"}
    <3>1. CASE q = p
      BY <2>1, <2>4, <3>1, DriverWrites
    <3>2. CASE q # p
      <4>1. ~(Drives(q) /\ unit[q] = unit[p])
        BY <2>1, <3>2 DEF DrivenInv
      <4> QED
        BY <2>1, <2>2, <2>4, <4>1, WhoseFiles
    <3> QED
      BY <3>1, <3>2
  <2> QED
    BY <2>3, <2>4 DEF Next
<1> QED
  BY <1>1, Invariance, PTL DEF Spec, DrivenIsUntouched

-----------------------------------------------------------------------------
(* What retention keeps. A unit that was ever claimed, or is about to be, has *)
(* History kept ones later than it, by creation order and, for equal orders,  *)
(* by stamp; claiming the lower of two takes nothing from what is above the   *)
(* higher, and what is above the lower and is claimed has enough above itself.*)

Traced == {r \in Run : files[r] # {}}
Kept(k) == k \notin retired /\ IsFinished(k) /\ Has(k, "complete") /\ ~Has(k, "deleting")
Newer(r) == {k \in Run : Kept(k) /\ Later(k, r)}
Spare(r) == History <= Cardinality(Newer(r))

\* A finished unit without a mark has its completion metadata; a tombstone means
\* that somebody has claimed the unit, and a claim is never taken back.
MarkInv(r) ==
  /\ IsFinished(r) /\ files[r] \cap {"active", "incomplete", "deleting"} = {} =>
       Has(r, "complete")
  /\ Has(r, "deleting") => r \in retired
  /\ r \in retired => Judged(r) /\ Claimed(r)

\* What a listing has found is kept still, or has been claimed before.
ListInv(p) ==
  /\ pc[p] = "published" => Has(unit[p], "complete")
  /\ IsFiniteSet(found[p])
  /\ \A f \in found[p] : /\ f[1] \notin todo[p] /\ f[2] \in Nat
                         /\ \A g \in found[p] : f[1] = g[1] => f = g
                         /\ IF f[1] \in retired THEN f[2] <= order[f[1]]
                            ELSE Kept(f[1]) /\ f[2] = order[f[1]]
  /\ pc[p] = "claiming" => \A r \in todo[p] : Spare(r)

SpareInv ==
  /\ order \in [Run -> Nat] /\ retired \subseteq Run /\ IsFiniteSet(Traced)
  /\ \A r \in Run : MarkInv(r)
  /\ \A p \in Proc : ListInv(p)
  /\ \A r \in retired : Spare(r)

LEMMA LaterIsTransitive ==
  ASSUME order \in [Run -> Nat], NEW k \in Run, NEW s \in Run, NEW r \in Run,
         Later(k, s), Later(s, r)
  PROVE  Later(k, r) /\ k # s
BY StampAssumption DEF Later

LEMMA NewerIsFinite ==
  ASSUME IsFiniteSet(Traced), NEW r
  PROVE  IsFiniteSet(Newer(r)) /\ Cardinality(Newer(r)) \in Nat
<1>1. Newer(r) \subseteq Traced
  BY DEF Newer, Kept, Traced, Has
<1> QED
  BY <1>1, FS_Subset, FS_CardinalityType

\* With more kept above it a unit stays spare.
LEMMA SpareGrows ==
  ASSUME NEW S, NEW T, S \subseteq T, IsFiniteSet(T), History <= Cardinality(S)
  PROVE  History <= Cardinality(T)
<1>1. IsFiniteSet(S) /\ Cardinality(S) <= Cardinality(T)
  BY FS_Subset
<1>2. Cardinality(S) \in Nat /\ Cardinality(T) \in Nat
  BY <1>1, FS_CardinalityType
<1> QED
  BY <1>1, <1>2, HistoryAssumption

\* A step claims nothing, takes nothing kept away and gives no order to a unit
\* that is finished.
Calm ==
  /\ retired' = retired
  /\ order' \in [Run -> Nat]
  /\ IsFiniteSet(Traced')
  /\ \A r \in Run : /\ tail[r] = "finished" => order'[r] = order[r]
                    /\ Kept(r) => Kept(r)'

LEMMA CalmSpare ==
  ASSUME SpareInv, Calm, NEW r \in Run, tail[r] = "finished", Spare(r)
  PROVE  Spare(r)'
<1>1. order'[r] = order[r]
  BY DEF Calm
<1>2. \A k \in Newer(r) : k \in Newer(r)'
  <2>1. \A k \in Run : Kept(k) => Kept(k)' /\ order'[k] = order[k]
    BY DEF Calm, Kept, IsFinished
  <2> QED
    BY <1>1, <2>1 DEF Newer, Later
<1>3. IsFiniteSet(Newer(r)')
  <2>1. Newer(r)' \subseteq Traced'
    BY DEF Newer, Kept, Traced, Has
  <2> QED
    BY <2>1, FS_Subset DEF Calm
<1>4. History <= Cardinality(Newer(r)')
  BY <1>2, <1>3, SpareGrows DEF Spare
<1> QED
  BY <1>4 DEF Spare

\* What a calm step by p leaves of the others' listings.
LEMMA CalmOthers ==
  ASSUME IInv, SpareInv, Calm, NEW p \in Proc, NEW q \in Proc, q # p, Others(p),
         pc[q] = "published" => Has(unit[q], "complete")'
  PROVE  ListInv(q)'
<1>1. pc'[q] = pc[q] /\ unit'[q] = unit[q] /\ todo'[q] = todo[q] /\ found'[q] = found[q]
  BY DEF Others
<1>2. ListInv(q) /\ PassInv(q)
  BY DEF SpareInv, IInv
<1>3. \A f \in found[q] : f[1] \in Run /\ Judged(f[1])
  BY <1>2 DEF IInv, TypeInv, PassInv
<1>4. \A f \in found[q] : order'[f[1]] = order[f[1]] /\ (Kept(f[1]) => Kept(f[1])')
  BY <1>3 DEF Calm, Judged
<1>5. \A f \in found[q] : IF f[1] \in retired' THEN f[2] <= order'[f[1]]
                          ELSE Kept(f[1])' /\ f[2] = order'[f[1]]
  BY <1>2, <1>4 DEF ListInv, Calm
<1>6. pc[q] = "claiming" => \A r \in todo[q] : Spare(r)'
  <2>1. pc[q] = "claiming" => \A r \in todo[q] : r \in Run /\ tail[r] = "finished" /\ Spare(r)
    BY <1>2 DEF ListInv, PassInv, Judged, IInv, TypeInv
  <2> QED
    BY <2>1, CalmSpare
<1>7. pc'[q] = "published" => Has(unit[q], "complete")'
  BY <1>1
<1> QED
  BY <1>1, <1>2, <1>5, <1>6, <1>7 DEF ListInv

LEMMA CalmStep ==
  ASSUME IInv, SpareInv, Fate, Calm, NEW p \in Proc, Others(p), ListInv(p)',
         \A q \in Proc \ {p} : pc[q] = "published" => Has(unit[q], "complete")',
         \A r \in Run : Has(r, "deleting")' => Has(r, "deleting"),
         \A r \in Run : IsFinished(r)' /\ files'[r] \cap {"active", "incomplete", "deleting"} = {}
                          => Has(r, "complete")'
  PROVE  SpareInv'
<1>1. \A q \in Proc : ListInv(q)'
  BY CalmOthers
<1>2. \A r \in retired' : r \in Run /\ Spare(r)'
  BY CalmSpare DEF SpareInv, Calm, MarkInv, Judged
<1>3. ASSUME NEW r \in Run PROVE MarkInv(r)'
  <2>1. r \in retired => Judged(r)' /\ Claimed(r)'
    BY DEF SpareInv, MarkInv, Fate
  <2>2. Has(r, "deleting")' => r \in retired
    BY DEF SpareInv, MarkInv
  <2> QED
    BY <2>1, <2>2 DEF MarkInv, Calm
<1> QED
  BY <1>1, <1>2, <1>3 DEF SpareInv, Calm

Acts(p) ==
  \/ Runs(p) \/ Finalizes(p) \/ Retains(p)
  \/ \E r \in Run : OpenReader(p, r)
  \/ CloseReader(p) \/ LockFails(p) \/ Crash(p)

LEMMA OthersStay ==
  ASSUME IInv, NEW p \in Proc, Acts(p)
  PROVE  Others(p)
<1>1. /\ pc \in [Proc -> Stages] /\ unit \in [Proc -> Run \cup {NoRun}]
      /\ todo \in [Proc -> SUBSET Run] /\ jobs \in [Proc -> SUBSET Run]
      /\ found = [q \in Proc |-> found[q]] /\ PassInv(p)
  BY DEF IInv, TypeInv
<1>2. \A q \in Proc : q # NoProc
  BY NamesAssumption
<1>3. CASE Runs(p)
  BY <1>1, <1>3
     DEF Runs, CreateLog, AllocateOrder, WriteMarker, BeginFails, PersistBlob, AppendReference,
         TearLine, Execute, SetupFails, CloseStream, ReportFails, Goto, Leave, passVars, Others
<1>4. CASE Finalizes(p)
  BY <1>1, <1>4 DEF Finalizes, Publish, ReleaseActive, Abandon, Goto, Leave, passVars, Others
<1>5. CASE \/ StartPass(p) \/ StartListing(p) \/ ChooseExcess(p) \/ Unlock(p) \/ EndPass(p)
  BY <1>1, <1>2, <1>5 DEF StartPass, StartListing, ChooseExcess, Unlock, EndPass, Goto, Leave,
     passVars, Others, PassInv
<1>6. CASE DeletePath(p)
  BY <1>1, <1>6 DEF DeletePath, EndDeletion, Goto, passVars, Others
<1>7. ASSUME NEW r \in Run,
             ResumeClaim(p, r) \/ ListUnit(p, r) \/ ClaimUnit(p, r) \/ NextJob(p, r)
      PROVE  Others(p)
  BY <1>1, <1>7 DEF ResumeClaim, ListUnit, ClaimUnit, NextJob, Goto, Others
<1>8. CASE (\E r \in Run : OpenReader(p, r)) \/ CloseReader(p) \/ LockFails(p) \/ Crash(p)
  BY <1>1, <1>8 DEF OpenReader, CloseReader, LockFails, Crash, Goto, Leave, passVars, Others
<1> QED
  BY <1>3, <1>4, <1>5, <1>6, <1>7, <1>8 DEF Acts, Retains

\* Nobody else touches a unit between its .complete and the end of its .active.
LEMMA PublishedStay ==
  ASSUME IInv, SpareInv, NEW p \in Proc, Acts(p), NEW q \in Proc \ {p}, pc[q] = "published"
  PROVE  Has(unit[q], "complete")'
<1>1. /\ unit[q] \in Run /\ DrivenInv(q) /\ Drives(q) /\ Has(unit[q], "complete")
      /\ unit'[q] = unit[q]
  BY OthersStay DEF IInv, Uses, Drives, SpareInv, ListInv, Others
<1>2. ~Judged(unit[q]) /\ ~(Drives(p) /\ unit[p] = unit[q])
  BY <1>1 DEF DrivenInv, Judged, Opens
<1>3. files'[unit[q]] = files[unit[q]]
  BY <1>1, <1>2, WhoseFiles DEF Acts
<1> QED
  BY <1>1, <1>3 DEF Has

\* A process that neither lists nor claims has found nothing.
LEMMA ListsNothing ==
  ASSUME IInv', NEW p \in Proc, pc'[p] \notin {"listing", "claiming"},
         pc'[p] = "published" => Has(unit[p], "complete")'
  PROVE  ListInv(p)'
<1>1. found'[p] = {}
  BY DEF IInv, PassInv
<1> QED
  BY <1>1, FS_EmptySet DEF ListInv

\* A step after which unit r has the files F.
LEMMA OneUnit ==
  ASSUME IInv, IInv', Fate, SpareInv, NEW p \in Proc, Acts(p), ListInv(p)',
         NEW r \in Run, NEW F, files' = [files EXCEPT ![r] = F],
         order' \in [Run -> Nat], retired' = retired,
         \A x \in Run : tail[x] = "finished" => tail'[x] = tail[x] /\ order'[x] = order[x],
         \A x \in Run \ {r} : tail'[x] = tail[x],
         Kept(r) => "log" \in F /\ "complete" \in F,
         "deleting" \in F => "deleting" \in files[r],
         "log" \in F /\ tail'[r] = "finished" /\ F \cap {"active", "incomplete", "deleting"} = {}
           => "complete" \in F
  PROVE  SpareInv'
<1>1. files \in [Run -> SUBSET Suffix]
  BY DEF IInv, TypeInv
<1>2. files'[r] = F /\ \A x \in Run \ {r} : files'[x] = files[x]
  BY <1>1
<1>3. IsFiniteSet(Traced')
  <2>1. IsFiniteSet(Traced \cup {r})
    BY FS_AddElement DEF SpareInv
  <2>2. Traced' \subseteq Traced \cup {r}
    BY <1>2 DEF Traced
  <2> QED
    BY <2>1, <2>2, FS_Subset
<1>4. ASSUME NEW x \in Run, Kept(x) PROVE Kept(x)'
  BY <1>2, <1>4 DEF Kept, IsFinished, Has
<1>5. Calm
  BY <1>3, <1>4 DEF Calm
<1>6. \A x \in Run : Has(x, "deleting")' => Has(x, "deleting")
  BY <1>2 DEF Has
<1>7. ASSUME NEW x \in Run, IsFinished(x)',
             files'[x] \cap {"active", "incomplete", "deleting"} = {}
      PROVE  Has(x, "complete")'
  BY <1>2, <1>7 DEF SpareInv, MarkInv, IsFinished, Has
<1>8. \A q \in Proc \ {p} : pc[q] = "published" => Has(unit[q], "complete")'
  BY PublishedStay
<1> QED
  BY <1>5, <1>6, <1>7, <1>8, OthersStay, CalmStep

\* A step that changes no log and no file.
LEMMA NoUnit ==
  ASSUME IInv, IInv', Fate, SpareInv, NEW p \in Proc, Acts(p), ListInv(p)',
         UNCHANGED <<files, tail, retired>>, order' \in [Run -> Nat],
         \A x \in Run : tail[x] = "finished" => order'[x] = order[x]
  PROVE  SpareInv'
<1>1. IsFiniteSet(Traced') /\ \A x \in Run : Kept(x) => Kept(x)'
  BY DEF SpareInv, Traced, Kept, IsFinished, Has
<1>2. Calm
  BY <1>1 DEF Calm
<1>3. \A q \in Proc \ {p} : pc[q] = "published" => Has(unit[q], "complete")'
  BY PublishedStay
<1>4. \A x \in Run : Has(x, "deleting")' => Has(x, "deleting")
  BY DEF Has
<1>5. \A x \in Run : IsFinished(x)' /\ files'[x] \cap {"active", "incomplete", "deleting"} = {}
        => Has(x, "complete")'
  BY DEF SpareInv, MarkInv, IsFinished, Has
<1> QED
  BY <1>2, <1>3, <1>4, <1>5, OthersStay, CalmStep

-----------------------------------------------------------------------------
(* The order a run is given is above every order on a marker. *)

LEMMA LeastNat ==
  ASSUME NEW S \in SUBSET Nat, S # {}
  PROVE  \E x \in S : \A y \in S : x <= y
<1>1. PICK x \in S : \A y \in S : ~(<<y, x>> \in OpToRel(<, Nat))
  BY NatLessThanWellFounded, WFMin
<1>2. \A y \in S : ~(y < x)
  BY <1>1 DEF OpToRel
<1> QED
  BY <1>2

LEMMA GreatestNat ==
  ASSUME NEW S \in SUBSET Nat, S # {}, NEW b \in Nat, \A n \in S : n <= b
  PROVE  \E n \in S : \A m \in S : m <= n
<1> DEFINE U == {n \in Nat : \A m \in S : m <= n}
<1>1. PICK x \in U : \A y \in U : x <= y
  <2>1. b \in U
    OBVIOUS
  <2> HIDE DEF U
  <2>2. U \subseteq Nat
    BY DEF U
  <2> QED
    BY <2>1, <2>2, LeastNat
<1>2. x \in Nat /\ \A m \in S : m <= x
  BY <1>1
<1>3. x \in S
  <2>1. SUFFICES ASSUME x \notin S PROVE FALSE
    OBVIOUS
  <2>2. \A m \in S : m <= x - 1
    BY <1>2, <2>1
  <2>3. x - 1 \in Nat
    <3>1. PICK m \in S : m <= x - 1
      BY <2>2
    <3> QED
      BY <1>2, <3>1
  <2>4. x - 1 \in U
    BY <2>2, <2>3
  <2> QED
    BY <1>1, <1>2, <2>4
<1> QED
  BY <1>2, <1>3

OrderInv ==
  /\ order \in [Run -> Nat] /\ counter \in Nat
  /\ \E b \in Nat : counter <= b /\ \A r \in Run : order[r] <= b

LEMMA NextOrderIsLast ==
  ASSUME OrderInv
  PROVE  NextOrder \in Nat /\ \A r \in Marked : order[r] < NextOrder
<1> DEFINE seen == {counter} \cup {order[r] : r \in Marked}
           top == CHOOSE n \in seen : \A m \in seen : m <= n
<1>1. PICK b \in Nat : counter <= b /\ \A r \in Run : order[r] <= b
  BY DEF OrderInv
<1>2. seen \subseteq Nat /\ seen # {} /\ \A n \in seen : n <= b
  BY <1>1 DEF OrderInv, Marked
<1>3. NextOrder = 1 + top
  BY DEF NextOrder
<1>4. \A r \in Marked : order[r] \in seen
  OBVIOUS
<1> HIDE DEF seen
<1>5. \E n \in seen : \A m \in seen : m <= n
  BY <1>1, <1>2, GreatestNat
<1>6. top \in seen /\ \A m \in seen : m <= top
  BY <1>5
<1> HIDE DEF top
<1>7. top \in Nat
  BY <1>2, <1>6
<1>8. \A r \in Marked : order[r] \in Nat /\ order[r] <= top
  BY <1>2, <1>4, <1>6
<1> HIDE DEF NextOrder
<1> QED
  BY <1>3, <1>7, <1>8

LEMMA OrderStep ==
  ASSUME OrderInv, [Next]_vars
  PROVE  OrderInv'
<1>1. ASSUME NEW p \in Proc, AllocateOrder(p) PROVE OrderInv'
  <2>1. PICK b \in Nat : counter <= b /\ \A r \in Run : order[r] <= b
    BY DEF OrderInv
  <2>2. /\ NextOrder \in Nat /\ order \in [Run -> Nat] /\ counter' = NextOrder
        /\ order' = [order EXCEPT ![unit[p]] = NextOrder]
    BY <1>1, NextOrderIsLast DEF AllocateOrder, OrderInv
  <2> HIDE DEF NextOrder
  <2>3. order' \in [Run -> Nat] /\ counter' \in Nat
    BY <2>2
  <2>4. b + NextOrder \in Nat /\ counter' <= b + NextOrder
    BY <2>2
  <2>5. \A r \in Run : order'[r] <= b + NextOrder
    BY <2>1, <2>2
  <2> QED
    BY <2>3, <2>4, <2>5 DEF OrderInv
<1>2. CASE UNCHANGED <<order, counter>>
  BY <1>2 DEF OrderInv
<1>3. CASE LoseCounter
  BY <1>3 DEF LoseCounter, unitVars, OrderInv
<1>4. CASE UNCHANGED vars
  BY <1>2, <1>4 DEF vars, unitVars
<1>5. ASSUME NEW p \in Proc, Acts(p), ~AllocateOrder(p) PROVE UNCHANGED <<order, counter>>
  <2>1. CASE Runs(p)
    BY <1>5, <2>1
       DEF Runs, CreateLog, WriteMarker, BeginFails, PersistBlob, AppendReference, TearLine,
           Execute, SetupFails, CloseStream, ReportFails, unitVars
  <2>2. CASE Finalizes(p)
    BY <2>2 DEF Finalizes, Publish, ReleaseActive, Abandon
  <2>3. CASE Retains(p)
    BY <2>3 DEF Retains, StartPass, StartListing, ChooseExcess, Unlock, EndPass, DeletePath,
       ResumeClaim, ListUnit, ClaimUnit, NextJob, unitVars
  <2>4. CASE (\E r \in Run : OpenReader(p, r)) \/ CloseReader(p) \/ LockFails(p) \/ Crash(p)
    BY <2>4 DEF OpenReader, CloseReader, LockFails, Crash, unitVars
  <2> QED
    BY <1>5, <2>1, <2>2, <2>3, <2>4 DEF Acts
<1> QED
  BY <1>1, <1>2, <1>3, <1>4, <1>5 DEF Next, Acts

LEMMA OrderInvariance == Spec => []OrderInv
<1>1. Init => OrderInv
  <2> SUFFICES ASSUME Init PROVE OrderInv
    OBVIOUS
  <2>1. 0 \in Nat /\ counter <= 0 /\ \A r \in Run : order[r] <= 0
    BY DEF Init
  <2> QED
    BY <2>1 DEF Init, OrderInv
<1> QED
  BY <1>1, OrderStep, PTL DEF Spec

\* _next_history_order looks at the markers, not only at its counter: a run that
\* begins sorts after everything that is there, whatever was lost.
THEOREM NewRunSortsLastAlways == Spec => NewRunSortsLast
<1> DEFINE Last ==
      \A p \in Proc : pc[p] = "created" /\ pc'[p] = "ordered" =>
        \A r \in Marked : order[r] < order'[unit[p]]
<1>1. IInv /\ OrderInv /\ [Next]_vars => Last
  <2> SUFFICES ASSUME IInv, OrderInv, [Next]_vars, NEW p \in Proc, pc[p] = "created",
                      pc'[p] = "ordered", NEW r \in Marked
               PROVE  order[r] < order'[unit[p]]
    OBVIOUS
  <2>1. /\ pc \in [Proc -> Stages] /\ unit[p] \in Run /\ order \in [Run -> Nat]
    BY DEF IInv, TypeInv, Uses, Drives, OrderInv
  <2>2. CASE AllocateOrder(p)
    BY <2>1, <2>2, NextOrderIsLast DEF AllocateOrder
  <2>3. ASSUME NEW q \in Proc, Acts(q), q # p PROVE FALSE
    BY <2>3, OthersStay DEF Others
  <2>4. CASE Acts(p) /\ ~AllocateOrder(p)
    <3>1. CASE Runs(p)
      BY <2>1, <2>4, <3>1
         DEF Runs, CreateLog, WriteMarker, BeginFails, PersistBlob, AppendReference, TearLine,
             Execute, SetupFails, CloseStream, ReportFails, Goto, Leave
    <3>2. CASE Finalizes(p)
      BY <3>2 DEF Finalizes, Publish, ReleaseActive, Abandon
    <3>3. CASE Retains(p)
      BY <3>3 DEF Retains, StartPass, StartListing, ChooseExcess, Unlock, EndPass, DeletePath,
         ResumeClaim, ListUnit, ClaimUnit, NextJob
    <3>4. CASE (\E x \in Run : OpenReader(p, x)) \/ CloseReader(p) \/ LockFails(p) \/ Crash(p)
      BY <2>1, <3>4 DEF OpenReader, CloseReader, LockFails, Crash, Leave, Goto
    <3> QED
      BY <2>4, <3>1, <3>2, <3>3, <3>4 DEF Acts
  <2>5. CASE LoseCounter \/ UNCHANGED vars
    BY <2>5 DEF LoseCounter, vars
  <2> QED
    BY <2>2, <2>3, <2>4, <2>5 DEF Next, Acts
<1> QED
  BY <1>1, Invariance, OrderInvariance, PTL DEF Spec, NewRunSortsLast

-----------------------------------------------------------------------------
(* SpareInv, action by action. *)

LEMMA RunsSpare ==
  ASSUME IInv, IInv', Fate, SpareInv, OrderInv', NEW p \in Proc, Runs(p)
  PROVE  SpareInv'
<1> DEFINE u == unit[p]
           F == files[u]
<1>1. Acts(p) /\ retired' = retired /\ order' \in [Run -> Nat]
  BY DEF Acts, OrderInv, Runs, CreateLog, AllocateOrder, WriteMarker, BeginFails, PersistBlob,
     AppendReference, TearLine, Execute, SetupFails, CloseStream, ReportFails
<1>2. /\ pc \in [Proc -> Stages] /\ files \in [Run -> SUBSET Suffix]
      /\ tail \in [Run -> {"prefix", "torn", "finished"}]
  BY DEF IInv, TypeInv
<1>3. ListInv(p)'
  <2>1. pc'[p] \in {"created", "ordered", "running", "idle", "stopped", "closed"}
    BY <1>2 DEF Runs, CreateLog, AllocateOrder, WriteMarker, BeginFails, PersistBlob,
       AppendReference, TearLine, Execute, SetupFails, CloseStream, ReportFails, Goto, Leave
  <2> QED
    BY <2>1, ListsNothing
<1>4. CASE CreateLog(p)
  <2> DEFINE r == CHOOSE x \in Unused : TRUE
  <2>1. r \in Run /\ files[r] = {} /\ tail[r] = "prefix" /\ Add(r, "log")
        /\ UNCHANGED <<tail, order>>
    BY <1>4 DEF CreateLog, Unused
  <2> HIDE DEF r
  <2>2. files' = [files EXCEPT ![r] = {"log"}]
    BY <2>1 DEF Add
  <2>3. ~Kept(r)
    BY <2>1 DEF Kept, Has
  <2> QED
    BY <1>1, <1>3, <2>1, <2>2, <2>3, OneUnit
<1>5. CASE ~CreateLog(p)
  <2>1. /\ Drives(p) /\ u \in Run /\ DrivenInv(p) /\ F \subseteq Suffix
        /\ files = [files EXCEPT ![u] = F]
    BY <1>2, <1>5
       DEF Runs, AllocateOrder, WriteMarker, BeginFails, PersistBlob, AppendReference, TearLine,
           Execute, SetupFails, CloseStream, ReportFails, Drives, IInv, Uses
  <2>2. CASE AllocateOrder(p)
    <3>1. tail[u] = "prefix" /\ \A x \in Run \ {u} : order'[x] = order[x]
      BY <2>1, <2>2 DEF AllocateOrder, DrivenInv, Opens, OrderInv
    <3>2. UNCHANGED <<files, tail>> /\ \A x \in Run : tail[x] = "finished" => order'[x] = order[x]
      BY <2>2, <3>1 DEF AllocateOrder
    <3> QED
      BY <1>1, <1>3, <3>2, NoUnit
  <2>3. CASE WriteMarker(p)
    <3>1. files' = [files EXCEPT ![u] = F \cup {"active"}] /\ UNCHANGED <<tail, order>>
      BY <2>3 DEF WriteMarker, Add
    <3>2. Kept(u) => "log" \in F /\ "complete" \in F
      BY DEF Kept, IsFinished, Has
    <3> QED
      BY <1>1, <1>3, <2>1, <3>1, <3>2, OneUnit
  <2>4. CASE PersistBlob(p)
    <3>1. files' = [files EXCEPT ![u] = F \cup {"blobs"}] /\ UNCHANGED <<tail, order>>
      BY <2>4 DEF PersistBlob, Add
    <3>2. Kept(u) => "log" \in F /\ "complete" \in F
      BY DEF Kept, IsFinished, Has
    <3>3. "active" \in F
      BY <2>1, <2>4 DEF PersistBlob, DrivenInv, Opens
    <3> QED
      BY <1>1, <1>3, <2>1, <3>1, <3>2, <3>3, OneUnit
  <2>5. CASE BeginFails(p)
    <3>1. F = {"log"} /\ tail[u] = "prefix" /\ UNCHANGED <<tail, order>>
      BY <2>1, <2>5 DEF BeginFails, DrivenInv, Opens
    <3>2. files' = [files EXCEPT ![u] = {}] \/ files' = files
      BY <2>1, <2>5, <3>1 DEF BeginFails, Remove
    <3>3. ~Kept(u)
      BY <3>1 DEF Kept, Has
    <3>4. CASE files' = [files EXCEPT ![u] = {}]
      BY <1>1, <1>3, <2>1, <3>1, <3>3, <3>4, OneUnit
    <3>5. CASE files' = files
      BY <1>1, <1>3, <3>1, <3>5, NoUnit
    <3> QED
      BY <3>2, <3>4, <3>5
  <2>6. CASE TearLine(p) \/ Execute(p)
    <3>1. /\ UNCHANGED <<files, order>> /\ "active" \in F /\ tail[u] # "finished"
          /\ \A x \in Run \ {u} : tail'[x] = tail[x]
      BY <1>2, <2>1, <2>6 DEF TearLine, Execute, DrivenInv, Opens
    <3>2. ~Kept(u)
      BY <3>1 DEF Kept, IsFinished
    <3>3. files' = [files EXCEPT ![u] = F]
      BY <2>1, <3>1
    <3>4. \A x \in Run : tail[x] = "finished" => tail'[x] = tail[x] /\ order'[x] = order[x]
      BY <3>1
    <3> QED
      BY <1>1, <1>3, <2>1, <3>1, <3>2, <3>3, <3>4, OneUnit
  <2>7. CASE AppendReference(p) \/ SetupFails(p) \/ CloseStream(p) \/ ReportFails(p)
    <3>1. UNCHANGED <<files, tail, order>>
      BY <2>7 DEF AppendReference, SetupFails, CloseStream, ReportFails, unitVars
    <3> QED
      BY <1>1, <1>3, <3>1, NoUnit
  <2> QED
    BY <1>5, <2>2, <2>3, <2>4, <2>5, <2>6, <2>7 DEF Runs
<1> QED
  BY <1>4, <1>5

LEMMA FinalizesSpare ==
  ASSUME IInv, IInv', Fate, SpareInv, OrderInv', NEW p \in Proc, Finalizes(p)
  PROVE  SpareInv'
<1> DEFINE u == unit[p]
           F == files[u]
<1>1. /\ Acts(p) /\ Drives(p) /\ order' \in [Run -> Nat]
      /\ UNCHANGED <<tail, order, retired>>
  BY DEF Acts, OrderInv, Finalizes, Publish, ReleaseActive, Abandon, Drives
<1>2. /\ u \in Run /\ DrivenInv(p) /\ ListInv(p) /\ files \in [Run -> SUBSET Suffix]
      /\ files = [files EXCEPT ![u] = F] /\ pc \in [Proc -> Stages]
  BY <1>1 DEF IInv, TypeInv, Uses, SpareInv
<1>3. "active" \in F /\ "deleting" \notin F
  BY <1>2 DEF Finalizes, Publish, ReleaseActive, Abandon, DrivenInv, Drives, Opens
<1>4. Kept(u) => "log" \in F /\ "complete" \in F
  BY DEF Kept, IsFinished, Has
<1>5. CASE Publish(p) /\ Add(u, "complete") /\ Goto(p, "published")
  <2>1. files' = [files EXCEPT ![u] = F \cup {"complete"}] /\ pc'[p] = "published"
        /\ unit'[p] = u
    BY <1>2, <1>5 DEF Publish, Add, Goto
  <2>2. Has(unit[p], "complete")'
    BY <1>2, <2>1 DEF Has
  <2>3. ListInv(p)'
    BY <2>1, <2>2, ListsNothing
  <2> QED
    BY <1>1, <1>2, <1>3, <1>4, <2>1, <2>3, OneUnit
<1>6. CASE UNCHANGED files /\ Goto(p, "abandoning")
  <2>1. ListInv(p)'
    BY <1>2, <1>6, ListsNothing DEF Goto
  <2> QED
    BY <1>1, <1>6, <2>1, NoUnit
<1>7. CASE ReleaseActive(p) /\ Remove(u, {"active", "incomplete"}) /\ Goto(p, "retain")
  <2>1. files' = [files EXCEPT ![u] = F \ {"active", "incomplete"}] /\ "complete" \in F
    BY <1>2, <1>7 DEF ReleaseActive, Remove, ListInv, Has
  <2>2. ListInv(p)'
    BY <1>2, <1>7, ListsNothing DEF Goto
  <2> QED
    BY <1>1, <1>2, <1>3, <1>4, <2>1, <2>2, OneUnit
<1>8. CASE Abandon(p)
  <2>1. ListInv(p)'
    BY <1>2, <1>8, ListsNothing DEF Abandon, Leave, Goto
  <2>2. files' = [files EXCEPT ![u] = (F \ {"active"}) \cup {"incomplete"}] \/ files' = files
    BY <1>3, <1>8 DEF Abandon
  <2>3. CASE files' = [files EXCEPT ![u] = (F \ {"active"}) \cup {"incomplete"}]
    BY <1>1, <1>2, <1>3, <1>4, <2>1, <2>3, OneUnit
  <2>4. CASE files' = files
    BY <1>1, <2>1, <2>4, NoUnit
  <2> QED
    BY <2>2, <2>3, <2>4
<1> QED
  BY <1>5, <1>6, <1>7, <1>8 DEF Finalizes, Publish, ReleaseActive

\* Steps that neither list nor claim, and leave every file as it is.
LEMMA IdleSpare ==
  ASSUME IInv, IInv', Fate, SpareInv, OrderInv', NEW p \in Proc,
         \/ StartPass(p) \/ Unlock(p) \/ EndPass(p) \/ CloseReader(p) \/ LockFails(p) \/ Crash(p)
         \/ \E r \in Run : NextJob(p, r) \/ OpenReader(p, r)
  PROVE  SpareInv'
<1>1. /\ Acts(p) /\ UNCHANGED <<files, tail, order, retired>> /\ order' \in [Run -> Nat]
  BY DEF Acts, Retains, StartPass, Unlock, EndPass, NextJob, OpenReader, CloseReader, LockFails,
     Crash, unitVars, OrderInv
<1>2. pc \in [Proc -> Stages]
  BY DEF IInv, TypeInv
<1>3. pc'[p] \notin {"listing", "claiming", "published"}
  BY <1>2 DEF StartPass, Unlock, EndPass, NextJob, OpenReader, CloseReader, LockFails, Crash,
     Goto, Leave
<1>4. ListInv(p)'
  BY <1>3, ListsNothing
<1> QED
  BY <1>1, <1>4, NoUnit

LEMMA StartListingSpare ==
  ASSUME IInv, IInv', Fate, SpareInv, NEW p \in Proc, StartListing(p)
  PROVE  SpareInv'
<1>1. /\ pc[p] = "resuming" /\ pc'[p] = "listing" /\ found'[p] = {} /\ Acts(p)
      /\ UNCHANGED <<files, tail, order, retired>>
  BY DEF StartListing, Goto, Acts, Retains, IInv, TypeInv, PassInv, unitVars
<1>2. ListInv(p)'
  BY <1>1, FS_EmptySet DEF ListInv
<1> QED
  BY <1>1, <1>2, NoUnit DEF SpareInv

\* A unit that the listing finds eligible is kept, with its own rank, or has
\* been claimed and lost its completion metadata.
LEMMA ListUnitSpare ==
  ASSUME IInv, IInv', Fate, SpareInv, NEW p \in Proc, NEW r \in Run, ListUnit(p, r)
  PROVE  SpareInv'
<1>1. /\ pc[p] = "listing" /\ pc'[p] = "listing" /\ r \in todo[p] /\ Acts(p)
      /\ todo'[p] = todo[p] \ {r} /\ UNCHANGED <<files, tail, leases, order, retired>>
      /\ found'[p] = IF IsEligible(r) THEN found[p] \cup {<<r, Rank(r)>>} ELSE found[p]
  BY DEF ListUnit, Acts, Retains, IInv, TypeInv, unitVars
<1>2. ListInv(p) /\ MarkInv(r) /\ order[r] \in Nat /\ order' \in [Run -> Nat]
  BY <1>1 DEF SpareInv
<1>3. ASSUME IsEligible(r)
      PROVE  IF r \in retired THEN Rank(r) <= order[r] ELSE Kept(r) /\ Rank(r) = order[r]
  <2>1. IsFinished(r) /\ files[r] \cap {"active", "incomplete"} = {}
    BY <1>3 DEF IsEligible, IsProtected, Has
  <2>2. CASE r \in retired
    BY <1>2, <2>2 DEF Rank
  <2>3. CASE r \notin retired
    BY <1>2, <2>1, <2>3 DEF MarkInv, Has, Kept, Rank
  <2> QED
    BY <2>2, <2>3
<1>4. Rank(r) \in Nat
  BY <1>2 DEF Rank
<1>5. IsFiniteSet(found'[p])
  <2>1. IsFiniteSet(found[p])
    BY <1>2 DEF ListInv
  <2>2. IsFiniteSet(found[p] \cup {<<r, Rank(r)>>})
    BY <2>1, FS_AddElement
  <2> QED
    BY <1>1, <2>1, <2>2
<1>6. ASSUME NEW f \in found'[p]
      PROVE  /\ f[1] \notin todo'[p] /\ f[2] \in Nat
             /\ \A g \in found'[p] : f[1] = g[1] => f = g
             /\ IF f[1] \in retired THEN f[2] <= order[f[1]]
                ELSE Kept(f[1]) /\ f[2] = order[f[1]]
  <2> HIDE DEF Rank
  <2>1. f \in found[p] \/ (IsEligible(r) /\ f = <<r, Rank(r)>>)
    BY <1>1
  <2>2. \A g \in found[p] : g[1] # r
    BY <1>1, <1>2 DEF ListInv
  <2>3. CASE f \in found[p]
    BY <1>1, <1>2, <2>2, <2>3 DEF ListInv
  <2>4. CASE IsEligible(r) /\ f = <<r, Rank(r)>>
    BY <1>1, <1>3, <1>4, <2>2, <2>4
  <2> QED
    BY <2>1, <2>3, <2>4
<1>7. \A k : Kept(k) => Kept(k)'
  BY <1>1 DEF Kept, IsFinished, Has
<1>8. ListInv(p)'
  BY <1>1, <1>5, <1>6, <1>7 DEF ListInv
<1> QED
  BY <1>1, <1>2, <1>8, NoUnit

\* What is in excess has History kept units above it: those above it in the
\* listing, or those above one of them that has been claimed.
LEMMA ExcessIsSpare ==
  ASSUME IInv, SpareInv, NEW p \in Proc, pc[p] = "listing", NEW f \in Excess(found[p])
  PROVE  Spare(f[1])
<1> DEFINE G == {g \in found[p] : Above(g, f)}
<1>1. f \in found[p] /\ History <= Cardinality(G)
  BY HistoryAssumption, FS_Subset, FS_CardinalityType DEF Excess, SpareInv, ListInv
<1>2. ListInv(p) /\ order \in [Run -> Nat] /\ \A g \in found[p] : g[1] \in Run
  BY DEF SpareInv, IInv, TypeInv
<1>3. CASE f[1] \in retired
  BY <1>3 DEF SpareInv
<1>4. CASE f[1] \notin retired
  <2>1. f[2] = order[f[1]] /\ order[f[1]] \in Nat
    BY <1>1, <1>2, <1>4 DEF ListInv
  <2>2. \A g \in G : g[1] \in Run /\ order[g[1]] \in Nat /\ g[2] <= order[g[1]] /\ g[2] \in Nat
    BY <1>2 DEF ListInv
  <2>3. \A g \in G : Later(g[1], f[1])
    BY <2>1, <2>2 DEF Above, Later
  <2>4. CASE \E g \in G : g[1] \in retired
    <3>1. PICK g \in G : g[1] \in retired
      BY <2>4
    <3>2. Spare(g[1])
      BY <3>1 DEF SpareInv
    <3>3. \A k \in Run : Later(k, g[1]) => Later(k, f[1])
      BY <1>1, <1>2, <2>2, <2>3, <3>1, LaterIsTransitive
    <3>4. Newer(g[1]) \subseteq Newer(f[1])
      BY <3>3 DEF Newer
    <3> QED
      BY <3>2, <3>4, SpareGrows, NewerIsFinite DEF Spare, SpareInv
  <2>5. CASE \A g \in G : g[1] \notin retired
    <3> DEFINE H == {g[1] : g \in G}
    <3>1. H \subseteq Newer(f[1])
      BY <1>2, <2>2, <2>3, <2>5 DEF ListInv, Newer
    <3>2. History <= Cardinality(H)
      <4> DEFINE b == [g \in G |-> g[1]]
      <4>1. b \in Bijection(G, H)
        <5>1. \A x, y \in G : x[1] = y[1] => x = y
          BY <1>2 DEF ListInv
        <5>2. b \in [G -> H] /\ \A y \in H : \E x \in G : b[x] = y
          OBVIOUS
        <5>3. \A x, y \in G : b[x] = b[y] => x = y
          BY <5>1
        <5> QED
          BY <5>2, <5>3 DEF Bijection, Injection, Surjection, IsInjective
      <4>2. IsFiniteSet(G)
        BY <1>2, FS_Subset DEF ListInv
      <4> HIDE DEF b, G, H
      <4>3. Cardinality(G) = Cardinality(H)
        BY <4>1, <4>2, FS_Bijection DEF ExistsBijection
      <4> QED
        BY <1>1, <4>3
    <3> QED
      BY <3>1, <3>2, SpareGrows, NewerIsFinite DEF Spare, SpareInv
  <2> QED
    BY <2>4, <2>5
<1> QED
  BY <1>3, <1>4

LEMMA ChooseExcessSpare ==
  ASSUME IInv, IInv', Fate, SpareInv, NEW p \in Proc, ChooseExcess(p)
  PROVE  SpareInv'
<1>1. /\ pc[p] = "listing" /\ pc'[p] = "claiming" /\ Acts(p) /\ found'[p] = {}
      /\ todo'[p] = {f[1] : f \in Excess(found[p])}
      /\ UNCHANGED <<files, tail, order, retired>>
  BY DEF ChooseExcess, Goto, Acts, Retains, IInv, TypeInv, unitVars
<1>2. ASSUME NEW r \in todo'[p] PROVE Spare(r)'
  <2>1. PICK f \in Excess(found[p]) : r = f[1]
    BY <1>1
  <2>2. Spare(r)
    BY <1>1, <2>1, ExcessIsSpare
  <2>3. Newer(r)' = Newer(r)
    BY <1>1 DEF Newer, Later, Kept, IsFinished, Has
  <2> QED
    BY <2>2, <2>3 DEF Spare
<1>3. ListInv(p)'
  BY <1>1, <1>2, FS_EmptySet DEF ListInv
<1> QED
  BY <1>1, <1>3, NoUnit DEF SpareInv

\* A visit that changes no file leaves less to visit.
LEMMA VisitSpare ==
  ASSUME IInv, IInv', Fate, SpareInv, NEW p \in Proc, Retains(p), pc'[p] \notin {"listing"},
         UNCHANGED <<files, tail, order, retired>>,
         pc'[p] # "published",
         pc'[p] = "claiming" => pc[p] = "claiming" /\ todo'[p] \subseteq todo[p]
  PROVE  SpareInv'
<1>1. Acts(p) /\ order' \in [Run -> Nat] /\ ListInv(p)
  BY DEF Acts, SpareInv
<1>2. \A k \in Run : Newer(k)' = Newer(k)
  BY DEF Newer, Later, Kept, IsFinished, Has
<1>3. pc'[p] = "claiming" => \A r \in todo'[p] : Spare(r)'
  BY <1>1, <1>2 DEF ListInv, Spare, IInv, TypeInv
<1>4. found'[p] = {}
  BY DEF IInv, PassInv
<1>5. ListInv(p)'
  BY <1>3, <1>4, FS_EmptySet DEF ListInv
<1> QED
  BY <1>1, <1>5, NoUnit

LEMMA ResumeClaimSpare ==
  ASSUME IInv, IInv', Fate, SpareInv, NEW p \in Proc, NEW r \in Run, ResumeClaim(p, r)
  PROVE  SpareInv'
<1>1. /\ pc[p] = "resuming" /\ pc'[p] \in {"resuming", "resumeDelete"} /\ Retains(p) /\ Acts(p)
      /\ UNCHANGED <<tail, order, retired>> /\ UnitInv(r) /\ PassInv(p)
  BY DEF ResumeClaim, Goto, Acts, Retains, IInv, TypeInv
<1>2. CASE UNCHANGED files
  BY <1>1, <1>2, VisitSpare
<1>3. CASE Has(r, "deleting") /\ (IsVoid(r) \/ Vanishes(r)) /\ Remove(r, {"deleting"})
  <2>1. files[r] = {"deleting"}
    BY <1>1, <1>3, NoneIsVoid DEF Vanishes, UnitInv, Has
  <2>2. files' = [files EXCEPT ![r] = {}] /\ ~Kept(r)
    BY <1>3, <2>1 DEF Remove, Kept, Has
  <2>3. ListInv(p)'
    BY <1>1, ListsNothing
  <2> QED
    BY <1>1, <2>2, <2>3, OneUnit DEF SpareInv
<1> QED
  BY <1>2, <1>3 DEF ResumeClaim

LEMMA DeletePathSpare ==
  ASSUME IInv, IInv', Fate, SpareInv, NEW p \in Proc, DeletePath(p)
  PROVE  SpareInv'
<1>1. PICK r \in Run : r = unit[p]
  BY DEF IInv, DeletePath, Uses
<1>2. /\ pc[p] \in {"resumeDelete", "delete"} /\ Retains(p) /\ Acts(p)
      /\ pc'[p] \in {"resumeDelete", "delete", "resuming", "deleting"}
      /\ UNCHANGED <<tail, order, retired>>
  BY DEF DeletePath, EndDeletion, Resumed, Goto, Acts, Retains, IInv, TypeInv
<1>3. /\ PassInv(p) /\ Claimed(r) /\ files \in [Run -> SUBSET Suffix]
  BY <1>1, <1>2 DEF IInv, TypeInv, PassInv, Claimed
<1>4. CASE UNCHANGED files
  BY <1>2, <1>4, VisitSpare
<1>5. ASSUME NEW suffix \in files[r], IsNext(r, suffix), Remove(r, {suffix})
      PROVE  SpareInv'
  <2> DEFINE F == files[r] \ {suffix}
  <2>1. Has(r, "deleting") /\ ~Kept(r) /\ files' = [files EXCEPT ![r] = F]
    BY <1>3, <1>5 DEF Claimed, Has, Kept, Remove
  <2>2. "deleting" \in F \/ F = {}
    <3>1. \A other \in files[r] : Turn[suffix] <= Turn[other]
      BY <1>5 DEF IsNext
    <3>2. suffix = "deleting" => \A other \in files[r] : other = "deleting"
      BY <1>3, <3>1 DEF Turn, Suffix
    <3> QED
      BY <2>1, <3>2 DEF Has
  <2>3. ListInv(p)'
    BY <1>2, ListsNothing
  <2> HIDE DEF F
  <2>4. "deleting" \in F => "deleting" \in files[r]
    BY <2>1 DEF Has
  <2> QED
    BY <1>2, <2>1, <2>2, <2>3, <2>4, OneUnit DEF SpareInv
<1> QED
  BY <1>1, <1>4, <1>5 DEF DeletePath

\* Whoever is claimed leaves those above it above everybody it was above.
LEMMA ClaimUnitSpare ==
  ASSUME IInv, IInv', Fate, SpareInv, NEW p \in Proc, NEW r \in Run, ClaimUnit(p, r)
  PROVE  SpareInv'
<1>1. /\ pc[p] = "claiming" /\ pc'[p] = "claiming" /\ Retains(p) /\ Acts(p)
      /\ r \in todo[p] /\ todo'[p] \subseteq todo[p] /\ UNCHANGED <<tail, leases, order>>
      /\ PassInv(p) /\ ListInv(p) /\ files \in [Run -> SUBSET Suffix] /\ lock = p
  BY DEF ClaimUnit, Goto, Acts, Retains, IInv, TypeInv, PassInv, SpareInv
<1>2. CASE UNCHANGED <<files, retired>>
  BY <1>1, <1>2, VisitSpare
<1>3. CASE ~Has(r, "deleting") /\ Add(r, "deleting") /\ retired' = retired \cup {r}
  <2>1. files' = [files EXCEPT ![r] = files[r] \cup {"deleting"}]
    BY <1>3 DEF Add
  <2>2. files'[r] = files[r] \cup {"deleting"} /\ \A x \in Run \ {r} : files'[x] = files[x]
    BY <1>1, <2>1
  <2>3. \A k \in Run \ {r} : Kept(k) => Kept(k)'
    BY <1>1, <1>3, <2>2 DEF Kept, IsFinished, Has
  <2>4. IsFiniteSet(Traced')
    <3>1. IsFiniteSet(Traced \cup {r}) /\ Traced' \subseteq Traced \cup {r}
      BY <2>2, FS_AddElement DEF SpareInv, Traced
    <3> QED
      BY <3>1, FS_Subset
  <2>5. Spare(r) /\ order \in [Run -> Nat] /\ order' = order
    BY <1>1 DEF ListInv, SpareInv
  <2>6. ASSUME NEW s \in Run, Spare(s) PROVE Spare(s)'
    <3>1. IsFiniteSet(Newer(s)')
      <4>1. Newer(s)' \subseteq Traced'
        BY DEF Newer, Kept, Traced, Has
      <4> QED
        BY <2>4, <4>1, FS_Subset
    <3>2. CASE r \notin Newer(s)
      <4>1. Newer(s) \subseteq Newer(s)'
        BY <2>3, <2>5, <3>2 DEF Newer, Later
      <4> QED
        BY <2>6, <3>1, <4>1, SpareGrows DEF Spare
    <3>3. CASE r \in Newer(s)
      <4>1. Later(r, s)
        BY <3>3 DEF Newer
      <4>2. \A k \in Newer(r) : k \in Run \ {r} /\ Kept(k) /\ Later(k, s)
        BY <2>5, <4>1, LaterIsTransitive DEF Newer
      <4>3. Newer(r) \subseteq Newer(s)'
        BY <2>3, <2>5, <4>2 DEF Newer, Later
      <4> QED
        BY <2>5, <3>1, <4>3, SpareGrows DEF Spare
    <3> QED
      BY <3>2, <3>3
  <2>7. ASSUME NEW x \in Run PROVE MarkInv(x)'
    <3>1. Judged(r)' /\ Claimed(r)' /\ Has(r, "deleting")'
      BY <1>1, <2>2 DEF PassInv, Judged, Claimed, Has
    <3>2. CASE x = r
      BY <1>3, <3>1, <3>2 DEF MarkInv, Has
    <3>3. CASE x # r
      BY <1>1, <1>3, <2>2, <3>3 DEF SpareInv, MarkInv, IsFinished, Has, Judged, Claimed
    <3> QED
      BY <3>2, <3>3
  <2>8. ASSUME NEW q \in Proc PROVE ListInv(q)'
    <3>1. CASE q = p
      <4>1. found'[p] = {}
        BY <1>1 DEF IInv, PassInv
      <4>2. \A s \in todo'[p] : Spare(s)'
        BY <1>1, <2>6 DEF ListInv, IInv, TypeInv
      <4> QED
        BY <1>1, <3>1, <4>1, <4>2, FS_EmptySet DEF ListInv
    <3>2. CASE q # p
      <4>1. pc[q] \notin {"listing", "claiming"} /\ pc'[q] = pc[q]
        BY <1>1, <3>2, OthersStay DEF IInv, PassInv, Others
      <4>2. pc[q] = "published" => Has(unit[q], "complete")'
        BY <1>1, <3>2, PublishedStay
      <4>3. unit'[q] = unit[q]
        BY <1>1, <3>2, OthersStay DEF Others
      <4>4. pc'[q] = "published" => Has(unit[q], "complete")'
        BY <4>1, <4>2
      <4> QED
        BY <4>1, <4>4, ListsNothing
    <3> QED
      BY <3>1, <3>2
  <2>9. \A s \in retired' : s \in Run /\ Spare(s)'
    BY <1>3, <2>5, <2>6 DEF SpareInv
  <2> QED
    BY <2>4, <2>5, <2>7, <2>8, <2>9 DEF SpareInv
<1> QED
  BY <1>2, <1>3 DEF ClaimUnit

LEMMA SpareStep ==
  ASSUME IInv, SpareInv, OrderInv, [Next]_vars
  PROVE  SpareInv'
<1>1. IInv' /\ Fate /\ OrderInv'
  BY NextKeeps, OrderStep
<1>2. ASSUME NEW p \in Proc, Retains(p) PROVE SpareInv'
  BY <1>1, <1>2, IdleSpare, StartListingSpare, ListUnitSpare, ChooseExcessSpare,
     ResumeClaimSpare, DeletePathSpare, ClaimUnitSpare DEF Retains
<1>3. ASSUME NEW p \in Proc,
             \/ \E r \in Run : OpenReader(p, r)
             \/ CloseReader(p) \/ LockFails(p) \/ Crash(p)
      PROVE  SpareInv'
  BY <1>1, <1>3, IdleSpare
<1>4. ASSUME NEW p \in Proc, Runs(p) \/ Finalizes(p) PROVE SpareInv'
  BY <1>1, <1>4, RunsSpare, FinalizesSpare
<1>5. CASE LoseCounter \/ UNCHANGED vars
  <2>1. UNCHANGED <<files, tail, order, retired, leases, pc, unit, todo, found>>
    BY <1>5 DEF LoseCounter, vars, unitVars, passVars
  <2>2. UNCHANGED Traced /\ \A r : UNCHANGED <<MarkInv(r), Spare(r)>>
    BY <2>1 DEF Traced, MarkInv, Spare, Newer, Later, Kept, IsFinished, Has, Judged, Claimed
  <2>3. \A p \in Proc : ListInv(p)'
    BY <2>1, <2>2 DEF SpareInv, ListInv, Kept, IsFinished, Has
  <2> QED
    BY <2>1, <2>2, <2>3 DEF SpareInv
<1> QED
  BY <1>2, <1>3, <1>4, <1>5 DEF Next

LEMMA InitSpare == Init => SpareInv
<1> SUFFICES ASSUME Init PROVE SpareInv
  OBVIOUS
<1>1. Traced = {} /\ \A r \in Run : MarkInv(r)
  BY DEF Init, Traced, MarkInv, IsFinished, Has
<1>2. \A p \in Proc : ListInv(p)
  BY FS_EmptySet DEF Init, ListInv
<1> QED
  BY <1>1, <1>2, FS_EmptySet DEF Init, SpareInv

\* However many passes, deletions and runs go on at once: a unit that was ever
\* claimed has History completed units above it that stay.
THEOREM NewestAreKeptAlways == Spec => []NewestAreKept
<1>1. SpareInv => NewestAreKept
  <2> SUFFICES ASSUME SpareInv, NEW r \in retired
               PROVE  History <= Cardinality({k \in Run \ retired :
                         /\ IsFinished(k) /\ Has(k, "complete") /\ ~Has(k, "deleting")
                         /\ Later(k, r)})
    BY DEF NewestAreKept
  <2> DEFINE Higher == {k \in Run \ retired :
                         /\ IsFinished(k) /\ Has(k, "complete") /\ ~Has(k, "deleting")
                         /\ Later(k, r)}
  <2>1. r \in Run /\ Spare(r) /\ order \in [Run -> Nat]
    BY DEF SpareInv
  <2>2. Newer(r) \subseteq Higher
    BY <2>1 DEF Newer, Kept
  <2>3. IsFiniteSet(Higher)
    <3>1. Higher \subseteq Traced
      BY DEF Traced, Has
    <3> QED
      BY <3>1, FS_Subset DEF SpareInv
  <2> QED
    BY <2>1, <2>2, <2>3, SpareGrows DEF Spare
<1> QED
  BY <1>1, InitSpare, SpareStep, Invariance, OrderInvariance, PTL DEF Spec
=============================================================================
