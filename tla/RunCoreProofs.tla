----------------------------- MODULE RunCoreProofs -----------------------------
(***************************************************************************)
(* What holds of a run for every size of flow, budget, batch and set of     *)
(* disturbances: the types, the batch bound, exact in-flight counting,      *)
(* quiescence, how a run ends, and the contract it keeps. The two in-flight *)
(* counters are integers at first; that they are never negative comes with  *)
(* exact counting.                                                          *)
(***************************************************************************)
EXTENDS RunCore, FiniteSetTheorems, SequenceTheorems, TLAPS

--------------------------------------------------------------------------------
(* The pieces of queue and ready built by the actions *)

LEMMA SlotIsFree ==
  ASSUME Live # Task
  PROVE  FreeSlot \in Task \ Live
BY DEF FreeSlot, Live

LEMMA AsSeqType ==
  ASSUME NEW T, NEW S \in SUBSET T
  PROVE  AsSeq(S) \in Seq(T)
<1>1. CASE S = {}
  BY <1>1, EmptySeq DEF AsSeq
<1>2. CASE S # {}
  <2>1. (CHOOSE x \in S : TRUE) \in T
    BY <1>2
  <2> QED
    BY <1>2, <2>1 DEF AsSeq
<1> QED
  BY <1>1, <1>2

LEMMA OrderType ==
  ASSUME NEW T, NEW S \in SUBSET T, IsFiniteSet(S), NEW order \in SetToSeqs(S)
  PROVE  order \in Seq(T)
<1>1. Cardinality(S) \in Nat
  BY FS_CardinalityType
<1>2. order \in [1 .. Cardinality(S) -> S]
  BY DEF SetToSeqs
<1> QED
  BY <1>1, <1>2, SeqDef

\* The type invariant in parts, without the signs of the in-flight counters.
SchedType ==
  /\ queue \in Seq(Item) /\ ready \in Seq(Handle)
  /\ inFlight \in Int /\ sent \in 0 .. Budget /\ exhausted \in BOOLEAN
  /\ batch \in 0 .. BatchSize
PumpType ==
  /\ pump \in {"new", "run", "get", "woken", "yield", "closing"}
  /\ interrupt \in {"none", "deadline", "caller"} /\ fatal \in Reason
  /\ cleanup \in {"none", "new", "gather", "done"} /\ gathered \subseteq Task
  /\ stopped \in {"no", "quiet", "halted"}
TreeType ==
  /\ frames \subseteq Frame /\ path \in [Frame -> SUBSET Frame]
  /\ cancelled \in [Frame -> BOOLEAN] /\ closed \in [Frame -> SUBSET Nat]
NoteType ==
  /\ frInFlight \in [Frame -> Int]
  /\ log \in Seq(Frame) /\ own \in [Frame -> SUBSET Nat]
EndType == endOpen \in [Frame -> BOOLEAN]
TaskType ==
  /\ pc \in [Task -> {"free"} \cup Waiting \cup Runnable]
  /\ frameOf \in [Task -> Frame] /\ childOf \in [Task -> Frame]
  /\ cancel \in [Task -> {"none", "ceiling", "frame"}]
  /\ stranded \in Nat
RunType ==
  /\ aborted \in BOOLEAN /\ late \in BOOLEAN /\ sinceAbort \in Nat
  /\ outcome \in {"none", "passed", "failed", "error", "aborted", "cancelled"}
TypeInv ==
  SchedType /\ PumpType /\ TreeType /\ NoteType /\ EndType /\ TaskType /\ RunType

LEMMA Bounds ==
  /\ MaxFrame \in Nat /\ MaxTask \in Nat \ {0} /\ MaxFan \in Nat
  /\ Budget \in Nat /\ BatchSize \in Nat \ {0} /\ RequiredEnd \subseteq BOOLEAN
  /\ Root \in Frame /\ Pump \in Handle /\ Cleanup \in Handle
  /\ Task \subseteq Handle /\ IsFiniteSet(Task) /\ IsFiniteSet(Frame)
<1>1. /\ MaxFrame \in Nat /\ MaxTask \in Nat \ {0} /\ MaxFan \in Nat
      /\ Budget \in Nat /\ BatchSize \in Nat \ {0} /\ RequiredEnd \subseteq BOOLEAN
  BY CoreAssumption
<1>2. IsFiniteSet(Task) /\ IsFiniteSet(Frame)
  BY <1>1, FS_Interval DEF Task, Frame
<1> QED
  BY <1>1, <1>2 DEF Root, Frame, Pump, Cleanup, Handle, Task

LEMMA RoomType ==
  ASSUME TypeInv, NEW k \in Nat
  PROVE  Room(k) \in Nat /\ sent + Room(k) \in 0 .. Budget
BY Bounds DEF TypeInv, SchedType, Room, Min2

LEMMA MsgsType ==
  ASSUME TypeInv, NEW f \in Frame, NEW k \in Nat
  PROVE  Msgs(f, k) \in Seq(Item)
<1>1. Room(k) \in Nat /\ sent + Room(k) \in 0 .. Budget /\ sent \in Nat
  <2>1. sent \in Nat
    BY DEF TypeInv, SchedType
  <2> QED
    BY <2>1, RoomType
<1>2. ASSUME NEW i \in 1 .. Room(k)
      PROVE  [tag |-> "msg", id |-> sent + i, frame |-> f] \in Item
  <2>1. sent + i \in 1 .. Budget
    BY <1>1, <1>2, Bounds
  <2> QED
    BY <2>1 DEF Item, Delivery
<1>3. Msgs(f, k) \in [1 .. Room(k) -> Item]
  BY <1>2 DEF Msgs
<1> QED
  BY <1>1, <1>3, SeqDef

LEMMA MarkTypes ==
  /\ \A why \in Reason : FatalMark(why) \in Seq(Item)
  /\ \A gain \in Int : QuietMark(gain) \in Seq(Item)
  /\ TimeoutMark \in Seq(Item) /\ AbortMark \in Seq(Item)
  /\ \A puts \in Seq(Item) : Notice(puts) \in Seq(Handle)
<1>1. <<Fatal>> \in Seq(Item) /\ <<Quiescent>> \in Seq(Item) /\ <<>> \in Seq(Item)
  BY DEF Item
<1>2. <<Pump>> \in Seq(Handle) /\ <<>> \in Seq(Handle)
  BY Bounds
<1> QED
  BY <1>1, <1>2 DEF FatalMark, QuietMark, TimeoutMark, AbortMark, Notice

LEMMA FiringEndsType ==
  ASSUME TypeInv, NEW t \in Task, NEW k \in Nat, NEW notes \in Seq(Frame),
         NEW why \in Reason, NEW V \in SUBSET Task, Runs(t),
         FiringEnds(t, k, notes, why, V)
  PROVE  SchedType' /\ PumpType' /\ NoteType' /\ EndType' /\ TaskType' /\ RunType'
<1> DEFINE f == frameOf[t]
           puts == Msgs(f, k) \o FatalMark(why) \o QuietMark(Room(k))
           done == Waiter(f, Room(k))
           roused == {u \in V : pc[u] = "child"}
<1>1. f \in Frame /\ frInFlight[f] \in Int
  BY DEF TypeInv, TaskType, NoteType
<1>2. Room(k) \in Nat /\ sent + Room(k) \in 0 .. Budget
  BY RoomType
<1>3. puts \in Seq(Item)
  <2>1. Msgs(f, k) \in Seq(Item)
    BY <1>1, MsgsType
  <2>2. FatalMark(why) \in Seq(Item) /\ QuietMark(Room(k)) \in Seq(Item)
    BY <1>2, MarkTypes
  <2>3. \A x, y, z \in Seq(Item) : x \o y \o z \in Seq(Item)
    BY ConcatProperties
  <2> QED
    BY ONLY <2>1, <2>2, <2>3
<1>4. Notice(puts) \in Seq(Handle) /\ PumpAfter(puts) \in {"woken", pump}
  BY <1>3, MarkTypes DEF PumpAfter
<1>5. done \subseteq Task /\ AsSeq(done) \in Seq(Handle)
  BY AsSeqType, Bounds DEF Waiter
<1>6. \A order \in SetToSeqs(roused) : order \in Seq(Handle)
  <2>1. roused \subseteq Handle /\ IsFiniteSet(roused)
    BY Bounds, FS_Subset
  <2> QED
    BY <2>1, OrderType
<1>7. Tail(ready) \in Seq(Handle)
  BY DEF Runs, TypeInv, SchedType
<1>8. queue' \in Seq(Item)
  BY <1>3 DEF FiringEnds, TypeInv, SchedType
<1>9. ready' \in Seq(Handle)
  BY <1>4, <1>5, <1>6, <1>7 DEF FiringEnds
<1>10. SchedType'
  BY <1>2, <1>8, <1>9, SMTT(30) DEF FiringEnds, TypeInv, SchedType, Settle, CountSent
<1>11. PumpType'
  BY <1>4 DEF FiringEnds, TypeInv, PumpType, SetFatal
<1>12. NoteType'
  <2>1. frInFlight' \in [Frame -> Int]
    BY <1>1, <1>2 DEF FiringEnds, TypeInv, NoteType, Settle
  <2>2. log' \in Seq(Frame)
    BY DEF FiringEnds, TypeInv, NoteType, Record
  <2>3. own' \in [Frame -> SUBSET Nat]
    BY DEF FiringEnds, TypeInv, NoteType, Record
  <2> QED
    BY <2>1, <2>2, <2>3 DEF NoteType
<1>13. TaskType'
  BY Bounds DEF FiringEnds, TypeInv, TaskType, Runnable
<1>14. EndType' /\ RunType'
  BY DEF FiringEnds, TypeInv, EndType, RunType, runVars
<1> QED
  BY <1>10, <1>11, <1>12, <1>13, <1>14

LEMMA ConsumeType ==
  ASSUME TypeInv, NEW f \in Frame, NEW k \in Nat, NEW S \in SUBSET Task,
         IsFiniteSet(S), pump = "run", queue # <<>>, batch # 0, Consume(f, k, S)
  PROVE  SchedType' /\ PumpType' /\ TreeType' /\ NoteType' /\ TaskType' /\ RunType'
<1> DEFINE gain == Room(k) + Cardinality(S)
           why == IF Over(k) THEN "budget_exhausted" ELSE "none"
           puts == Msgs(f, k) \o FatalMark(why) \o QuietMark(gain)
           done == Waiter(f, gain)
<1>1. Room(k) \in Nat /\ sent + Room(k) \in 0 .. Budget /\ gain \in Int
  <2>1. Cardinality(S) \in Nat
    BY FS_CardinalityType
  <2>2. Room(k) \in Nat /\ sent + Room(k) \in 0 .. Budget
    BY RoomType
  <2> QED
    BY <2>1, <2>2
<1>2. why \in Reason
  BY DEF Reason
<1>3. Tail(queue) \in Seq(Item)
  BY DEF TypeInv, SchedType
<1>4. queue' \in Seq(Item)
  <2>1. /\ Msgs(f, k) \in Seq(Item) /\ FatalMark(why) \in Seq(Item)
        /\ QuietMark(gain) \in Seq(Item)
    BY <1>1, <1>2, MsgsType, MarkTypes
  <2>2. queue' = Tail(queue) \o Msgs(f, k) \o FatalMark(why) \o QuietMark(gain)
    BY DEF Consume
  <2> QED
    BY <1>3, <2>1, <2>2
<1>5. AsSeq(S) \in Seq(Handle) /\ AsSeq(done) \in Seq(Handle) /\ <<Pump>> \in Seq(Handle)
  BY AsSeqType, Bounds DEF Waiter
<1>6. ready' \in Seq(Handle)
  BY <1>5 DEF Consume, TypeInv, SchedType
<1>7. SchedType'
  <2>1. inFlight' \in Int /\ sent' \in 0 .. Budget /\ exhausted' \in BOOLEAN
    BY <1>1 DEF Consume, TypeInv, SchedType, Settle, CountSent, Over
  <2>2. batch' \in 0 .. BatchSize
    BY Bounds DEF Consume, TypeInv, SchedType
  <2> QED
    BY <1>4, <1>6, <2>1, <2>2 DEF SchedType
<1>8. PumpType'
  BY <1>2 DEF Consume, TypeInv, PumpType, SetFatal
<1>9. NoteType' /\ TreeType'
  BY <1>1 DEF Consume, TypeInv, NoteType, TreeType, Settle
<1>10. TaskType'
  BY DEF Consume, TypeInv, TaskType, Runnable
<1>11. RunType'
  BY DEF Consume, TypeInv, RunType
<1> QED
  BY <1>7, <1>8, <1>9, <1>10, <1>11

\* SeedTasks and the slots and frames the actions choose.
LEMMA SeedTasksType ==
  ASSUME NEW S \in SeedTasks
  PROVE  S \in SUBSET (Task \ Live) /\ IsFiniteSet(S)
<1>1. CASE S = {}
  BY <1>1, FS_EmptySet
<1>2. CASE S # {}
  <2>1. S = {FreeSlot} /\ Live # Task
    BY <1>2 DEF SeedTasks
  <2> QED
    BY <2>1, SlotIsFree, FS_Singleton
<1> QED
  BY <1>1, <1>2

LEMMA NextFrameType ==
  ASSUME \E f \in Frame : path[f] = {}
  PROVE  NextFrame \in Frame /\ path[NextFrame] = {}
BY DEF NextFrame

LEMMA NodeErrorType ==
  ASSUME TypeInv, NEW t \in Task, NEW k \in Nat, NEW notes \in Seq(Frame),
         NEW V \in SUBSET Task, Runs(t), NodeError(t, k, notes, V)
  PROVE  SchedType' /\ PumpType' /\ NoteType' /\ EndType' /\ TaskType' /\ RunType'
<1>1. frameOf[t] \in Frame
  BY DEF TypeInv, TaskType
<1>2. notes \o (IF k = 0 THEN <<frameOf[t]>> ELSE <<>>) \in Seq(Frame)
  BY <1>1
<1>3. "none" \in Reason
  BY DEF Reason
<1> QED
  BY <1>2, <1>3, FiringEndsType DEF NodeError

LEMMA OpenFrameType ==
  ASSUME TypeInv, NEW f \in Frame, NEW above \in SUBSET Frame, OpenFrame(f, above)
  PROVE  /\ frames' \subseteq Frame /\ path' \in [Frame -> SUBSET Frame] /\ EndType'
         /\ path'[f] # {} /\ \A g \in Frame : path[g] # {} => path'[g] # {}
BY Bounds DEF OpenFrame, TypeInv, TreeType, EndType

LEMMA EntriesType ==
  ASSUME TypeInv, NEW c \in Frame, NEW notes \in Seq(Frame)
  PROVE  SubtreeEntries(c) \cup {Len(log) + i : i \in DOMAIN notes} \subseteq Nat
<1>1. Len(log) \in Nat /\ DOMAIN notes \subseteq Nat
  BY LenProperties DEF TypeInv, NoteType
<1>2. \A g \in Subtree(c) : g \in Frame /\ own[g] \subseteq Nat /\ closed[g] \subseteq Nat
  BY DEF Subtree, TypeInv, NoteType, TreeType
<1>3. SubtreeEntries(c) \subseteq Nat
  BY <1>2 DEF SubtreeEntries
<1> QED
  BY <1>1, <1>3

LEMMA TaskStepType ==
  ASSUME TypeInv, NEW t \in Task, TaskStep(t)
  PROVE  TypeInv'
<1> USE DEF TypeInv
<1>1. frameOf[t] \in Frame /\ childOf[t] \in Frame
  BY DEF TaskType
<1>2. ASSUME NEW n \in Nat, NEW f \in Frame
      PROVE  Times(n, f) \in Seq(Frame)
  <2>1. Times(n, f) \in [1 .. n -> Frame]
    BY DEF Times
  <2> QED
    BY <2>1, SeqDef
<1>3. ASSUME NEW f \in Frame
      PROVE  Unwritten(f) \in Seq(Frame) /\ <<f>> \in Seq(Frame)
  BY DEF Unwritten
<1>4. {"none", "budget_exhausted", "internal_error"} \subseteq Reason
  BY DEF Reason
<1>5. Victims(t) \in SUBSET Task
  BY DEF Victims, Live
<1>6. CancelDoomed(t) => cancelled' \in [Frame -> BOOLEAN]
  BY DEF CancelDoomed, TreeType
<1>7. 0 .. MaxFan \subseteq Nat
  BY Bounds
<1>10. CASE FiringAnswers(t)
  <2>1. PICK k \in 0 .. MaxFan, n \in 0 .. 2 :
          FiringEnds(t, k, Times(n, frameOf[t]),
                     IF Over(k) THEN "budget_exhausted" ELSE "none", {})
    BY <1>10 DEF FiringAnswers
  <2>2. Runs(t) /\ TreeType'
    BY <1>10 DEF FiringAnswers, Steps, TreeType
  <2>3. Times(n, frameOf[t]) \in Seq(Frame)
    BY <1>1, <1>2
  <2> QED
    BY <1>4, <1>7, <2>1, <2>2, <2>3, FiringEndsType
<1>11. CASE FiringErrs(t)
  <2>1. PICK k \in 0 .. MaxFan, n \in 0 .. 1 : NodeError(t, k, Times(n, frameOf[t]), {})
    BY <1>11 DEF FiringErrs
  <2>2. Runs(t) /\ TreeType'
    BY <1>11 DEF FiringErrs, Steps, TreeType
  <2>3. Times(n, frameOf[t]) \in Seq(Frame) /\ {} \in SUBSET Task
    BY <1>1, <1>2
  <2> QED
    BY <1>7, <2>1, <2>2, <2>3, NodeErrorType
<1>12. CASE FiringCrashes(t)
  <2>1. Runs(t) /\ TreeType' /\ FiringEnds(t, 0, <<>>, "internal_error", {})
    BY <1>12 DEF FiringCrashes, Steps, TreeType
  <2>2. <<>> \in Seq(Frame) /\ 0 \in Nat /\ {} \in SUBSET Task
    OBVIOUS
  <2> QED
    BY <1>4, <2>1, <2>2, FiringEndsType
<1>13. CASE FiringWaits(t)
  <2>1. SchedType' /\ TaskType'
    BY <1>13 DEF FiringWaits, SchedType, TaskType, Steps, Runs, Waiting
  <2> QED
    BY <1>13, <2>1 DEF FiringWaits, pumpVars, frameVars, runVars, PumpType, TreeType,
                       NoteType, EndType, RunType
<1>20. CASE FiringTimesOut(t)
  <2>1. PICK k \in 0 .. MaxFan : NodeError(t, k, <<>>, Victims(t))
    BY <1>20 DEF FiringTimesOut
  <2>2. Runs(t) /\ TreeType'
    BY <1>6, <1>20 DEF FiringTimesOut, TreeType
  <2>3. <<>> \in Seq(Frame)
    OBVIOUS
  <2> QED
    BY <1>5, <1>7, <2>1, <2>2, <2>3, NodeErrorType
<1>21. CASE FiringUnwinds(t)
  <2>1. Runs(t) /\ TreeType' /\ FiringEnds(t, 0, <<>>, "none", Victims(t))
    BY <1>6, <1>21 DEF FiringUnwinds, TreeType
  <2>2. <<>> \in Seq(Frame)
    OBVIOUS
  <2> QED
    BY <1>4, <1>5, <2>1, <2>2, FiringEndsType
<1>22. CASE FiringNeverStarts(t)
  <2>1. SchedType' /\ TaskType'
    BY <1>22, Bounds DEF FiringNeverStarts, SchedType, TaskType, Runs
  <2> QED
    BY <1>22, <2>1 DEF FiringNeverStarts, pumpVars, frameVars, runVars, PumpType,
                       TreeType, NoteType, EndType, RunType
<1>14. ASSUME NEW k \in 0 .. MaxFan, NEW S \in SeedTasks, FlowOpens(t, k, S)
       PROVE  TypeInv'
  <2> DEFINE c == NextFrame
             gain == k + Cardinality(S)
             puts == Msgs(c, k)
  <2>1. c \in Frame /\ S \subseteq Task /\ IsFiniteSet(S) /\ k \in Nat
    BY <1>7, <1>14, NextFrameType, SeedTasksType DEF FlowOpens
  <2>2. gain \in Int
    <3>1. Cardinality(S) \in Nat
      BY <2>1, FS_CardinalityType
    <3> QED
      BY <2>1, <3>1
  <2>3. puts \in Seq(Item) /\ Notice(puts) \in Seq(Handle) /\ AsSeq(S) \in Seq(Handle)
    BY <2>1, MsgsType, MarkTypes, AsSeqType, Bounds
  <2>4. OpenFrame(c, path[frameOf[t]]) /\ path[frameOf[t]] \in SUBSET Frame
    BY <1>1, <1>14 DEF FlowOpens, TreeType
  <2>5. TreeType' /\ EndType'
    BY <1>14, <2>1, <2>4, OpenFrameType DEF FlowOpens, TreeType
  <2>6. queue' \in Seq(Item) /\ ready' \in Seq(Handle)
    BY <1>14, <2>3 DEF FlowOpens, SchedType, Steps, Runs
  <2>7. sent' \in 0 .. Budget /\ exhausted' \in BOOLEAN
    BY <1>14, <2>1, RoomType DEF FlowOpens, CountSent, SchedType, Over
  <2>8. SchedType'
    BY <1>14, <2>2, <2>6, <2>7 DEF FlowOpens, SchedType
  <2>9. NoteType'
    BY <1>14, <2>2 DEF FlowOpens, NoteType
  <2>10. TaskType'
    BY <1>14, <2>1 DEF FlowOpens, TaskType, Waiting, Runnable
  <2>11. PumpType' /\ RunType'
    BY <1>14 DEF FlowOpens, PumpType, PumpAfter, RunType, runVars
  <2> QED
    BY <2>5, <2>8, <2>9, <2>10, <2>11
<1>15. ASSUME NEW k \in 1 .. MaxFan, FlowOverspends(t, k)
       PROVE  TypeInv'
  <2> DEFINE c == NextFrame
             f == frameOf[t]
             puts == Msgs(c, k) \o <<Fatal>>
             done == Waiter(f, 0)
  <2>1. c \in Frame /\ k \in Nat
    <3>1. k \in Nat
      BY Bounds
    <3> QED
      BY <1>15, <3>1, NextFrameType DEF FlowOverspends
  <2>2. Room(k) \in Nat /\ sent + Room(k) \in 0 .. Budget
    BY <2>1, RoomType
  <2>3. puts \in Seq(Item) /\ QuietMark(Room(k)) \in Seq(Item)
    <3>1. Msgs(c, k) \in Seq(Item) /\ <<Fatal>> \in Seq(Item)
      BY <2>1, MsgsType DEF Item
    <3>2. QuietMark(Room(k)) \in Seq(Item)
      BY <2>2, MarkTypes
    <3> QED
      BY <3>1, <3>2
  <2>4. Notice(puts) \in Seq(Handle)
    BY <2>3, MarkTypes
  <2>5. done \subseteq Task /\ AsSeq(done) \in Seq(Handle)
    BY AsSeqType, Bounds DEF Waiter
  <2>6. OpenFrame(c, path[f]) /\ path[f] \in SUBSET Frame
    BY <1>1, <1>15 DEF FlowOverspends, TreeType
  <2>7. TreeType' /\ EndType'
    BY <1>15, <2>1, <2>6, OpenFrameType DEF FlowOverspends, TreeType
  <2>8. queue' \in Seq(Item) /\ ready' \in Seq(Handle)
    BY <1>15, <2>3, <2>4, <2>5 DEF FlowOverspends, SchedType, Steps, Runs
  <2>9. SchedType'
    BY <1>15, <2>2, <2>8, SMTT(30) DEF FlowOverspends, CountSent, SchedType, Over
  <2>10. NoteType'
    BY <1>1, <1>15, <2>2 DEF FlowOverspends, NoteType
  <2>11. TaskType'
    BY <1>15, Bounds DEF FlowOverspends, TaskType, Runnable
  <2>12. PumpType' /\ RunType'
    BY <1>15 DEF FlowOverspends, SetFatal, Reason, PumpType, PumpAfter, RunType, runVars
  <2> QED
    BY <2>7, <2>9, <2>10, <2>11, <2>12
<1>16. CASE FlowReturns(t)
  <2> DEFINE c == childOf[t]
             f == frameOf[t]
             unwritten == Unwritten(c)
             entries == SubtreeEntries(c) \cup {Len(log) + i : i \in DOMAIN unwritten}
  <2>1. PICK k \in 0 .. MaxFan, unwired \in BOOLEAN :
          /\ FiringEnds(t, k,
                        unwritten \o (IF unwired /\ ~Over(k) THEN <<f>> ELSE <<>>),
                        IF Over(k) THEN "budget_exhausted" ELSE "none", {})
          /\ closed' = [closed EXCEPT ![f] = @ \cup entries]
          /\ frames' = frames \ Subtree(c)
    BY <1>16 DEF FlowReturns
  <2>2. unwritten \in Seq(Frame)
    BY <1>1, <1>3
  <2>3. unwritten \o (IF unwired /\ ~Over(k) THEN <<f>> ELSE <<>>) \in Seq(Frame)
    BY <1>1, <1>3, <2>2
  <2>4. Runs(t) /\ path' = path /\ cancelled' = cancelled
    BY <1>16 DEF FlowReturns, Steps
  <2>5. entries \subseteq Nat
    BY <1>1, <2>2, EntriesType
  <2>6. closed' \in [Frame -> SUBSET Nat]
    BY <1>1, <2>1, <2>5 DEF TreeType
  <2>7. TreeType'
    BY <2>1, <2>4, <2>6 DEF TreeType
  <2>8. {} \in SUBSET Task
    OBVIOUS
  <2> QED
    BY <1>4, <1>7, <2>1, <2>3, <2>4, <2>7, <2>8, FiringEndsType
<1>17. CASE FlowReturnsAtOnce(t)
  <2> DEFINE c == NextFrame
             f == frameOf[t]
             unwritten(required) == Times(IF required THEN 1 ELSE 0, c)
  <2>1. PICK k \in 0 .. MaxFan, required \in RequiredEnd, unwired \in BOOLEAN :
          /\ FiringEnds(t, k, unwritten(required)
                              \o (IF unwired /\ ~Over(k) THEN <<f>> ELSE <<>>),
                        IF Over(k) THEN "budget_exhausted" ELSE "none", {})
          /\ path' = [path EXCEPT ![c] = path[f] \cup {c}]
          /\ closed' = [closed EXCEPT ![f] = @ \cup {Len(log) + i :
                                                     i \in DOMAIN unwritten(required)}]
    BY <1>17 DEF FlowReturnsAtOnce
  <2>2. c \in Frame /\ Runs(t) /\ frames' = frames /\ cancelled' = cancelled
    BY <1>17, NextFrameType DEF FlowReturnsAtOnce, Steps
  <2>3. unwritten(required) \in Seq(Frame)
    BY <1>2, <2>2
  <2>4. unwritten(required) \o (IF unwired /\ ~Over(k) THEN <<f>> ELSE <<>>)
          \in Seq(Frame)
    BY <1>1, <1>3, <2>3
  <2>5. {Len(log) + i : i \in DOMAIN unwritten(required)} \subseteq Nat
    BY <2>2, <2>3, EntriesType
  <2>6. path' \in [Frame -> SUBSET Frame] /\ closed' \in [Frame -> SUBSET Nat]
    BY <1>1, <2>1, <2>2, <2>5 DEF TreeType
  <2>7. TreeType'
    BY <2>2, <2>6 DEF TreeType
  <2>8. {} \in SUBSET Task
    OBVIOUS
  <2> QED
    BY <1>4, <1>7, <2>1, <2>2, <2>4, <2>7, <2>8, FiringEndsType
<1> QED
  BY <1>10, <1>11, <1>12, <1>13, <1>14, <1>15, <1>16, <1>17, <1>20, <1>21, <1>22
     DEF TaskStep

\* The batch counter is positive while deliveries may be consumed, and an
\* abort leaves at most the rest of the batch.
BatchInv ==
  /\ pump \in {"run", "get", "woken"} => batch # 0
  /\ ~aborted \/ pump = "new" => sinceAbort = 0
  /\ sinceAbort + batch <= BatchSize

LEMMA PumpStepType ==
  ASSUME TypeInv, BatchInv, PumpStep
  PROVE  TypeInv'
<1> USE DEF TypeInv
<1>1. {"none", "bind_error", "budget_exhausted", "run_timeout"} \subseteq Reason
  BY DEF Reason
<1>2. 0 .. MaxFan \subseteq Nat /\ 1 .. MaxFan \subseteq Nat
  BY Bounds
<1>3. \A h \in Handle : Append(ready, h) \in Seq(Handle)
  BY DEF SchedType
<1>4. ready # <<>> => /\ Tail(ready) \in Seq(Handle)
                      /\ \A h \in Handle : Append(Tail(ready), h) \in Seq(Handle)
  BY DEF SchedType
<1>5. \A f \in Frame : Delivers(f) => /\ pump = "run" /\ queue # <<>> /\ batch # 0
  BY DEF Delivers, BatchInv
<1>6. {} \in SUBSET Task /\ IsFiniteSet({}) /\ 0 \in Nat
  BY FS_EmptySet
<1>7. ASSUME NEW q \in Seq(Item)
      PROVE  q \o <<>> \in Seq(Item) /\ q \o TimeoutMark \in Seq(Item)
  <2>1. q \o <<>> = q
    BY ConcatEmptySeq
  <2> QED
    BY <2>1, MarkTypes
<1>10. CASE BindFails
  <2>1. SchedType'
    BY <1>4, <1>10, Bounds DEF BindFails, Runs, SchedType
  <2> QED
    BY <1>1, <1>10, <2>1 DEF BindFails, LeavePump, frameVars, taskVars, runVars, PumpType,
                       TreeType, NoteType, EndType, TaskType, RunType
<1>11. ASSUME NEW k \in 0 .. MaxFan, NEW S \in SeedTasks, SeedRoot(k, S)
       PROVE  TypeInv'
  <2> DEFINE new == IF Over(k) THEN {} ELSE S
             gain == Room(k) + Cardinality(new)
             why == IF Over(k) THEN "budget_exhausted" ELSE "none"
  <2>1. new \subseteq Task /\ IsFiniteSet(new) /\ k \in Nat
    BY <1>2, <1>6, SeedTasksType
  <2>2. Room(k) \in Nat /\ sent + Room(k) \in 0 .. Budget
    BY <2>1, RoomType
  <2>3. gain \in Int
    <3>1. Cardinality(new) \in Nat
      BY <2>1, FS_CardinalityType
    <3> QED
      BY <2>2, <3>1
  <2>4. queue' \in Seq(Item)
    <3>1. queue' = queue \o Msgs(Root, k) \o FatalMark(why)
      BY <1>11 DEF SeedRoot
    <3>2. Msgs(Root, k) \in Seq(Item) /\ FatalMark(why) \in Seq(Item)
      BY <1>1, <2>1, Bounds, MsgsType, MarkTypes
    <3> QED
      BY <3>1, <3>2 DEF SchedType
  <2>5. ready' \in Seq(Handle)
    <3>1. AsSeq(new) \in Seq(Handle) /\ <<Cleanup>> \in Seq(Handle)
      BY <2>1, AsSeqType, Bounds
    <3>2. \/ ready' = Tail(ready) \o AsSeq(new)
          \/ ready' = Tail(ready) \o AsSeq(new) \o <<Cleanup>>
      BY <1>11 DEF SeedRoot
    <3>3. Tail(ready) \in Seq(Handle)
      BY <1>4, <1>11 DEF SeedRoot, Runs
    <3>4. \A r, s, u \in Seq(Handle) : r \o s \in Seq(Handle) /\ r \o s \o u \in Seq(Handle)
      OBVIOUS
    <3> HIDE DEF new
    <3> QED
      BY <3>1, <3>2, <3>3, <3>4
  <2>6. SchedType'
    <3>1. sent' \in 0 .. Budget /\ exhausted' \in BOOLEAN
      BY <1>11, <2>2 DEF SeedRoot, SchedType, CountSent, Over
    <3>2. inFlight' \in Int
      BY <1>11, <2>3 DEF SeedRoot
    <3>3. batch' \in 0 .. BatchSize
      <4>1. batch' = batch \/ batch' = BatchSize
        BY <1>11 DEF SeedRoot
      <4> QED
        BY <4>1, Bounds DEF SchedType
    <3> QED
      BY <2>4, <2>5, <3>1, <3>2, <3>3 DEF SchedType
  <2>7. PumpType'
    BY <1>11 DEF SeedRoot, PumpType, LeavePump, SetFatal, Reason
  <2>8. TreeType' /\ EndType'
    <3>1. OpenFrame(Root, {}) /\ {} \in SUBSET Frame
      BY <1>11 DEF SeedRoot
    <3> QED
      BY <1>11, <3>1, OpenFrameType, Bounds DEF SeedRoot, TreeType
  <2>9. TaskType'
    BY <1>11, <2>1, Bounds DEF SeedRoot, Spawn, TaskType, Runnable
  <2>10. NoteType' /\ RunType'
    BY <1>11, <2>3 DEF SeedRoot, NoteType, RunType, runVars
  <2> QED
    BY <2>6, <2>7, <2>8, <2>9, <2>10
<1>12. ASSUME NEW f \in Frame, NEW k \in Nat, NEW S \in SUBSET Task,
              IsFiniteSet(S), Delivers(f), Consume(f, k, S), EndType'
       PROVE  TypeInv'
  BY <1>5, <1>12, ConsumeType
<1>13. ASSUME NEW f \in Frame, PumpSkips(f) \/ PumpAbsorbs(f) \/ PumpWritesEnd(f)
       PROVE  TypeInv'
  <2>1. Delivers(f) /\ Consume(f, 0, {})
    BY <1>13 DEF PumpSkips, PumpAbsorbs, PumpWritesEnd
  <2>2. EndType'
    BY <1>13 DEF PumpSkips, PumpAbsorbs, PumpWritesEnd, EndType
  <2> QED
    BY <1>6, <1>12, <2>1, <2>2
<1>14. ASSUME NEW f \in Frame, NEW k \in 1 .. MaxFan, PumpFiresInline(f, k)
       PROVE  TypeInv'
  BY <1>2, <1>6, <1>12, <1>14 DEF PumpFiresInline, EndType
<1>15. ASSUME NEW f \in Frame, PumpSpawns(f)
       PROVE  TypeInv'
  <2>1. {FreeSlot} \in SUBSET Task /\ IsFiniteSet({FreeSlot})
    BY <1>15, SlotIsFree, FS_Singleton DEF PumpSpawns
  <2>2. Delivers(f) /\ Consume(f, 0, {FreeSlot}) /\ EndType'
    BY <1>15 DEF PumpSpawns, EndType
  <2> QED
    BY <1>6, <1>12, <2>1, <2>2
<1>16. CASE PumpBlocks
  BY <1>16 DEF PumpBlocks, schedVars, frameVars, taskVars, runVars, SchedType,
               PumpType, TreeType, NoteType, EndType, TaskType, RunType
<1>17. CASE PumpStops
  <2>1. queue' \in Seq(Item)
    <3>1. queue' = Tail(queue) \o TimeoutMark \/ queue' = Tail(queue) \o <<>>
      BY <1>17 DEF PumpStops
    <3>2. Tail(queue) \in Seq(Item)
      BY <1>17 DEF PumpStops, SchedType
    <3> QED
      BY <1>7, <3>1, <3>2
  <2>2. SchedType'
    BY <1>3, <1>17, <2>1, Bounds DEF PumpStops, SchedType
  <2>3. PumpType'
    BY <1>1, <1>17 DEF PumpStops, LeavePump, SetFatal, PumpType
  <2> QED
    BY <1>17, <2>2, <2>3 DEF PumpStops, frameVars, taskVars, runVars, TreeType,
                             NoteType, EndType, TaskType, RunType
<1>18. CASE PumpResumes
  <2>1. SchedType'
    BY <1>4, <1>18, Bounds DEF PumpResumes, Runs, SchedType
  <2> QED
    BY <1>18, <2>1 DEF PumpResumes, frameVars, taskVars, runVars, PumpType, TreeType,
                       NoteType, EndType, TaskType, RunType
<1>19. CASE PumpGivesUp \/ PumpInterrupted
  <2>1. queue' \in Seq(Item)
    <3>1. queue' = queue \o TimeoutMark \/ queue' = queue \o <<>>
      BY <1>19 DEF PumpGivesUp, PumpInterrupted
    <3> QED
      BY <1>7, <3>1 DEF SchedType
  <2>2. SchedType'
    BY <1>4, <1>19, <2>1, Bounds DEF PumpGivesUp, PumpInterrupted, Runs, SchedType
  <2>3. PumpType'
    BY <1>1, <1>19 DEF PumpGivesUp, PumpInterrupted, LeavePump, SetFatal, PumpType
  <2> QED
    BY <1>19, <2>2, <2>3 DEF PumpGivesUp, PumpInterrupted, frameVars, taskVars, runVars,
                             TreeType, NoteType, EndType, TaskType, RunType
<1> QED
  BY <1>10, <1>11, <1>13, <1>14, <1>15, <1>16, <1>17, <1>18, <1>19 DEF PumpStep

LEMMA OtherStepType ==
  ASSUME TypeInv,
         \/ CleanupStarts \/ DeadlineFires \/ CleanupEnds \/ Finalize
         \/ \E t \in Task : IoEnds(t) \/ CeilingTrips(t)
         \/ Abort \/ ClockPasses \/ CallerCancels
  PROVE  TypeInv'
<1> USE DEF TypeInv
<1>1. \A h \in Handle : Append(ready, h) \in Seq(Handle)
  BY DEF SchedType
<1>2. CASE CleanupStarts
  <2> DEFINE roused == {t \in Task : pc[t] = "child"}
  <2>1. roused \subseteq Handle /\ IsFiniteSet(roused)
    BY Bounds, FS_Subset
  <2>2. PICK order \in SetToSeqs(roused) : ready' = Tail(ready) \o order
    BY <1>2 DEF CleanupStarts
  <2>3. order \in Seq(Handle)
    BY <2>1, OrderType
  <2>4. SchedType'
    <3>1. Tail(ready) \in Seq(Handle)
      BY <1>2 DEF CleanupStarts, Runs, SchedType
    <3>2. ready' \in Seq(Handle)
      BY <2>2, <2>3, <3>1
    <3> QED
      BY <1>2, <3>2 DEF CleanupStarts, SchedType
  <2>5. TaskType'
    BY <1>2 DEF CleanupStarts, TaskType, Runnable
  <2> QED
    BY <1>2, <2>4, <2>5 DEF CleanupStarts, frameVars, runVars, PumpType, TreeType,
                            NoteType, EndType, RunType, Live
<1>3. CASE DeadlineFires \/ CallerCancels
  <2>1. SchedType'
    BY <1>1, <1>3, Bounds DEF DeadlineFires, CallerCancels, Interrupts, SchedType
  <2> QED
    BY <1>3, <2>1 DEF DeadlineFires, CallerCancels, Interrupts, frameVars, taskVars,
             runVars, PumpType, TreeType, NoteType, EndType, TaskType, RunType
<1>4. CASE CleanupEnds
  BY <1>4 DEF CleanupEnds, schedVars, frameVars, taskVars, runVars, SchedType, PumpType,
              TreeType, NoteType, EndType, TaskType, RunType
<1>8. CASE ClockPasses
  BY <1>8 DEF ClockPasses, schedVars, pumpVars, frameVars, taskVars, SchedType, PumpType,
              TreeType, NoteType, EndType, TaskType, RunType
<1>5. CASE Finalize
  <2> DEFINE unwritten == IF Root \in frames /\ interrupt # "caller"
                          THEN Unwritten(Root) ELSE <<>>
  <2>1. unwritten \in Seq(Frame)
    BY Bounds DEF Unwritten
  <2>2. NoteType'
    <3>1. Record(unwritten) /\ frInFlight' = frInFlight
      BY <1>5 DEF Finalize
    <3>2. log' \in Seq(Frame)
      BY <2>1, <3>1 DEF Record, NoteType
    <3>3. own' \in [Frame -> SUBSET Nat]
      BY <2>1, <3>1 DEF Record, NoteType
    <3> QED
      BY <3>1, <3>2, <3>3 DEF NoteType
  <2>3. RunType'
    BY <1>5 DEF Finalize, RunType
  <2> QED
    BY <1>5, <2>2, <2>3 DEF Finalize, schedVars, pumpVars, taskVars, SchedType, PumpType,
                            TreeType, EndType, TaskType
<1>6. ASSUME NEW t \in Task, IoEnds(t) \/ CeilingTrips(t)
      PROVE  TypeInv'
  <2>1. SchedType'
    BY <1>1, <1>6, Bounds DEF IoEnds, CeilingTrips, SchedType
  <2>2. TaskType'
    BY <1>6 DEF IoEnds, CeilingTrips, TaskType, Runnable
  <2> QED
    BY <1>6, <2>1, <2>2 DEF IoEnds, CeilingTrips, pumpVars, frameVars, runVars, PumpType,
                            TreeType, NoteType, EndType, RunType
<1>7. CASE Abort
  <2>1. queue' \in Seq(Item) /\ ready' \in Seq(Handle)
    BY <1>7, MarkTypes DEF Abort, SchedType
  <2> QED
    BY <1>7, <2>1 DEF Abort, PumpAfter, frameVars, taskVars, SchedType, PumpType,
                      TreeType, NoteType, EndType, TaskType, RunType
<1> QED
  BY <1>2, <1>3, <1>4, <1>5, <1>6, <1>7, <1>8

LEMMA InitType ==
  ASSUME Init
  PROVE  TypeInv /\ BatchInv
<1>1. queue \in Seq(Item) /\ log \in Seq(Frame)
  BY DEF Init
<1>2. SchedType
  <2>1. ready \in Seq(Handle)
    BY Bounds DEF Init
  <2>2. sent \in 0 .. Budget /\ batch \in 0 .. BatchSize
    <3>1. sent = 0 /\ batch = 0
      BY DEF Init
    <3> QED
      BY <3>1, Bounds
  <2>3. inFlight \in Int /\ exhausted \in BOOLEAN
    <3>1. inFlight = 0
      BY DEF Init
    <3>2. exhausted \in BOOLEAN
      BY Zenon DEF Init
    <3> QED
      BY <3>1, <3>2
  <2> QED
    BY <1>1, <2>1, <2>2, <2>3 DEF SchedType
<1>3. PumpType /\ EndType /\ RunType
  BY DEF Init, PumpType, EndType, RunType, Reason
<1>4. TreeType
  BY DEF Init, TreeType
<1>5. NoteType
  BY <1>1 DEF Init, NoteType
<1>6. TaskType
  BY Bounds DEF Init, TaskType
<1>7. BatchInv
  BY Bounds DEF Init, BatchInv
<1> QED
  BY <1>2, <1>3, <1>4, <1>5, <1>6, <1>7 DEF TypeInv

LEMMA StepType ==
  ASSUME TypeInv, BatchInv, [Next]_vars
  PROVE  TypeInv'
<1>1. CASE UNCHANGED vars
  BY <1>1 DEF vars, schedVars, pumpVars, frameVars, taskVars, runVars, TypeInv, SchedType,
              PumpType, TreeType, NoteType, EndType, TaskType, RunType
<1>2. CASE Next
  BY <1>1, <1>2, TaskStepType, PumpStepType, OtherStepType
     DEF Next, LoopStep, Disturb, Finished
<1> QED
  BY <1>1, <1>2

LEMMA StepBatch ==
  ASSUME TypeInv, BatchInv, [Next]_vars
  PROVE  BatchInv'
<1> USE Bounds DEF BatchInv
<1>1. batch \in Nat /\ sinceAbort \in Nat /\ aborted \in BOOLEAN
  BY DEF TypeInv, SchedType, RunType
<1>2. ASSUME NEW f \in Frame, NEW k \in Nat, NEW S \in SUBSET Task, Consume(f, k, S),
             pump = "run"
      PROVE  BatchInv'
  BY <1>1, <1>2 DEF Consume
<1>3. CASE PumpStep
  <2>1. ASSUME NEW k \in 0 .. MaxFan, NEW S \in SeedTasks, SeedRoot(k, S)
        PROVE  BatchInv'
    <3>1. \/ pump' = "closing" /\ batch' = batch
          \/ pump' = "run" /\ batch' = BatchSize /\ pump = "new"
      BY <2>1 DEF SeedRoot, LeavePump
    <3>2. sinceAbort' = sinceAbort /\ aborted' = aborted
      BY <2>1 DEF SeedRoot, runVars
    <3> QED
      BY <1>1, <3>1, <3>2
  <2>2. ASSUME NEW f \in Frame, PumpSkips(f) \/ PumpAbsorbs(f) \/ PumpWritesEnd(f)
        PROVE  BatchInv'
    BY <1>2, <2>2 DEF PumpSkips, PumpAbsorbs, PumpWritesEnd, Delivers
  <2>3. ASSUME NEW f \in Frame, PumpSpawns(f)
        PROVE  BatchInv'
    BY <1>2, <2>3, SlotIsFree DEF PumpSpawns, Delivers
  <2>4. ASSUME NEW f \in Frame, NEW k \in 1 .. MaxFan, PumpFiresInline(f, k)
        PROVE  BatchInv'
    BY <1>2, <2>4 DEF PumpFiresInline, Delivers
  <2>5. CASE BindFails \/ PumpStops \/ PumpGivesUp \/ PumpInterrupted
    BY <1>1, <2>5 DEF BindFails, PumpStops, PumpGivesUp, PumpInterrupted, LeavePump, runVars
  <2>6. CASE PumpBlocks
    BY <1>1, <2>6 DEF PumpBlocks, schedVars, runVars
  <2>7. CASE PumpResumes
    BY <1>1, <2>7 DEF PumpResumes, MustStop, runVars
  <2> QED
    BY <1>3, <2>1, <2>2, <2>3, <2>4, <2>5, <2>6, <2>7 DEF PumpStep
<1>4. ASSUME NEW t \in Task, TaskStep(t)
      PROVE  BatchInv'
  <2>1. ASSUME NEW k, NEW notes, NEW why, NEW V, FiringEnds(t, k, notes, why, V)
        PROVE  BatchInv'
    BY <1>1, <2>1 DEF FiringEnds, PumpAfter, runVars
  <2>2. CASE FiringAnswers(t) \/ FiringErrs(t) \/ FiringCrashes(t) \/ FlowReturns(t)
             \/ FlowReturnsAtOnce(t) \/ FiringTimesOut(t) \/ FiringUnwinds(t)
    BY <2>1, <2>2 DEF FiringAnswers, FiringErrs, FiringCrashes, FlowReturns,
                      FlowReturnsAtOnce, FiringTimesOut, FiringUnwinds, NodeError
  <2>3. CASE FiringWaits(t) \/ FiringNeverStarts(t)
    BY <1>1, <2>3 DEF FiringWaits, FiringNeverStarts, pumpVars, runVars
  <2>4. CASE \E k \in 0 .. MaxFan, S \in SeedTasks : FlowOpens(t, k, S)
    BY <1>1, <2>4 DEF FlowOpens, PumpAfter, runVars
  <2>5. CASE \E k \in 1 .. MaxFan : FlowOverspends(t, k)
    BY <1>1, <2>5 DEF FlowOverspends, PumpAfter, runVars
  <2> QED
    BY <1>4, <2>2, <2>3, <2>4, <2>5 DEF TaskStep
<1>5. CASE CleanupStarts \/ CleanupEnds \/ ClockPasses \/ Finalize
  BY <1>1, <1>5 DEF CleanupStarts, CleanupEnds, ClockPasses, Finalize, schedVars, pumpVars,
                    runVars
<1>6. CASE DeadlineFires \/ CallerCancels
  BY <1>1, <1>6 DEF DeadlineFires, CallerCancels, Interrupts, runVars
<1>7. CASE Abort
  BY <1>1, <1>7 DEF Abort, PumpAfter
<1>8. CASE \E t \in Task : IoEnds(t) \/ CeilingTrips(t)
  BY <1>1, <1>8 DEF IoEnds, CeilingTrips, pumpVars, runVars
<1>9. CASE UNCHANGED vars
  BY <1>9 DEF vars, schedVars, pumpVars, runVars
<1> QED
  BY <1>3, <1>4, <1>5, <1>6, <1>7, <1>8, <1>9 DEF Next, LoopStep, Disturb, Finished

LEMMA TypingInvariant == Spec => [](TypeInv /\ BatchInv)
<1>1. TypeInv /\ BatchInv /\ [Next]_vars => (TypeInv /\ BatchInv)'
  BY StepType, StepBatch
<1> QED
  BY <1>1, InitType, PTL DEF Spec

\* After abort() at most one more batch of deliveries is consumed, whatever the
\* flow and the batch size (engine.py: _READY_BATCH_SIZE and the control point
\* in _pump).
THEOREM AbortIsPromptAlways == Spec => []AbortIsPrompt
<1>1. TypeInv /\ BatchInv => AbortIsPrompt
  BY Bounds DEF TypeInv, SchedType, RunType, BatchInv, AbortIsPrompt
<1> QED
  BY <1>1, TypingInvariant, PTL

--------------------------------------------------------------------------------
(* The messages in a queue *)

\* The ids of the messages of q that belong to frames of F.
MsgAt(q, F) == {i \in DOMAIN q : q[i].tag = "msg" /\ q[i].frame \in F}
Ids(q, F) == {q[i].id : i \in MsgAt(q, F)}

\* Ids rise along the queue and stay within 1 .. n.
Ordered(q, n) ==
  /\ \A i \in DOMAIN q : q[i].tag = "msg" => q[i].id \in 1 .. n
  /\ \A i, j \in DOMAIN q : q[i].tag = "msg" /\ q[j].tag = "msg" /\ i < j
                              => q[i].id < q[j].id

Silent(q) == \A i \in DOMAIN q : q[i].tag # "msg"

LEMMA ItemFields ==
  ASSUME NEW q \in Seq(Item), NEW i \in DOMAIN q
  PROVE  /\ q[i] \in Item
         /\ q[i].tag = "msg" => q[i].id \in 1 .. Budget /\ q[i].frame \in Frame
<1>1. q[i] \in Item
  BY ElementOfSeq, LenProperties
<1> QED
  BY <1>1 DEF Item, Delivery, Quiescent, Fatal

LEMMA MarksSilent ==
  /\ \A why : Silent(FatalMark(why))
  /\ \A gain : Silent(QuietMark(gain))
  /\ Silent(TimeoutMark) /\ Silent(AbortMark) /\ Silent(<<>>) /\ Silent(<<Fatal>>)
BY DEF Silent, FatalMark, QuietMark, TimeoutMark, AbortMark, Fatal, Quiescent

LEMMA SilentAppend ==
  ASSUME NEW q \in Seq(Item), NEW m \in Seq(Item), Silent(m), NEW F, NEW n \in Nat
  PROVE  /\ q \o m \in Seq(Item)
         /\ Ids(q \o m, F) = Ids(q, F)
         /\ Ordered(q, n) => Ordered(q \o m, n)
<1>1. /\ q \o m \in Seq(Item) /\ DOMAIN (q \o m) = 1 .. Len(q) + Len(m)
      /\ DOMAIN q = 1 .. Len(q) /\ DOMAIN m = 1 .. Len(m)
      /\ Len(q) \in Nat /\ Len(m) \in Nat
  BY ConcatProperties, LenProperties
<1>2. \A i \in DOMAIN (q \o m) :
        (q \o m)[i] = IF i <= Len(q) THEN q[i] ELSE m[i - Len(q)]
  BY <1>1, ConcatProperties
<1>3. \A i \in DOMAIN (q \o m) : i > Len(q) => (q \o m)[i].tag # "msg"
  BY <1>1, <1>2 DEF Silent
<1>4. MsgAt(q \o m, F) = MsgAt(q, F)
  BY <1>1, <1>2, <1>3 DEF MsgAt
<1>5. Ids(q \o m, F) = Ids(q, F)
  BY <1>1, <1>2, <1>4 DEF Ids, MsgAt
<1>6. Ordered(q, n) => Ordered(q \o m, n)
  BY <1>1, <1>2, <1>3 DEF Ordered
<1> QED
  BY <1>1, <1>5, <1>6

\* Appending n messages of frame f with consecutive ids.
LEMMA RisingAppend ==
  ASSUME NEW q \in Seq(Item), NEW s \in Nat, NEW n \in Nat, Ordered(q, s), NEW f, NEW F,
         NEW m \in Seq(Item), Len(m) = n,
         \A i \in 1 .. n : m[i].tag = "msg" /\ m[i].id = s + i /\ m[i].frame = f
  PROVE  /\ q \o m \in Seq(Item) /\ Ordered(q \o m, s + n)
         /\ f \in F => Ids(q \o m, F) = Ids(q, F) \cup (s + 1 .. s + n)
         /\ f \notin F => Ids(q \o m, F) = Ids(q, F)
<1> DEFINE r == q \o m
           L == Len(q)
<1>1. /\ r \in Seq(Item) /\ Len(r) = L + n /\ L \in Nat
      /\ DOMAIN r = 1 .. L + n /\ DOMAIN q = 1 .. L
  <2>1. r \in Seq(Item) /\ Len(r) = L + Len(m)
    BY ConcatProperties
  <2>2. DOMAIN r = 1 .. Len(r) /\ DOMAIN q = 1 .. L /\ L \in Nat
    BY <2>1, LenProperties
  <2> QED
    BY <2>1, <2>2
<1>2. \A i \in 1 .. L : r[i] = q[i]
  BY <1>1, ConcatProperties
<1>3. \A i \in 1 .. L + n :
        i > L => r[i].tag = "msg" /\ r[i].id = s + (i - L) /\ r[i].frame = f
  <2>1. ASSUME NEW i \in 1 .. L + n, i > L
        PROVE  r[i].tag = "msg" /\ r[i].id = s + (i - L) /\ r[i].frame = f
    <3>1. r[i] = m[i - L] /\ i - L \in 1 .. n
      BY <1>1, <2>1, ConcatProperties
    <3> QED
      BY <3>1
  <2> QED
    BY <2>1
<1> HIDE DEF r, L
<1>4. Ordered(r, s + n)
  <2>1. \A i \in 1 .. L : r[i].tag = "msg" => r[i].id \in 1 .. s
    BY <1>1, <1>2 DEF Ordered
  <2>2. \A i \in DOMAIN r : r[i].tag = "msg" => r[i].id \in 1 .. s + n
    <3>1. ASSUME NEW i \in 1 .. L + n, r[i].tag = "msg"
          PROVE  r[i].id \in 1 .. s + n
      <4>1. CASE i <= L
        <5>1. r[i].id \in 1 .. s
          BY <1>1, <2>1, <3>1, <4>1
        <5> QED
          BY <5>1
      <4>2. CASE i > L
        <5>1. r[i].id = s + (i - L)
          BY <1>3, <4>2
        <5> QED
          BY <1>1, <4>2, <5>1
      <4> QED
        BY <1>1, <4>1, <4>2
    <3> QED
      BY <1>1, <3>1
  <2>3. ASSUME NEW i \in 1 .. L + n, NEW j \in 1 .. L + n, r[i].tag = "msg",
               r[j].tag = "msg", i < j
        PROVE  r[i].id < r[j].id
    <3>1. CASE j <= L
      <4>1. i \in 1 .. L /\ j \in 1 .. L
        BY <1>1, <2>3, <3>1
      <4> QED
        BY <1>1, <1>2, <2>3, <4>1 DEF Ordered
    <3>2. CASE j > L /\ i <= L
      <4>1. r[j].id = s + (j - L) /\ r[i].id \in 1 .. s
        BY <1>1, <1>3, <2>1, <2>3, <3>2
      <4> QED
        BY <1>1, <3>2, <4>1
    <3>3. CASE j > L /\ i > L
      <4>1. r[j].id = s + (j - L) /\ r[i].id = s + (i - L)
        BY <1>3, <3>3
      <4> QED
        BY <1>1, <2>3, <4>1
    <3> QED
      BY <1>1, <3>1, <3>2, <3>3
  <2> QED
    BY <1>1, <2>2, <2>3 DEF Ordered
<1>5. \A i \in 1 .. L : i \in MsgAt(r, F) <=> i \in MsgAt(q, F)
  BY <1>1, <1>2 DEF MsgAt
<1>6. CASE f \in F
  <2>1. \A x \in Ids(r, F) : x \in Ids(q, F) \/ x \in s + 1 .. s + n
    <3>1. ASSUME NEW i \in MsgAt(r, F)
          PROVE  r[i].id \in Ids(q, F) \/ r[i].id \in s + 1 .. s + n
      <4>1. i \in 1 .. L + n
        BY <1>1, <3>1 DEF MsgAt
      <4>2. CASE i <= L
        <5>1. i \in 1 .. L /\ i \in MsgAt(q, F) /\ r[i] = q[i]
          BY <1>1, <1>2, <1>5, <3>1, <4>1, <4>2
        <5> QED
          BY <5>1 DEF Ids
      <4>3. CASE i > L
        <5>1. r[i].id = s + (i - L)
          BY <1>3, <4>1, <4>3
        <5> QED
          BY <1>1, <4>1, <4>3, <5>1
      <4> QED
        BY <1>1, <4>1, <4>2, <4>3
    <3> QED
      BY <3>1 DEF Ids
  <2>2. \A x \in Ids(q, F) : x \in Ids(r, F)
    <3>1. \A i \in MsgAt(q, F) : i \in MsgAt(r, F) /\ r[i] = q[i]
      BY <1>1, <1>2, <1>5 DEF MsgAt
    <3> QED
      BY <3>1 DEF Ids
  <2>3. ASSUME NEW x \in s + 1 .. s + n
        PROVE  x \in Ids(r, F)
    <3> DEFINE i == L + (x - s)
    <3>1. i \in 1 .. L + n /\ i > L /\ s + (i - L) = x
      BY <1>1
    <3>2. r[i].id = x /\ i \in MsgAt(r, F)
      BY <1>1, <1>3, <1>6, <3>1 DEF MsgAt
    <3> QED
      BY <3>2 DEF Ids
  <2>4. Ids(r, F) = Ids(q, F) \cup (s + 1 .. s + n)
    BY <2>1, <2>2, <2>3
  <2> QED
    BY <1>1, <1>4, <1>6, <2>4 DEF r
<1>7. CASE f \notin F
  <2>1. \A i \in 1 .. L + n : i > L => i \notin MsgAt(r, F)
    BY <1>3, <1>7 DEF MsgAt
  <2>2. MsgAt(r, F) = MsgAt(q, F)
    <3>1. \A i \in MsgAt(r, F) : i \in 1 .. L /\ i \in MsgAt(q, F)
      <4>1. ASSUME NEW i \in MsgAt(r, F)
            PROVE  i \in 1 .. L /\ i \in MsgAt(q, F)
        <5>1. i \in 1 .. L + n
          BY <1>1, <4>1 DEF MsgAt
        <5>2. i \in 1 .. L
          BY <1>1, <2>1, <4>1, <5>1
        <5> QED
          BY <1>5, <4>1, <5>2
      <4> QED
        BY <4>1
    <3>2. \A i \in MsgAt(q, F) : i \in MsgAt(r, F)
      BY <1>1, <1>5 DEF MsgAt
    <3> QED
      BY <3>1, <3>2
  <2>3. \A i \in MsgAt(q, F) : r[i] = q[i]
    BY <1>1, <1>2 DEF MsgAt
  <2>4. Ids(r, F) = Ids(q, F)
    BY <2>2, <2>3 DEF Ids
  <2> QED
    BY <1>1, <1>4, <1>7, <2>4 DEF r
<1> QED
  BY <1>6, <1>7

LEMMA MsgsAppend ==
  ASSUME TypeInv, NEW q \in Seq(Item), Ordered(q, sent), NEW f \in Frame, NEW k \in Nat,
         NEW F
  PROVE  /\ q \o Msgs(f, k) \in Seq(Item)
         /\ Ordered(q \o Msgs(f, k), sent + Room(k))
         /\ f \in F => Ids(q \o Msgs(f, k), F) = Ids(q, F) \cup (sent + 1 .. sent + Room(k))
         /\ f \notin F => Ids(q \o Msgs(f, k), F) = Ids(q, F)
<1>1. sent \in Nat
  BY DEF TypeInv, SchedType
<1>2. Room(k) \in Nat /\ Msgs(f, k) \in Seq(Item)
  BY RoomType, MsgsType
<1> DEFINE m == Msgs(f, k)
           n == Room(k)
<1>3. /\ Len(m) = n
      /\ \A i \in 1 .. n : m[i].tag = "msg" /\ m[i].id = sent + i /\ m[i].frame = f
  BY <1>2 DEF Msgs
<1>4. m \in Seq(Item) /\ n \in Nat
  BY <1>2
<1> HIDE DEF m, n
<1>5. /\ q \o m \in Seq(Item) /\ Ordered(q \o m, sent + n)
      /\ f \in F => Ids(q \o m, F) = Ids(q, F) \cup (sent + 1 .. sent + n)
      /\ f \notin F => Ids(q \o m, F) = Ids(q, F)
  BY <1>1, <1>3, <1>4, RisingAppend
<1> QED
  BY <1>5 DEF m, n

LEMMA TailIds ==
  ASSUME NEW q \in Seq(Item), q # <<>>, NEW n \in Nat, Ordered(q, n), NEW F
  PROVE  /\ Tail(q) \in Seq(Item) /\ Ordered(Tail(q), n)
         /\ Head(q).tag = "msg" /\ Head(q).frame \in F =>
              /\ Head(q).id \in Ids(q, F)
              /\ Ids(Tail(q), F) = Ids(q, F) \ {Head(q).id}
         /\ ~(Head(q).tag = "msg" /\ Head(q).frame \in F) => Ids(Tail(q), F) = Ids(q, F)
<1> DEFINE r == Tail(q)
           L == Len(q)
<1>1. /\ r \in Seq(Item) /\ DOMAIN q = 1 .. L /\ L \in Nat \ {0}
      /\ DOMAIN r = 1 .. L - 1 /\ \A i \in 1 .. L - 1 : r[i] = q[i + 1]
  BY HeadTailProperties, LenProperties, EmptySeq
<1>2. Head(q) = q[1]
  OBVIOUS
<1> HIDE DEF r, L
<1>3. Ordered(r, n)
  <2>1. \A i \in 1 .. L - 1 : i + 1 \in DOMAIN q
    BY <1>1
  <2>2. \A i \in DOMAIN r : r[i].tag = "msg" => r[i].id \in 1 .. n
    BY <1>1, <2>1 DEF Ordered
  <2>3. ASSUME NEW i \in 1 .. L - 1, NEW j \in 1 .. L - 1, r[i].tag = "msg",
               r[j].tag = "msg", i < j
        PROVE  r[i].id < r[j].id
    <3>1. r[i] = q[i + 1] /\ r[j] = q[j + 1] /\ i + 1 < j + 1
      BY <1>1, <2>3
    <3> QED
      BY <2>1, <2>3, <3>1 DEF Ordered
  <2> QED
    BY <1>1, <2>2, <2>3 DEF Ordered
<1>4. \A x : x \in Ids(r, F) <=> \E i \in 2 .. L : i \in MsgAt(q, F) /\ x = q[i].id
  <2>1. ASSUME NEW i \in 2 .. L, i \in MsgAt(q, F)
        PROVE  q[i].id \in Ids(r, F)
    <3>1. i - 1 \in DOMAIN r /\ r[i - 1] = q[i]
      BY <1>1
    <3> QED
      BY <2>1, <3>1 DEF Ids, MsgAt
  <2>2. ASSUME NEW i \in MsgAt(r, F)
        PROVE  \E j \in 2 .. L : j \in MsgAt(q, F) /\ r[i].id = q[j].id
    <3>1. i + 1 \in 2 .. L /\ i + 1 \in DOMAIN q /\ r[i] = q[i + 1]
      BY <1>1 DEF MsgAt
    <3> QED
      BY <2>2, <3>1 DEF MsgAt
  <2> QED
    BY <2>1, <2>2 DEF Ids
<1>5. \A x : x \in Ids(q, F) <=> \/ \E i \in 2 .. L : i \in MsgAt(q, F) /\ x = q[i].id
                                 \/ 1 \in MsgAt(q, F) /\ x = q[1].id
  <2>1. \A i \in MsgAt(q, F) : i \in 2 .. L \/ i = 1
    BY <1>1 DEF MsgAt
  <2> QED
    BY <2>1 DEF Ids
<1>6. CASE Head(q).tag = "msg" /\ Head(q).frame \in F
  <2>1. 1 \in MsgAt(q, F)
    BY <1>1, <1>2, <1>6 DEF MsgAt
  <2>2. \A i \in 2 .. L : i \in MsgAt(q, F) => q[i].id # q[1].id
    BY <1>1, <2>1 DEF MsgAt, Ordered
  <2>3. Ids(r, F) = Ids(q, F) \ {q[1].id} /\ q[1].id \in Ids(q, F)
    BY <1>4, <1>5, <2>1, <2>2
  <2> QED
    BY <1>1, <1>2, <1>3, <1>6, <2>3 DEF r
<1>7. CASE ~(Head(q).tag = "msg" /\ Head(q).frame \in F)
  <2>1. 1 \notin MsgAt(q, F)
    BY <1>2, <1>7 DEF MsgAt
  <2> QED
    BY <1>1, <1>3, <1>4, <1>5, <1>7, <2>1 DEF r
<1> QED
  BY <1>6, <1>7

LEMMA IdsFinite ==
  ASSUME NEW q, NEW n \in Nat, Ordered(q, n), NEW F
  PROVE  /\ Ids(q, F) \subseteq 1 .. n /\ IsFiniteSet(Ids(q, F))
         /\ Cardinality(Ids(q, F)) \in Nat
<1>1. Ids(q, F) \subseteq 1 .. n
  BY DEF Ids, MsgAt, Ordered
<1>2. IsFiniteSet(1 .. n)
  BY FS_Interval
<1>3. IsFiniteSet(Ids(q, F))
  BY <1>1, <1>2, FS_Subset
<1> QED
  BY <1>1, <1>3, FS_CardinalityType

\* Putting an emission on k edges into a queue, alone or with two sentinels.
LEMMA EmissionGain ==
  ASSUME TypeInv, NEW q \in Seq(Item), Ordered(q, sent), NEW f \in Frame, NEW k \in Nat,
         NEW F
  PROVE  /\ q \o Msgs(f, k) \in Seq(Item)
         /\ Ordered(q \o Msgs(f, k), sent + Room(k))
         /\ Cardinality(Ids(q \o Msgs(f, k), F))
              = Cardinality(Ids(q, F)) + (IF f \in F THEN Room(k) ELSE 0)
<1> DEFINE r == q \o Msgs(f, k)
           n == sent + Room(k)
           I == Ids(q, F)
           J == sent + 1 .. n
<1>1. sent \in Nat
  BY DEF TypeInv, SchedType
<1>2. Room(k) \in Nat
  BY RoomType
<1>3. n \in Nat /\ n = sent + Room(k)
  BY <1>1, <1>2
<1>4. /\ r \in Seq(Item) /\ Ordered(r, n)
      /\ f \in F => Ids(r, F) = I \cup J
      /\ f \notin F => Ids(r, F) = I
  BY MsgsAppend
<1> HIDE DEF r, n
<1>5. I \subseteq 1 .. sent /\ IsFiniteSet(I) /\ Cardinality(I) \in Nat
  BY <1>1, IdsFinite
<1>6. CASE f \notin F
  <2>1. Cardinality(Ids(r, F)) = Cardinality(I) + 0
    BY <1>4, <1>5, <1>6
  <2> QED
    BY <1>3, <1>4, <1>6, <2>1 DEF r
<1>7. CASE f \in F
  <2>1. IsFiniteSet(J) /\ Cardinality(J) = IF sent + 1 > n THEN 0 ELSE n - (sent + 1) + 1
    <3>1. sent + 1 \in Int /\ n \in Int
      BY <1>1, <1>3
    <3> QED
      BY <3>1, FS_Interval
  <2>2. Cardinality(J) = Room(k)
    <3> HIDE DEF J
    <3> QED
      BY <1>1, <1>2, <1>3, <2>1
  <2>3. I \cap J = {}
    BY <1>1, <1>3, <1>5
  <2>4. Cardinality(I \cap J) = 0
    BY <2>3, FS_EmptySet
  <2> HIDE DEF I, J
  <2>5. Cardinality(I \cup J) = Cardinality(I) + Cardinality(J) - Cardinality(I \cap J)
    BY <1>5, <2>1, FS_Union
  <2>6. Cardinality(I \cup J) = Cardinality(I) + Room(k)
    BY <1>2, <1>5, <2>2, <2>4, <2>5
  <2>7. Cardinality(Ids(r, F)) = Cardinality(I) + Room(k)
    BY <1>4, <1>7, <2>6
  <2> QED
    BY <1>3, <1>4, <1>7, <2>7 DEF r, I
<1> QED
  BY <1>6, <1>7

LEMMA QueueGain ==
  ASSUME TypeInv, NEW q \in Seq(Item), Ordered(q, sent), NEW f \in Frame, NEW k \in Nat,
         NEW F, NEW m1 \in Seq(Item), Silent(m1), NEW m2 \in Seq(Item), Silent(m2)
  PROVE  /\ Ordered(q \o Msgs(f, k) \o m1 \o m2, sent + Room(k))
         /\ Cardinality(Ids(q \o Msgs(f, k) \o m1 \o m2, F))
              = Cardinality(Ids(q, F)) + (IF f \in F THEN Room(k) ELSE 0)
<1> DEFINE r == q \o Msgs(f, k)
           n == sent + Room(k)
<1>1. n \in Nat
  <2>1. sent \in Nat
    BY DEF TypeInv, SchedType
  <2>2. Room(k) \in Nat
    BY RoomType
  <2> QED
    BY <2>1, <2>2
<1>2. /\ r \in Seq(Item) /\ Ordered(r, n)
      /\ Cardinality(Ids(r, F)) = Cardinality(Ids(q, F)) + (IF f \in F THEN Room(k) ELSE 0)
  BY EmissionGain
<1> HIDE DEF r, n
<1>3. /\ r \o m1 \in Seq(Item) /\ Ids(r \o m1, F) = Ids(r, F) /\ Ordered(r \o m1, n)
  BY <1>1, <1>2, SilentAppend
<1>4. /\ Ids(r \o m1 \o m2, F) = Ids(r, F) /\ Ordered(r \o m1 \o m2, n)
  BY <1>1, <1>3, SilentAppend, ZenonT(40)
<1> QED
  BY <1>2, <1>4 DEF r, n

--------------------------------------------------------------------------------
(* Exact in-flight counting *)

\* The unfinished firings in frames of F, and the work queued or firing there.
LiveIn(F) == {t \in Task : pc[t] # "free" /\ frameOf[t] \in F}
Load(F) == Cardinality(Ids(queue, F)) + Cardinality(LiveIn(F))

\* _in_flight is exact; Frame.in_flight is never too small (a task cancelled
\* before its first step leaves it too large).
CountInv ==
  /\ Ordered(queue, sent)
  /\ inFlight = Load(Frame) + stranded
  /\ \A f \in Frame : frInFlight[f] >= Load({f})

LEMMA LoadType ==
  ASSUME TypeInv, Ordered(queue, sent), NEW F
  PROVE  /\ Cardinality(Ids(queue, F)) \in Nat /\ Cardinality(LiveIn(F)) \in Nat
         /\ IsFiniteSet(Ids(queue, F)) /\ IsFiniteSet(LiveIn(F)) /\ Load(F) \in Nat
<1>1. sent \in Nat
  BY DEF TypeInv, SchedType
<1>2. IsFiniteSet(LiveIn(F))
  BY Bounds, FS_Subset DEF LiveIn
<1>3. Cardinality(LiveIn(F)) \in Nat
  BY <1>2, FS_CardinalityType
<1>4. Cardinality(Ids(queue, F)) \in Nat /\ IsFiniteSet(Ids(queue, F))
  BY <1>1, IdsFinite
<1> QED
  BY <1>2, <1>3, <1>4 DEF Load

\* What a step does to the load of any set of frames when it adds gain units of
\* work to frame f: the counters follow.
LEMMA CountStep ==
  ASSUME TypeInv, TypeInv', CountInv, Ordered(queue, sent)', NEW f \in Frame,
         NEW gain \in Int, inFlight' = inFlight + gain,
         stranded' = stranded, frInFlight' = [frInFlight EXCEPT ![f] = @ + gain],
         \A F : Load(F)' = Load(F) + (IF f \in F THEN gain ELSE 0)
  PROVE  CountInv'
<1>1. inFlight' = Load(Frame)' + stranded'
  <2>1. Load(Frame)' = Load(Frame) + gain
    OBVIOUS
  <2>2. Load(Frame) \in Nat /\ stranded \in Nat /\ inFlight = Load(Frame) + stranded
    BY LoadType DEF CountInv, TypeInv, TaskType
  <2> QED
    BY <2>1, <2>2
<1>2. ASSUME NEW g \in Frame
      PROVE  frInFlight'[g] >= Load({g})'
  <2>1. Load({g}) \in Nat /\ frInFlight[g] \in Int /\ frInFlight[g] >= Load({g})
    BY LoadType DEF CountInv, TypeInv, NoteType
  <2>2. CASE g = f
    <3>1. Load({g})' = Load({g}) + gain /\ frInFlight'[g] = frInFlight[g] + gain
      BY <2>2 DEF TypeInv, NoteType
    <3> QED
      BY <2>1, <3>1
  <2>3. CASE g # f
    <3>1. Load({g})' = Load({g}) + 0 /\ frInFlight'[g] = frInFlight[g]
      BY <2>3 DEF TypeInv, NoteType
    <3> QED
      BY <2>1, <3>1
  <2> QED
    BY <2>2, <2>3
<1> QED
  BY <1>1, <1>2 DEF CountInv

LEMMA FiringEndsCount ==
  ASSUME TypeInv, TypeInv', CountInv, NEW t \in Task, pc[t] # "free", NEW k \in Nat,
         NEW notes, NEW why \in Reason, NEW V \in SUBSET Live,
         FiringEnds(t, k, notes, why, V)
  PROVE  CountInv'
<1> DEFINE f == frameOf[t]
           gain == Room(k) - 1
<1>1. f \in Frame /\ Room(k) \in Nat /\ sent \in Nat /\ gain \in Int
  <2>1. f \in Frame /\ sent \in Nat
    BY DEF TypeInv, TaskType, SchedType
  <2>2. Room(k) \in Nat
    BY RoomType
  <2> QED
    BY <2>1, <2>2
<1>2. /\ FatalMark(why) \in Seq(Item) /\ Silent(FatalMark(why))
      /\ QuietMark(Room(k)) \in Seq(Item) /\ Silent(QuietMark(Room(k)))
  BY <1>1, MarkTypes, MarksSilent
<1>3. queue \in Seq(Item) /\ Ordered(queue, sent)
  BY DEF TypeInv, SchedType, CountInv
<1>4. /\ queue' = queue \o (Msgs(f, k) \o FatalMark(why) \o QuietMark(Room(k)))
      /\ sent' = sent + Room(k) /\ stranded' = stranded
      /\ inFlight' = inFlight + Room(k) - 1
      /\ frInFlight' = [frInFlight EXCEPT ![f] = @ + Room(k) - 1]
  BY DEF FiringEnds, CountSent, Settle
<1>5. /\ queue' = queue \o Msgs(f, k) \o FatalMark(why) \o QuietMark(Room(k))
      /\ Ordered(queue', sent')
      /\ \A F : Cardinality(Ids(queue', F))
                  = Cardinality(Ids(queue, F)) + (IF f \in F THEN Room(k) ELSE 0)
  <2> DEFINE r == queue \o Msgs(f, k) \o FatalMark(why) \o QuietMark(Room(k))
  <2>1. ASSUME NEW F
        PROVE  /\ Ordered(r, sent + Room(k))
               /\ Cardinality(Ids(r, F))
                    = Cardinality(Ids(queue, F)) + (IF f \in F THEN Room(k) ELSE 0)
    BY <1>1, <1>2, <1>3, QueueGain
  <2>2. r = queue'
    <3> DEFINE q == queue
               m == Msgs(f, k)
               a == FatalMark(why)
               b == QuietMark(Room(k))
               p == m \o a
    <3>1. q \in Seq(Item) /\ m \in Seq(Item) /\ a \in Seq(Item) /\ b \in Seq(Item)
      BY <1>1, <1>2, <1>3, MsgsType
    <3> HIDE DEF q, m, a, b
    <3>2. p \in Seq(Item)
      BY <3>1
    <3>3. (q \o m) \o a = q \o p
      BY <3>1, ConcatAssociative, SMTT(30)
    <3> HIDE DEF p
    <3>4. (q \o p) \o b = q \o (p \o b)
      BY <3>1, <3>2, ConcatAssociative, SMTT(30)
    <3> QED
      BY <1>4, <3>3, <3>4 DEF q, m, a, b, p
  <2> HIDE DEF r
  <2>3. /\ Ordered(r, sent + Room(k))
        /\ \A F : Cardinality(Ids(r, F))
                    = Cardinality(Ids(queue, F)) + (IF f \in F THEN Room(k) ELSE 0)
    BY <2>1
  <2> QED
    BY <1>4, <2>2, <2>3 DEF r
<1>6. \A F : LiveIn(F)' = LiveIn(F) \ {t}
  <2>1. \A u \in Task : u # t => /\ frameOf'[u] = frameOf[u]
                                 /\ pc'[u] = "free" <=> pc[u] = "free"
    BY DEF FiringEnds, Waiter, Live, TypeInv, TaskType
  <2>2. pc'[t] = "free"
    BY DEF FiringEnds, TypeInv, TaskType
  <2> QED
    BY <2>1, <2>2 DEF LiveIn
<1>7. ASSUME NEW F
      PROVE  Load(F)' = Load(F) + (IF f \in F THEN gain ELSE 0)
  <2>1. /\ Cardinality(Ids(queue, F)) \in Nat /\ Cardinality(LiveIn(F)) \in Nat
        /\ IsFiniteSet(LiveIn(F))
    BY <1>3, LoadType
  <2>2. Cardinality(LiveIn(F) \ {t})
          = IF t \in LiveIn(F) THEN Cardinality(LiveIn(F)) - 1 ELSE Cardinality(LiveIn(F))
    BY <2>1, FS_RemoveElement
  <2>3. t \in LiveIn(F) <=> f \in F
    BY DEF LiveIn
  <2>4. Load(F)' = Cardinality(Ids(queue', F)) + Cardinality(LiveIn(F) \ {t})
    BY <1>6 DEF Load
  <2>5. Cardinality(Ids(queue', F))
          = Cardinality(Ids(queue, F)) + (IF f \in F THEN Room(k) ELSE 0)
    BY <1>5
  <2>6. Load(F) = Cardinality(Ids(queue, F)) + Cardinality(LiveIn(F))
    BY DEF Load
  <2> QED
    BY <1>1, <2>1, <2>2, <2>3, <2>4, <2>5, <2>6
<1>8. /\ inFlight' = inFlight + gain
      /\ frInFlight' = [frInFlight EXCEPT ![f] = @ + gain]
  <2>1. inFlight \in Int /\ frInFlight \in [Frame -> Int]
    BY DEF TypeInv, SchedType, NoteType
  <2> QED
    BY <1>1, <1>4, <2>1
<1> HIDE DEF f, gain
<1> QED
  BY <1>1, <1>3, <1>4, <1>5, <1>7, <1>8, CountStep

LEMMA DisjointCard ==
  ASSUME NEW A, NEW S, IsFiniteSet(A), IsFiniteSet(S), A \cap S = {}
  PROVE  Cardinality(A \cup S) = Cardinality(A) + Cardinality(S)
<1>1. Cardinality(A) \in Nat /\ Cardinality(S) \in Nat
  BY FS_CardinalityType
<1>2. Cardinality(A \cap S) = 0
  BY FS_EmptySet
<1>3. Cardinality(A \cup S) = Cardinality(A) + Cardinality(S) - Cardinality(A \cap S)
  BY FS_Union
<1> QED
  BY <1>1, <1>2, <1>3

LEMMA ConsumeCount ==
  ASSUME TypeInv, TypeInv', CountInv, NEW f \in Frame, NEW k \in Nat,
         NEW S \in SUBSET (Task \ Live), IsFiniteSet(S), Delivers(f), Consume(f, k, S)
  PROVE  CountInv'
<1> DEFINE n == Cardinality(S)
           gain == Room(k) + n - 1
           why == IF Over(k) THEN "budget_exhausted" ELSE "none"
           q == Tail(queue)
           q0 == queue
<1>1. Room(k) \in Nat /\ sent \in Nat /\ n \in Nat /\ gain \in Int
  <2>1. sent \in Nat
    BY DEF TypeInv, SchedType
  <2>2. Room(k) \in Nat
    BY RoomType
  <2>3. n \in Nat
    BY FS_CardinalityType
  <2> QED
    BY <2>1, <2>2, <2>3
<1>2. /\ FatalMark(why) \in Seq(Item) /\ Silent(FatalMark(why))
      /\ QuietMark(Room(k) + n) \in Seq(Item) /\ Silent(QuietMark(Room(k) + n))
  <2>1. why \in Reason /\ Room(k) + n \in Int
    BY <1>1 DEF Reason
  <2> QED
    BY <2>1, MarkTypes, MarksSilent
<1>3. /\ queue \in Seq(Item) /\ Ordered(queue, sent) /\ queue # <<>>
      /\ Head(queue).tag = "msg" /\ Head(queue).frame = f
  BY DEF TypeInv, SchedType, CountInv, Delivers
<1>4. /\ queue' = q \o Msgs(f, k) \o FatalMark(why) \o QuietMark(Room(k) + n)
      /\ sent' = sent + Room(k) /\ stranded' = stranded
      /\ inFlight' = inFlight + (Room(k) + n) - 1
      /\ frInFlight' = [frInFlight EXCEPT ![f] = @ + (Room(k) + n) - 1]
  BY DEF Consume, CountSent, Settle
<1>5. /\ q \in Seq(Item) /\ Ordered(q, sent)
      /\ \A F : f \in F => /\ Head(q0).id \in Ids(q0, F)
                           /\ Ids(q, F) = Ids(q0, F) \ {Head(q0).id}
      /\ \A F : f \notin F => Ids(q, F) = Ids(q0, F)
  BY <1>1, <1>3, TailIds
<1> HIDE DEF q
<1>6. /\ Ordered(queue', sent')
      /\ \A F : Cardinality(Ids(queue', F))
                  = Cardinality(Ids(q, F)) + (IF f \in F THEN Room(k) ELSE 0)
  BY <1>1, <1>2, <1>4, <1>5, QueueGain
<1>7. ASSUME NEW F
      PROVE  Cardinality(Ids(q, F)) = Cardinality(Ids(q0, F)) - (IF f \in F THEN 1 ELSE 0)
  <2>1. IsFiniteSet(Ids(q0, F)) /\ Cardinality(Ids(q0, F)) \in Nat
    BY <1>3, LoadType
  <2>2. CASE f \in F
    BY <1>5, <2>1, <2>2, FS_RemoveElement
  <2>3. CASE f \notin F
    BY <1>5, <2>1, <2>3
  <2> QED
    BY <2>2, <2>3
<1>8. ASSUME NEW F
      PROVE  Cardinality(LiveIn(F)') = Cardinality(LiveIn(F)) + (IF f \in F THEN n ELSE 0)
  <2>1. \A u \in Task \ S : frameOf'[u] = frameOf[u] /\ (pc'[u] = "free" <=> pc[u] = "free")
    BY DEF Consume, Waiter, TypeInv, TaskType
  <2>2. \A u \in S : pc'[u] # "free" /\ frameOf'[u] = f
    BY DEF Consume, TypeInv, TaskType
  <2>4. f \in F => LiveIn(F)' = LiveIn(F) \cup S /\ LiveIn(F) \cap S = {}
    BY <2>1, <2>2 DEF LiveIn, Live
  <2>5. f \notin F => LiveIn(F)' = LiveIn(F)
    BY <2>1, <2>2 DEF LiveIn, Live
  <2>6. IsFiniteSet(LiveIn(F)) /\ Cardinality(LiveIn(F)) \in Nat
    BY <1>3, LoadType
  <2>7. CASE f \in F
    BY <2>4, <2>6, <2>7, DisjointCard
  <2>8. CASE f \notin F
    BY <2>5, <2>6, <2>8
  <2> QED
    BY <2>7, <2>8
<1>9. ASSUME NEW F
      PROVE  Load(F)' = Load(F) + (IF f \in F THEN gain ELSE 0)
  <2>1. /\ Cardinality(Ids(q0, F)) \in Nat /\ Cardinality(LiveIn(F)) \in Nat
    BY <1>3, LoadType
  <2>2. Load(F)' = Cardinality(Ids(queue', F)) + Cardinality(LiveIn(F)')
    BY DEF Load
  <2>3. Load(F) = Cardinality(Ids(q0, F)) + Cardinality(LiveIn(F))
    BY DEF Load
  <2>4. Cardinality(Ids(queue', F))
          = Cardinality(Ids(q, F)) + (IF f \in F THEN Room(k) ELSE 0)
    BY <1>6
  <2> QED
    BY <1>1, <1>7, <1>8, <2>1, <2>2, <2>3, <2>4
<1>10. /\ inFlight' = inFlight + gain
       /\ frInFlight' = [frInFlight EXCEPT ![f] = @ + gain]
  <2>1. inFlight \in Int /\ frInFlight[f] \in Int
    BY DEF TypeInv, SchedType, NoteType
  <2> HIDE DEF n
  <2>2. inFlight + (Room(k) + n) - 1 = inFlight + gain
    BY <1>1, <2>1
  <2>3. frInFlight[f] + (Room(k) + n) - 1 = frInFlight[f] + gain
    BY <1>1, <2>1
  <2> QED
    BY <1>4, <2>2, <2>3
<1> HIDE DEF gain
<1> QED
  BY <1>1, <1>3, <1>4, <1>6, <1>9, <1>10, CountStep

\* A frame that was never opened has no work; before seeding there is none.
UnopenedInv ==
  /\ \A f \in Frame : path[f] = {} => frInFlight[f] = 0
  /\ pump = "new" => inFlight = 0 /\ path[Root] = {}

LEMMA FlowOpensCount ==
  ASSUME TypeInv, TypeInv', CountInv, UnopenedInv, NEW t \in Task, NEW k \in Nat,
         NEW S \in SUBSET (Task \ Live), IsFiniteSet(S), FlowOpens(t, k, S)
  PROVE  CountInv'
<1> DEFINE c == NextFrame
           n == Cardinality(S)
           gain == k + n
<1>1. /\ c \in Frame /\ frInFlight[c] = 0 /\ sent \in Nat /\ n \in Nat /\ gain \in Int
      /\ Room(k) = k
  <2>1. c \in Frame /\ path[c] = {}
    BY NextFrameType DEF FlowOpens
  <2>2. n \in Nat
    BY FS_CardinalityType
  <2>3. sent \in Nat
    BY DEF TypeInv, SchedType
  <2>4. Room(k) = k
    BY <2>3, Bounds DEF Room, Min2, FlowOpens, Over
  <2> QED
    BY <2>1, <2>2, <2>3, <2>4 DEF UnopenedInv
<1>2. queue \in Seq(Item) /\ Ordered(queue, sent)
  BY DEF TypeInv, SchedType, CountInv
<1>3. /\ queue' = queue \o Msgs(c, k) /\ sent' = sent + Room(k) /\ stranded' = stranded
      /\ inFlight' = inFlight + gain
      /\ frInFlight' = [frInFlight EXCEPT ![c] = gain]
  BY DEF FlowOpens, CountSent
<1>4. frInFlight' = [frInFlight EXCEPT ![c] = @ + gain]
  <2> HIDE DEF c, gain
  <2>1. frInFlight[c] + gain = gain
    BY <1>1
  <2> QED
    BY <1>3, <2>1
<1>5. /\ Ordered(queue', sent')
      /\ \A F : Cardinality(Ids(queue', F))
                  = Cardinality(Ids(queue, F)) + (IF c \in F THEN k ELSE 0)
  <2> DEFINE r == queue \o Msgs(c, k)
  <2>1. /\ Ordered(r, sent + Room(k))
        /\ \A F : Cardinality(Ids(r, F))
                    = Cardinality(Ids(queue, F)) + (IF c \in F THEN Room(k) ELSE 0)
    <3>1. c \in Frame
      BY <1>1
    <3> HIDE DEF c
    <3> QED
      BY <1>2, <3>1, EmissionGain
  <2>2. queue' = r /\ sent' = sent + Room(k) /\ Room(k) = k
    BY <1>1, <1>3
  <2> HIDE DEF r
  <2>3. Ordered(queue', sent')
    BY <2>1, <2>2
  <2>4. ASSUME NEW F
        PROVE  Cardinality(Ids(queue', F))
                 = Cardinality(Ids(queue, F)) + (IF c \in F THEN k ELSE 0)
    <3>1. Cardinality(Ids(r, F))
            = Cardinality(Ids(queue, F)) + (IF c \in F THEN Room(k) ELSE 0)
      BY <2>1
    <3> HIDE DEF c
    <3> QED
      BY <2>2, <3>1
  <2> QED
    BY <2>3, <2>4
<1>6. ASSUME NEW F
      PROVE  Cardinality(LiveIn(F)') = Cardinality(LiveIn(F)) + (IF c \in F THEN n ELSE 0)
  <2>1. t \notin S
    BY DEF FlowOpens, Live
  <2>2. \A u \in Task \ S : frameOf'[u] = frameOf[u] /\ (pc'[u] = "free" <=> pc[u] = "free")
    BY DEF FlowOpens, TypeInv, TaskType
  <2>3. \A u \in S : pc'[u] # "free" /\ frameOf'[u] = c
    BY <2>1 DEF FlowOpens, TypeInv, TaskType
  <2>4. c \in F => LiveIn(F)' = LiveIn(F) \cup S /\ LiveIn(F) \cap S = {}
    BY <2>2, <2>3 DEF LiveIn, Live
  <2>5. c \notin F => LiveIn(F)' = LiveIn(F)
    BY <2>2, <2>3 DEF LiveIn, Live
  <2>6. IsFiniteSet(LiveIn(F)) /\ Cardinality(LiveIn(F)) \in Nat
    BY <1>2, LoadType
  <2>7. CASE c \in F
    BY <2>4, <2>6, <2>7, DisjointCard
  <2>8. CASE c \notin F
    BY <2>5, <2>6, <2>8
  <2> QED
    BY <2>7, <2>8
<1>7. ASSUME NEW F
      PROVE  Load(F)' = Load(F) + (IF c \in F THEN gain ELSE 0)
  <2>1. /\ Cardinality(Ids(queue, F)) \in Nat /\ Cardinality(LiveIn(F)) \in Nat
    BY <1>2, LoadType
  <2>2. Load(F)' = Cardinality(Ids(queue', F)) + Cardinality(LiveIn(F)')
    BY DEF Load
  <2>3. Load(F) = Cardinality(Ids(queue, F)) + Cardinality(LiveIn(F))
    BY DEF Load
  <2>4. Cardinality(Ids(queue', F)) = Cardinality(Ids(queue, F)) + (IF c \in F THEN k ELSE 0)
    BY <1>5
  <2> QED
    BY <1>1, <1>6, <2>1, <2>2, <2>3, <2>4
<1> HIDE DEF c, gain
<1> QED
  BY <1>1, <1>2, <1>3, <1>4, <1>5, <1>7, CountStep

LEMMA SeedRootCount ==
  ASSUME TypeInv, TypeInv', CountInv, UnopenedInv, NEW k \in Nat,
         NEW S \in SUBSET (Task \ Live), IsFiniteSet(S), SeedRoot(k, S)
  PROVE  CountInv'
<1> DEFINE new == IF Over(k) THEN {} ELSE S
           why == IF Over(k) THEN "budget_exhausted" ELSE "none"
           n == Cardinality(new)
           gain == Room(k) + n
<1>1. /\ Root \in Frame /\ frInFlight[Root] = 0 /\ inFlight = 0 /\ sent \in Nat
      /\ new \in SUBSET (Task \ Live) /\ IsFiniteSet(new) /\ n \in Nat
      /\ Room(k) \in Nat /\ gain \in Int
  <2>1. Root \in Frame /\ frInFlight[Root] = 0 /\ inFlight = 0
    BY Bounds DEF UnopenedInv, SeedRoot
  <2>2. new \in SUBSET (Task \ Live) /\ IsFiniteSet(new)
    BY FS_EmptySet
  <2>3. n \in Nat
    BY <2>2, FS_CardinalityType
  <2>4. sent \in Nat
    BY DEF TypeInv, SchedType
  <2>5. Room(k) \in Nat
    BY RoomType
  <2> QED
    BY <2>1, <2>2, <2>3, <2>4, <2>5
<1>2. queue \in Seq(Item) /\ Ordered(queue, sent)
  BY DEF TypeInv, SchedType, CountInv
<1>3. /\ queue' = queue \o Msgs(Root, k) \o FatalMark(why)
      /\ sent' = sent + Room(k) /\ stranded' = stranded
      /\ inFlight' = gain
      /\ frInFlight' = [frInFlight EXCEPT ![Root] = gain]
  BY DEF SeedRoot, CountSent
<1>4. /\ frInFlight' = [frInFlight EXCEPT ![Root] = @ + gain]
      /\ inFlight' = inFlight + gain
  <2> HIDE DEF gain
  <2>1. frInFlight[Root] + gain = gain /\ inFlight + gain = gain
    BY <1>1
  <2> QED
    BY <1>3, <2>1
<1>5. /\ Ordered(queue', sent')
      /\ \A F : Cardinality(Ids(queue', F))
                  = Cardinality(Ids(queue, F)) + (IF Root \in F THEN Room(k) ELSE 0)
  <2> DEFINE r == queue \o Msgs(Root, k)
             m == FatalMark(why)
             z == sent + Room(k)
  <2>1. why \in Reason
    BY DEF Reason
  <2>2. m \in Seq(Item) /\ Silent(m)
    BY <2>1, MarksSilent, MarkTypes
  <2>3. z \in Nat
    BY <1>1
  <2>4. /\ r \in Seq(Item) /\ Ordered(r, z)
        /\ \A F : Cardinality(Ids(r, F))
                    = Cardinality(Ids(queue, F)) + (IF Root \in F THEN Room(k) ELSE 0)
    BY <1>1, <1>2, EmissionGain
  <2> HIDE DEF r, m, z
  <2>5. \A F : Ids(r \o m, F) = Ids(r, F) /\ Ordered(r \o m, z)
    BY <2>2, <2>3, <2>4, SilentAppend
  <2>6. queue' = r \o m /\ sent' = z
    BY <1>3 DEF r, m, z
  <2> QED
    BY <2>4, <2>5, <2>6
<1>6. ASSUME NEW F
      PROVE  Cardinality(LiveIn(F)') = Cardinality(LiveIn(F)) + (IF Root \in F THEN n ELSE 0)
  <2>1. Spawn(new, Root)
    BY DEF SeedRoot
  <2> HIDE DEF new
  <2>2. \A u \in Task \ new :
          frameOf'[u] = frameOf[u] /\ (pc'[u] = "free" <=> pc[u] = "free")
    BY <2>1 DEF Spawn, TypeInv, TaskType
  <2>3. \A u \in new : pc'[u] # "free" /\ frameOf'[u] = Root
    BY <1>1, <2>1 DEF Spawn, TypeInv, TaskType
  <2>4. Root \in F => LiveIn(F)' = LiveIn(F) \cup new /\ LiveIn(F) \cap new = {}
    BY <1>1, <2>2, <2>3 DEF LiveIn, Live
  <2>5. Root \notin F => LiveIn(F)' = LiveIn(F)
    BY <1>1, <2>2, <2>3 DEF LiveIn, Live
  <2>6. IsFiniteSet(LiveIn(F)) /\ Cardinality(LiveIn(F)) \in Nat
    BY <1>2, LoadType
  <2>7. CASE Root \in F
    BY <1>1, <2>4, <2>6, <2>7, DisjointCard
  <2>8. CASE Root \notin F
    BY <2>5, <2>6, <2>8
  <2> QED
    BY <2>7, <2>8
<1>7. ASSUME NEW F
      PROVE  Load(F)' = Load(F) + (IF Root \in F THEN gain ELSE 0)
  <2>1. /\ Cardinality(Ids(queue, F)) \in Nat /\ Cardinality(LiveIn(F)) \in Nat
    BY <1>2, LoadType
  <2>2. Load(F)' = Cardinality(Ids(queue', F)) + Cardinality(LiveIn(F)')
    BY DEF Load
  <2>3. Load(F) = Cardinality(Ids(queue, F)) + Cardinality(LiveIn(F))
    BY DEF Load
  <2>4. Cardinality(Ids(queue', F))
          = Cardinality(Ids(queue, F)) + (IF Root \in F THEN Room(k) ELSE 0)
    BY <1>5
  <2> HIDE DEF n
  <2> QED
    BY <1>1, <1>6, <2>1, <2>2, <2>3, <2>4
<1> HIDE DEF gain
<1> QED
  BY <1>1, <1>2, <1>3, <1>4, <1>5, <1>7, CountStep

\* Work in a frame means the frame is open and the run is seeded.
LEMMA WorkMeansOpen ==
  ASSUME TypeInv, CountInv, UnopenedInv, NEW f \in Frame, LiveIn({f}) # {}
  PROVE  path[f] # {} /\ pump # "new" /\ f \in Frame
<1>1. /\ IsFiniteSet(LiveIn({f})) /\ Cardinality(LiveIn({f})) \in Nat
      /\ Cardinality(Ids(queue, {f})) \in Nat
      /\ IsFiniteSet(LiveIn(Frame)) /\ Cardinality(LiveIn(Frame)) \in Nat
      /\ Cardinality(Ids(queue, Frame)) \in Nat
  BY LoadType DEF CountInv
<1>2. Cardinality(LiveIn({f})) >= 1 /\ Cardinality(LiveIn(Frame)) >= 1
  <2>1. LiveIn(Frame) # {}
    BY DEF LiveIn
  <2>2. Cardinality(LiveIn({f})) # 0 /\ Cardinality(LiveIn(Frame)) # 0
    BY <1>1, <2>1, FS_EmptySet
  <2> QED
    BY <1>1, <2>2
<1>3. frInFlight[f] \in Int /\ inFlight \in Int /\ stranded \in Nat
  BY DEF TypeInv, SchedType, NoteType, TaskType
<1>4. frInFlight[f] >= Cardinality(Ids(queue, {f})) + Cardinality(LiveIn({f}))
  BY DEF CountInv, Load
<1>5. inFlight = Cardinality(Ids(queue, Frame)) + Cardinality(LiveIn(Frame)) + stranded
  BY DEF CountInv, Load
<1>6. frInFlight[f] # 0 /\ inFlight # 0
  BY <1>1, <1>2, <1>3, <1>4, <1>5
<1> QED
  BY <1>6 DEF UnopenedInv

LEMMA FiringFrameOpen ==
  ASSUME TypeInv, CountInv, UnopenedInv, NEW t \in Task, pc[t] # "free"
  PROVE  frameOf[t] \in Frame /\ path[frameOf[t]] # {} /\ pump # "new"
<1>1. frameOf[t] \in Frame
  BY DEF TypeInv, TaskType
<1>2. LiveIn({frameOf[t]}) # {}
  BY DEF LiveIn
<1> QED
  BY <1>1, <1>2, WorkMeansOpen

LEMMA DeliveryFrameOpen ==
  ASSUME TypeInv, CountInv, UnopenedInv, NEW f \in Frame, Delivers(f)
  PROVE  path[f] # {}
<1>1. queue \in Seq(Item) /\ queue # <<>> /\ sent \in Nat
  BY DEF Delivers, TypeInv, SchedType
<1>2. Head(queue).id \in Ids(queue, {f})
  BY <1>1, TailIds DEF CountInv, Delivers
<1>3. /\ IsFiniteSet(Ids(queue, {f})) /\ Cardinality(LiveIn({f})) \in Nat
      /\ Cardinality(Ids(queue, {f})) \in Nat
  BY LoadType DEF CountInv
<1>4. Cardinality(Ids(queue, {f})) # 0
  BY <1>2, <1>3, FS_EmptySet
<1>5. frInFlight[f] \in Int
      /\ frInFlight[f] >= Cardinality(Ids(queue, {f})) + Cardinality(LiveIn({f}))
  BY DEF CountInv, Load, TypeInv, NoteType
<1>6. frInFlight[f] # 0
  BY <1>3, <1>4, <1>5
<1> QED
  BY <1>6 DEF UnopenedInv

LEMMA UnopenedStep ==
  ASSUME UnopenedInv, Root \in Frame,
         \A g \in Frame : path[g] # {} => path'[g] # {},
         \A g \in Frame : frInFlight'[g] = frInFlight[g] \/ path'[g] # {},
         \/ pump' # "new"
         \/ pump = "new" /\ inFlight' = inFlight /\ path'[Root] = path[Root]
  PROVE  UnopenedInv'
BY DEF UnopenedInv

LEMMA FlowOverspendsCount ==
  ASSUME TypeInv, TypeInv', CountInv, UnopenedInv, NEW t \in Task, NEW k \in Nat,
         FlowOverspends(t, k)
  PROVE  CountInv'
<1> DEFINE c == NextFrame
           f == frameOf[t]
           n == Room(k)
<1>1. /\ c \in Frame /\ f \in Frame /\ c # f /\ frInFlight[c] = 0
      /\ sent \in Nat /\ n \in Nat /\ pc[t] # "free"
  <2>1. c \in Frame /\ path[c] = {}
    BY NextFrameType DEF FlowOverspends
  <2>2. pc[t] # "free"
    BY DEF FlowOverspends
  <2>3. f \in Frame /\ path[f] # {}
    BY <2>2, FiringFrameOpen
  <2>4. sent \in Nat
    BY DEF TypeInv, SchedType
  <2>5. n \in Nat
    BY RoomType
  <2> QED
    BY <2>1, <2>2, <2>3, <2>4, <2>5 DEF UnopenedInv
<1>2. queue \in Seq(Item) /\ Ordered(queue, sent)
  BY DEF TypeInv, SchedType, CountInv
<1>3. /\ queue' = queue \o (Msgs(c, k) \o <<Fatal>>) \o QuietMark(Room(k))
      /\ sent' = sent + Room(k) /\ stranded' = stranded
      /\ inFlight' = inFlight + n - 1
      /\ frInFlight' = [frInFlight EXCEPT ![c] = n, ![f] = @ - 1]
  BY DEF FlowOverspends, CountSent
<1>4. /\ Ordered(queue', sent')
      /\ \A F : Cardinality(Ids(queue', F))
                  = Cardinality(Ids(queue, F)) + (IF c \in F THEN n ELSE 0)
  <2> DEFINE q == queue
             m == Msgs(c, k)
             a == <<Fatal>>
             b == QuietMark(Room(k))
             r == q \o m
             z == sent + n
  <2>1. a \in Seq(Item) /\ Silent(a)
    BY MarksSilent, MarkTypes DEF Item
  <2>2. b \in Seq(Item) /\ Silent(b)
    <3>1. Room(k) \in Int
      BY <1>1
    <3> QED
      BY <3>1, MarksSilent, MarkTypes
  <2>3. z \in Nat
    BY <1>1
  <2>4. /\ m \in Seq(Item) /\ q \in Seq(Item)
    BY <1>1, <1>2, MsgsType
  <2>5. /\ r \in Seq(Item) /\ Ordered(r, z)
        /\ \A F : Cardinality(Ids(r, F)) = Cardinality(Ids(q, F)) + (IF c \in F THEN n ELSE 0)
    <3>1. c \in Frame
      BY <1>1
    <3> HIDE DEF c
    <3> QED
      BY <1>2, <3>1, EmissionGain
  <2>6. queue' = q \o (m \o a) \o b /\ sent' = z
    BY <1>3
  <2> HIDE DEF q, m, a, b, z, n
  <2>7. (q \o m) \o a = q \o (m \o a)
    BY <2>1, <2>4, ConcatAssociative
  <2>8. queue' = (r \o a) \o b
    BY <2>6, <2>7
  <2> HIDE DEF r
  <2>9. r \o a \in Seq(Item) /\ Ordered(r \o a, z) /\ \A F : Ids(r \o a, F) = Ids(r, F)
    BY <2>1, <2>3, <2>5, SilentAppend
  <2>10. Ordered((r \o a) \o b, z) /\ \A F : Ids((r \o a) \o b, F) = Ids(r, F)
    BY <2>2, <2>3, <2>9, SilentAppend, ZenonT(40)
  <2>11. Ordered(queue', sent') /\ \A F : Ids(queue', F) = Ids(r, F)
    BY <2>6, <2>8, <2>10
  <2>12. \A F : Cardinality(Ids(r, F))
                  = Cardinality(Ids(queue, F)) + (IF c \in F THEN n ELSE 0)
    BY <2>5 DEF q
  <2> QED
    BY <2>11, <2>12
<1>5. \A F : LiveIn(F)' = LiveIn(F) \ {t}
  <2>1. \A u \in Task : u # t => /\ frameOf'[u] = frameOf[u]
                                 /\ pc'[u] = "free" <=> pc[u] = "free"
    BY DEF FlowOverspends, Waiter, TypeInv, TaskType
  <2>2. pc'[t] = "free"
    BY DEF FlowOverspends, TypeInv, TaskType
  <2> QED
    BY <2>1, <2>2 DEF LiveIn
<1>6. ASSUME NEW F
      PROVE  Load(F)' = Load(F) + (IF c \in F THEN n ELSE 0) - (IF f \in F THEN 1 ELSE 0)
  <2>1. /\ Cardinality(Ids(queue, F)) \in Nat /\ Cardinality(LiveIn(F)) \in Nat
        /\ IsFiniteSet(LiveIn(F))
    BY <1>2, LoadType
  <2>2. Cardinality(LiveIn(F) \ {t})
          = IF t \in LiveIn(F) THEN Cardinality(LiveIn(F)) - 1 ELSE Cardinality(LiveIn(F))
    BY <2>1, FS_RemoveElement
  <2>3. t \in LiveIn(F) <=> f \in F
    BY <1>1 DEF LiveIn
  <2>4. Load(F)' = Cardinality(Ids(queue', F)) + Cardinality(LiveIn(F) \ {t})
    BY <1>5 DEF Load
  <2>5. Cardinality(Ids(queue', F)) = Cardinality(Ids(queue, F)) + (IF c \in F THEN n ELSE 0)
    BY <1>4
  <2>6. Load(F) = Cardinality(Ids(queue, F)) + Cardinality(LiveIn(F))
    BY DEF Load
  <2> HIDE DEF n
  <2> QED
    BY <1>1, <2>1, <2>2, <2>3, <2>4, <2>5, <2>6
<1>7. inFlight' = Load(Frame)' + stranded'
  <2>1. Load(Frame)' = Load(Frame) + n - 1
    BY <1>1, <1>6
  <2>2. Load(Frame) \in Nat /\ stranded \in Nat /\ inFlight = Load(Frame) + stranded
    BY LoadType DEF CountInv, TypeInv, TaskType
  <2> HIDE DEF n
  <2> QED
    BY <1>1, <1>3, <2>1, <2>2
<1>8. ASSUME NEW g \in Frame
      PROVE  frInFlight'[g] >= Load({g})'
  <2>1. Load({g}) \in Nat /\ frInFlight[g] \in Int /\ frInFlight[g] >= Load({g})
    BY LoadType DEF CountInv, TypeInv, NoteType
  <2>2. Load({g})' = Load({g}) + (IF c = g THEN n ELSE 0) - (IF f = g THEN 1 ELSE 0)
    BY <1>6
  <2>3. frInFlight'[g] = IF g = f THEN frInFlight[g] - 1
                         ELSE IF g = c THEN n ELSE frInFlight[g]
    <3> HIDE DEF c, f, n
    <3>1. frInFlight \in [Frame -> Int]
      BY DEF TypeInv, NoteType
    <3> QED
      BY <1>1, <1>3, <3>1
  <2> HIDE DEF c, f, n
  <2>4. CASE g = f
    BY <1>1, <2>1, <2>2, <2>3, <2>4
  <2>5. CASE g = c
    BY <1>1, <2>1, <2>2, <2>3, <2>5
  <2>6. CASE g # c /\ g # f
    BY <1>1, <2>1, <2>2, <2>3, <2>6
  <2> QED
    BY <2>4, <2>5, <2>6
<1> QED
  BY <1>4, <1>7, <1>8 DEF CountInv

LEMMA FiringNeverStartsCount ==
  ASSUME TypeInv, TypeInv', CountInv, NEW t \in Task, FiringNeverStarts(t)
  PROVE  CountInv'
<1>1. /\ queue' = queue /\ sent' = sent /\ inFlight' = inFlight
      /\ frInFlight' = frInFlight /\ stranded' = stranded + 1 /\ pc[t] # "free"
  BY DEF FiringNeverStarts, frameVars
<1>2. /\ inFlight \in Int /\ stranded \in Nat /\ frInFlight \in [Frame -> Int]
      /\ frameOf[t] \in Frame
  BY DEF TypeInv, SchedType, NoteType, TaskType
<1>3. \A F : LiveIn(F)' = LiveIn(F) \ {t}
  <2>1. \A u \in Task : u # t => /\ frameOf'[u] = frameOf[u]
                                 /\ pc'[u] = "free" <=> pc[u] = "free"
    BY DEF FiringNeverStarts, TypeInv, TaskType
  <2>2. pc'[t] = "free"
    BY DEF FiringNeverStarts, TypeInv, TaskType
  <2> QED
    BY <2>1, <2>2 DEF LiveIn
<1>4. ASSUME NEW F
      PROVE  /\ Load(F) \in Nat
             /\ Load(F)' = IF frameOf[t] \in F THEN Load(F) - 1 ELSE Load(F)
  <2>1. /\ Cardinality(Ids(queue, F)) \in Nat /\ Cardinality(LiveIn(F)) \in Nat
        /\ IsFiniteSet(LiveIn(F)) /\ Load(F) \in Nat
    BY LoadType DEF CountInv
  <2>2. Cardinality(LiveIn(F) \ {t})
          = IF t \in LiveIn(F) THEN Cardinality(LiveIn(F)) - 1 ELSE Cardinality(LiveIn(F))
    BY <2>1, FS_RemoveElement
  <2>3. t \in LiveIn(F) <=> frameOf[t] \in F
    BY <1>1 DEF LiveIn
  <2>4. Load(F)' = Cardinality(Ids(queue, F)) + Cardinality(LiveIn(F) \ {t})
    BY <1>1, <1>3 DEF Load
  <2>5. Load(F) = Cardinality(Ids(queue, F)) + Cardinality(LiveIn(F))
    BY DEF Load
  <2> QED
    BY <2>1, <2>2, <2>3, <2>4, <2>5
<1>5. inFlight' = Load(Frame)' + stranded'
  <2>1. Load(Frame)' = Load(Frame) - 1 /\ Load(Frame) \in Nat
    BY <1>2, <1>4
  <2>2. inFlight = Load(Frame) + stranded
    BY DEF CountInv
  <2> QED
    BY <1>1, <1>2, <2>1, <2>2
<1>6. ASSUME NEW g \in Frame
      PROVE  frInFlight'[g] >= Load({g})'
  <2>1. frInFlight[g] >= Load({g}) /\ frInFlight[g] \in Int
    BY <1>2 DEF CountInv
  <2>2. Load({g}) \in Nat /\ (Load({g})' = Load({g}) - 1 \/ Load({g})' = Load({g}))
    BY <1>4
  <2> QED
    BY <1>1, <2>1, <2>2
<1> QED
  BY <1>1, <1>5, <1>6 DEF CountInv, Ordered

\* Steps that put nothing but sentinels, take nothing but sentinels, and start
\* and end no firing.
SameMessages == Ordered(queue, sent)' /\ \A F : Ids(queue', F) = Ids(queue, F)
SameFirings == \A u \in Task : frameOf'[u] = frameOf[u] /\ (pc'[u] = "free" <=> pc[u] = "free")

LEMMA SameCount ==
  ASSUME TypeInv, TypeInv', CountInv, SameMessages, SameFirings,
         UNCHANGED <<inFlight, frInFlight, stranded>>
  PROVE  CountInv'
<1>1. \A F : LiveIn(F)' = LiveIn(F)
  BY DEF SameFirings, LiveIn
<1>2. \A F : Load(F)' = Load(F)
  BY <1>1 DEF SameMessages, Load
<1>3. inFlight' = Load(Frame)' + stranded'
  BY <1>2 DEF CountInv
<1>4. \A f \in Frame : frInFlight'[f] >= Load({f})'
  BY <1>2 DEF CountInv
<1> QED
  BY <1>3, <1>4 DEF CountInv, SameMessages

LEMMA SameQueue ==
  ASSUME CountInv, UNCHANGED <<queue, sent>>
  PROVE  SameMessages
BY DEF SameMessages, CountInv, Ordered

LEMMA MarkedQueue ==
  ASSUME TypeInv, CountInv, sent' = sent, NEW m \in Seq(Item), Silent(m),
         queue' = queue \o m
  PROVE  SameMessages
<1>1. queue \in Seq(Item) /\ Ordered(queue, sent) /\ sent \in Nat
  BY DEF TypeInv, SchedType, CountInv
<1>2. Ordered(queue \o m, sent) /\ \A F : Ids(queue \o m, F) = Ids(queue, F)
  BY <1>1, SilentAppend
<1> QED
  BY <1>2 DEF SameMessages

LEMMA TakenMark ==
  ASSUME TypeInv, CountInv, sent' = sent, queue # <<>>, Head(queue).tag # "msg",
         NEW m \in Seq(Item), Silent(m), queue' = Tail(queue) \o m
  PROVE  SameMessages
<1> DEFINE r == Tail(queue)
<1>1. queue \in Seq(Item) /\ Ordered(queue, sent) /\ sent \in Nat
  BY DEF TypeInv, SchedType, CountInv
<1>2. r \in Seq(Item) /\ Ordered(r, sent) /\ \A F : Ids(r, F) = Ids(queue, F)
  BY <1>1, TailIds
<1> HIDE DEF r
<1>3. Ordered(r \o m, sent) /\ \A F : Ids(r \o m, F) = Ids(r, F)
  BY <1>1, <1>2, SilentAppend
<1> QED
  BY <1>2, <1>3 DEF SameMessages, r

LEMMA NoMarkAdded ==
  ASSUME TypeInv
  PROVE  /\ queue \o <<>> = queue
         /\ queue # <<>> => Tail(queue) \o <<>> = Tail(queue)
         /\ TimeoutMark \in Seq(Item) /\ Silent(TimeoutMark)
         /\ AbortMark \in Seq(Item) /\ Silent(AbortMark)
<1>1. queue \in Seq(Item) /\ (queue # <<>> => Tail(queue) \in Seq(Item))
  BY DEF TypeInv, SchedType
<1>2. \A q \in Seq(Item) : q \o <<>> = q
  BY ConcatEmptySeq
<1> QED
  BY <1>1, <1>2, MarkTypes, MarksSilent

LEMMA PumpStepCount ==
  ASSUME TypeInv, TypeInv', CountInv, UnopenedInv, PumpStep
  PROVE  CountInv'
<1> DEFINE same == UNCHANGED <<inFlight, frInFlight, stranded>> /\ SameFirings
<1>1. ASSUME NEW k \in 0 .. MaxFan, NEW S \in SeedTasks, SeedRoot(k, S)
      PROVE  CountInv'
  <2>1. S \in SUBSET (Task \ Live) /\ IsFiniteSet(S) /\ k \in Nat
    BY SeedTasksType, Bounds
  <2> QED
    BY <1>1, <2>1, SeedRootCount
<1>2. ASSUME NEW f \in Frame, PumpSkips(f) \/ PumpAbsorbs(f) \/ PumpWritesEnd(f)
      PROVE  CountInv'
  <2>1. Delivers(f) /\ Consume(f, 0, {})
    BY <1>2 DEF PumpSkips, PumpAbsorbs, PumpWritesEnd
  <2>2. {} \in SUBSET (Task \ Live) /\ IsFiniteSet({})
    BY FS_EmptySet
  <2> QED
    BY <2>1, <2>2, ConsumeCount
<1>3. ASSUME NEW f \in Frame, NEW k \in 1 .. MaxFan, PumpFiresInline(f, k)
      PROVE  CountInv'
  <2>1. Delivers(f) /\ Consume(f, k, {}) /\ k \in Nat
    BY <1>3 DEF PumpFiresInline
  <2>2. {} \in SUBSET (Task \ Live) /\ IsFiniteSet({})
    BY FS_EmptySet
  <2> QED
    BY <2>1, <2>2, ConsumeCount
<1>4. ASSUME NEW f \in Frame, PumpSpawns(f)
      PROVE  CountInv'
  <2>1. {FreeSlot} \in SUBSET (Task \ Live) /\ IsFiniteSet({FreeSlot})
    BY <1>4, SlotIsFree, FS_Singleton DEF PumpSpawns, Live
  <2>2. Delivers(f) /\ Consume(f, 0, {FreeSlot})
    BY <1>4 DEF PumpSpawns
  <2> QED
    BY <2>1, <2>2, ConsumeCount
<1>5. CASE BindFails \/ PumpBlocks \/ PumpResumes
  <2>1. UNCHANGED <<queue, sent>> /\ same
    BY <1>5 DEF BindFails, PumpBlocks, PumpResumes, schedVars, frameVars, taskVars,
                SameFirings
  <2> QED
    BY <2>1, SameQueue, SameCount
<1>6. CASE PumpStops
  <2>1. same /\ sent' = sent
    BY <1>6 DEF PumpStops, frameVars, taskVars, SameFirings
  <2>2. queue # <<>> /\ Head(queue).tag # "msg"
    BY <1>6 DEF PumpStops
  <2>3. \/ queue' = Tail(queue) \o TimeoutMark
        \/ queue' = Tail(queue) \o <<>>
    BY <1>6 DEF PumpStops
  <2>4. <<>> \in Seq(Item) /\ Silent(<<>>)
    BY DEF Silent
  <2>5. SameMessages
    BY <2>1, <2>2, <2>3, <2>4, NoMarkAdded, TakenMark
  <2> QED
    BY <2>1, <2>5, SameCount
<1>7. CASE PumpGivesUp \/ PumpInterrupted
  <2>1. same /\ sent' = sent
    BY <1>7 DEF PumpGivesUp, PumpInterrupted, frameVars, taskVars, SameFirings
  <2>2. \/ queue' = queue \o TimeoutMark
        \/ queue' = queue \o <<>>
    BY <1>7 DEF PumpGivesUp, PumpInterrupted
  <2>3. SameMessages
    BY <2>1, <2>2, NoMarkAdded, MarkedQueue, SameQueue
  <2> QED
    BY <2>1, <2>3, SameCount
<1> QED
  BY <1>1, <1>2, <1>3, <1>4, <1>5, <1>6, <1>7 DEF PumpStep

LEMMA OtherStepCount ==
  ASSUME TypeInv, TypeInv', CountInv,
         \/ CleanupStarts \/ DeadlineFires \/ CleanupEnds \/ Finalize
         \/ \E t \in Task : IoEnds(t) \/ CeilingTrips(t) \/ FiringWaits(t)
         \/ Abort \/ ClockPasses \/ CallerCancels \/ UNCHANGED vars
  PROVE  CountInv'
<1> DEFINE same == UNCHANGED <<inFlight, frInFlight, stranded>> /\ SameFirings
<1>1. pc \in [Task -> {"free"} \cup Waiting \cup Runnable]
  BY DEF TypeInv, TaskType
<1>2. CASE CleanupStarts
  <2>1. UNCHANGED <<queue, sent>> /\ same
    BY <1>1, <1>2 DEF CleanupStarts, frameVars, SameFirings
  <2> QED
    BY <2>1, SameQueue, SameCount
<1>3. CASE DeadlineFires \/ CallerCancels \/ ClockPasses \/ CleanupEnds
  <2>1. UNCHANGED <<queue, sent>> /\ same
    BY <1>3 DEF DeadlineFires, CallerCancels, Interrupts, ClockPasses, CleanupEnds,
                schedVars, frameVars, taskVars, SameFirings
  <2> QED
    BY <2>1, SameQueue, SameCount
<1>4. CASE Finalize
  <2>1. UNCHANGED <<queue, sent>> /\ same
    BY <1>4 DEF Finalize, schedVars, taskVars, SameFirings
  <2> QED
    BY <2>1, SameQueue, SameCount
<1>5. ASSUME NEW t \in Task, IoEnds(t) \/ CeilingTrips(t) \/ FiringWaits(t)
      PROVE  CountInv'
  <2>1. UNCHANGED <<queue, sent>> /\ same
    BY <1>1, <1>5 DEF IoEnds, CeilingTrips, FiringWaits, frameVars, SameFirings
  <2> QED
    BY <2>1, SameQueue, SameCount
<1>6. CASE Abort
  <2>1. same /\ sent' = sent /\ queue' = queue \o AbortMark
    BY <1>6 DEF Abort, frameVars, taskVars, SameFirings
  <2>2. SameMessages
    BY <2>1, NoMarkAdded, MarkedQueue
  <2> QED
    BY <2>1, <2>2, SameCount
<1>7. CASE UNCHANGED vars
  <2>1. UNCHANGED <<queue, sent>> /\ same
    BY <1>7 DEF vars, schedVars, frameVars, taskVars, SameFirings
  <2> QED
    BY <2>1, SameQueue, SameCount
<1> QED
  BY <1>2, <1>3, <1>4, <1>5, <1>6, <1>7

\* The actions that end a firing through _fire's finally clause.
Ends(t) ==
  \/ FiringAnswers(t) \/ FiringErrs(t) \/ FiringCrashes(t) \/ FlowReturns(t)
  \/ FlowReturnsAtOnce(t) \/ FiringTimesOut(t) \/ FiringUnwinds(t)

LEMMA EndsByFiringEnds ==
  ASSUME TypeInv, NEW t \in Task, Ends(t)
  PROVE  /\ pc[t] # "free"
         /\ \E k \in Nat, why \in Reason, V \in SUBSET Live : \E notes :
              FiringEnds(t, k, notes, why, V)
<1>1. {"none", "budget_exhausted", "internal_error"} \subseteq Reason /\ 0 .. MaxFan \subseteq Nat
      /\ 0 \in Nat
  BY Bounds DEF Reason
<1>2. {} \in SUBSET Live /\ Victims(t) \in SUBSET Live
  BY DEF Victims
<1>3. pc[t] # "free"
  BY DEF Ends, FiringAnswers, FiringErrs, FiringCrashes, FlowReturns, FlowReturnsAtOnce,
         FiringTimesOut, FiringUnwinds
<1> DEFINE goal == \E k \in Nat, why \in Reason, V \in SUBSET Live : \E notes :
                     FiringEnds(t, k, notes, why, V)
           over(k) == IF Over(k) THEN "budget_exhausted" ELSE "none"
<1>4. ASSUME NEW k \in Nat, NEW why \in Reason, NEW V \in SUBSET Live, NEW notes,
             FiringEnds(t, k, notes, why, V)
      PROVE  goal
  BY <1>4
<1>5. \A k : over(k) \in Reason
  BY <1>1
<1> SUFFICES goal
  BY <1>3
<1> HIDE DEF goal
<1>10. CASE FiringAnswers(t)
  <2>1. PICK k \in 0 .. MaxFan, n \in 0 .. 2 :
          FiringEnds(t, k, Times(n, frameOf[t]), over(k), {})
    BY <1>10 DEF FiringAnswers
  <2> HIDE DEF over
  <2> QED
    BY <1>1, <1>2, <1>4, <1>5, <2>1
<1>11. CASE FiringErrs(t)
  <2>1. PICK k \in 0 .. MaxFan, n \in 0 .. 1 : NodeError(t, k, Times(n, frameOf[t]), {})
    BY <1>11 DEF FiringErrs
  <2> QED
    BY <1>1, <1>2, <1>4, <2>1 DEF NodeError
<1>12. CASE FiringCrashes(t)
  <2>1. FiringEnds(t, 0, <<>>, "internal_error", {})
    BY <1>12 DEF FiringCrashes
  <2> QED
    BY <1>1, <1>2, <1>4, <2>1
<1>13. CASE FlowReturns(t)
  <2>1. PICK k \in 0 .. MaxFan, unwired \in BOOLEAN :
          FiringEnds(t, k, Unwritten(childOf[t])
                             \o (IF unwired /\ ~Over(k) THEN <<frameOf[t]>> ELSE <<>>),
                     over(k), {})
    BY <1>13 DEF FlowReturns
  <2> HIDE DEF over
  <2> QED
    BY <1>1, <1>2, <1>4, <1>5, <2>1
<1>14. CASE FlowReturnsAtOnce(t)
  <2>1. PICK k \in 0 .. MaxFan, required \in RequiredEnd, unwired \in BOOLEAN :
          FiringEnds(t, k, Times(IF required THEN 1 ELSE 0, NextFrame)
                             \o (IF unwired /\ ~Over(k) THEN <<frameOf[t]>> ELSE <<>>),
                     over(k), {})
    BY <1>14 DEF FlowReturnsAtOnce
  <2> HIDE DEF over
  <2> QED
    BY <1>1, <1>2, <1>4, <1>5, <2>1
<1>15. CASE FiringTimesOut(t)
  <2>1. PICK k \in 0 .. MaxFan : NodeError(t, k, <<>>, Victims(t))
    BY <1>15 DEF FiringTimesOut
  <2> QED
    BY <1>1, <1>2, <1>4, <2>1 DEF NodeError
<1>16. CASE FiringUnwinds(t)
  <2>1. FiringEnds(t, 0, <<>>, "none", Victims(t))
    BY <1>16 DEF FiringUnwinds
  <2> QED
    BY <1>1, <1>2, <1>4, <2>1
<1> QED
  BY <1>10, <1>11, <1>12, <1>13, <1>14, <1>15, <1>16 DEF Ends

LEMMA TaskStepCount ==
  ASSUME TypeInv, TypeInv', CountInv, UnopenedInv, NEW t \in Task, TaskStep(t)
  PROVE  CountInv'
<1>1. CASE Ends(t)
  <2>1. pc[t] # "free"
    BY <1>1, EndsByFiringEnds
  <2>2. PICK k \in Nat, why \in Reason, V \in SUBSET Live :
          \E notes : FiringEnds(t, k, notes, why, V)
    BY <1>1, EndsByFiringEnds
  <2>3. PICK notes : FiringEnds(t, k, notes, why, V)
    BY <2>2
  <2> QED
    BY <2>1, <2>3, FiringEndsCount
<1>2. CASE FiringWaits(t)
  BY <1>2, OtherStepCount
<1>3. CASE FiringNeverStarts(t)
  BY <1>3, FiringNeverStartsCount
<1>4. ASSUME NEW k \in 0 .. MaxFan, NEW S \in SeedTasks, FlowOpens(t, k, S)
      PROVE  CountInv'
  <2>1. S \in SUBSET (Task \ Live) /\ IsFiniteSet(S) /\ k \in Nat
    BY SeedTasksType, Bounds
  <2> QED
    BY <1>4, <2>1, FlowOpensCount
<1>5. ASSUME NEW k \in 1 .. MaxFan, FlowOverspends(t, k)
      PROVE  CountInv'
  <2>1. k \in Nat
    BY Bounds
  <2> QED
    BY <1>5, <2>1, FlowOverspendsCount
<1> QED
  BY <1>1, <1>2, <1>3, <1>4, <1>5 DEF TaskStep, Ends

LEMMA TaskStepUnopened ==
  ASSUME TypeInv, CountInv, UnopenedInv, NEW t \in Task, TaskStep(t)
  PROVE  UnopenedInv'
<1> DEFINE f == frameOf[t]
<1>1. pc[t] # "free"
  BY EndsByFiringEnds DEF TaskStep, Ends, FiringWaits, FlowOpens, FlowOverspends, Steps,
     FiringNeverStarts
<1>2. /\ f \in Frame /\ path[f] # {} /\ pump # "new" /\ Root \in Frame
      /\ path \in [Frame -> SUBSET Frame] /\ frInFlight \in [Frame -> Int]
  BY <1>1, FiringFrameOpen, Bounds DEF TypeInv, TreeType, NoteType
<1>3. PumpAfter(<<>>) # "new" /\ \A puts : PumpAfter(puts) # "new"
  BY <1>2 DEF PumpAfter
<1>4. CASE Ends(t)
  <2>1. PICK k \in Nat, why \in Reason, V \in SUBSET Live :
          \E notes : FiringEnds(t, k, notes, why, V)
    BY <1>4, EndsByFiringEnds
  <2>2. PICK notes : FiringEnds(t, k, notes, why, V)
    BY <2>1
  <2>3. pump' # "new" /\ frInFlight' = [frInFlight EXCEPT ![f] = @ + Room(k) - 1]
    BY <1>3, <2>2 DEF FiringEnds, Settle
  <2>4. \A g \in Frame : path[g] # {} => path'[g] # {}
    <3>1. path' = path \/ \E c \in Frame : \E p : path' = [path EXCEPT ![c] = p \cup {c}]
      BY <1>4, NextFrameType
         DEF Ends, FiringAnswers, FiringErrs, FiringCrashes, FlowReturns, FlowReturnsAtOnce,
             FiringTimesOut, FiringUnwinds
    <3> QED
      BY <1>2, <3>1
  <2>5. \A g \in Frame : frInFlight'[g] = frInFlight[g] \/ path'[g] # {}
    BY <1>2, <2>3, <2>4
  <2> HIDE DEF f
  <2> QED
    BY <1>2, <2>3, <2>4, <2>5, UnopenedStep
<1>5. CASE FiringWaits(t) \/ FiringNeverStarts(t)
  BY <1>2, <1>5 DEF FiringWaits, FiringNeverStarts, frameVars, pumpVars, UnopenedInv
<1>6. ASSUME NEW k \in 0 .. MaxFan, NEW S \in SeedTasks, FlowOpens(t, k, S)
      PROVE  UnopenedInv'
  <2> DEFINE c == NextFrame
  <2>1. /\ c \in Frame /\ OpenFrame(c, path[f]) /\ pump' # "new"
        /\ \E gain : frInFlight' = [frInFlight EXCEPT ![c] = gain]
    BY <1>3, <1>6, NextFrameType DEF FlowOpens
  <2>2. path'[c] # {} /\ \A g \in Frame : path[g] # {} => path'[g] # {}
    BY <1>2, <2>1, OpenFrameType
  <2>3. \A g \in Frame : frInFlight'[g] = frInFlight[g] \/ path'[g] # {}
    BY <1>2, <2>1, <2>2
  <2> QED
    BY <1>2, <2>1, <2>2, <2>3, UnopenedStep
<1>7. ASSUME NEW k \in 1 .. MaxFan, FlowOverspends(t, k)
      PROVE  UnopenedInv'
  <2> DEFINE c == NextFrame
  <2>1. /\ c \in Frame /\ OpenFrame(c, path[f]) /\ pump' # "new"
        /\ frInFlight' = [frInFlight EXCEPT ![c] = Room(k), ![f] = @ - 1]
    BY <1>3, <1>7, NextFrameType DEF FlowOverspends
  <2>2. path'[c] # {} /\ \A g \in Frame : path[g] # {} => path'[g] # {}
    BY <1>2, <2>1, OpenFrameType
  <2>3. \A g \in Frame : frInFlight'[g] = frInFlight[g] \/ path'[g] # {}
    BY <1>2, <2>1, <2>2
  <2> QED
    BY <1>2, <2>1, <2>2, <2>3, UnopenedStep
<1> QED
  BY <1>4, <1>5, <1>6, <1>7 DEF TaskStep, Ends

LEMMA PumpStepUnopened ==
  ASSUME TypeInv, CountInv, UnopenedInv, PumpStep
  PROVE  UnopenedInv'
<1>1. Root \in Frame /\ path \in [Frame -> SUBSET Frame] /\ frInFlight \in [Frame -> Int]
  BY Bounds DEF TypeInv, TreeType, NoteType
<1>2. ASSUME NEW k \in 0 .. MaxFan, NEW S \in SeedTasks, SeedRoot(k, S)
      PROVE  UnopenedInv'
  <2>1. /\ OpenFrame(Root, {}) /\ pump' # "new"
        /\ \E gain : frInFlight' = [frInFlight EXCEPT ![Root] = gain]
    BY <1>2 DEF SeedRoot, LeavePump
  <2>2. path'[Root] # {} /\ \A g \in Frame : path[g] # {} => path'[g] # {}
    BY <1>1, <2>1, OpenFrameType
  <2>3. \A g \in Frame : frInFlight'[g] = frInFlight[g] \/ path'[g] # {}
    BY <1>1, <2>1, <2>2
  <2> QED
    BY <1>1, <2>1, <2>2, <2>3, UnopenedStep
<1>3. ASSUME NEW f \in Frame, NEW k, NEW S, Delivers(f), Consume(f, k, S)
      PROVE  UnopenedInv'
  <2>1. pump' # "new" /\ path' = path /\ path[f] # {}
    BY <1>3, DeliveryFrameOpen DEF Consume
  <2>2. \E gain : frInFlight' = [frInFlight EXCEPT ![f] = @ + gain - 1]
    BY <1>3 DEF Consume, Settle
  <2>3. \A g \in Frame : frInFlight'[g] = frInFlight[g] \/ path'[g] # {}
    BY <1>1, <2>1, <2>2
  <2> QED
    BY <1>1, <2>1, <2>3, UnopenedStep
<1>4. ASSUME NEW f \in Frame, \/ PumpSkips(f) \/ PumpAbsorbs(f) \/ PumpWritesEnd(f)
                              \/ PumpSpawns(f)
                              \/ \E k \in 1 .. MaxFan : PumpFiresInline(f, k)
      PROVE  UnopenedInv'
  BY <1>3, <1>4 DEF PumpSkips, PumpAbsorbs, PumpWritesEnd, PumpSpawns, PumpFiresInline
<1>5. CASE BindFails \/ PumpBlocks \/ PumpStops \/ PumpResumes \/ PumpGivesUp
           \/ PumpInterrupted
  <2>1. pump' # "new" /\ UNCHANGED <<path, frInFlight>>
    BY <1>5 DEF BindFails, PumpBlocks, PumpStops, PumpResumes, PumpGivesUp,
                PumpInterrupted, LeavePump, frameVars
  <2> QED
    BY <1>1, <2>1, UnopenedStep
<1> QED
  BY <1>2, <1>4, <1>5 DEF PumpStep

LEMMA OtherStepUnopened ==
  ASSUME UnopenedInv,
         \/ CleanupStarts \/ DeadlineFires \/ CleanupEnds \/ Finalize
         \/ \E t \in Task : IoEnds(t) \/ CeilingTrips(t)
         \/ Abort \/ ClockPasses \/ CallerCancels \/ UNCHANGED vars
  PROVE  UnopenedInv'
<1>1. /\ UNCHANGED <<path, frInFlight, inFlight>>
      /\ pump' # "new" \/ pump = "new"
  BY DEF CleanupStarts, DeadlineFires, CleanupEnds, Finalize, IoEnds, CeilingTrips, Abort,
         ClockPasses, CallerCancels, Interrupts, PumpAfter, vars, schedVars, pumpVars,
         frameVars
<1> QED
  BY <1>1 DEF UnopenedInv

LEMMA CountInvariant == Spec => [](TypeInv /\ BatchInv /\ CountInv /\ UnopenedInv)
<1> DEFINE Inv == TypeInv /\ BatchInv /\ CountInv /\ UnopenedInv
<1>1. Init => Inv
  <2> SUFFICES ASSUME Init PROVE Inv
    OBVIOUS
  <2>1. TypeInv /\ BatchInv
    BY InitType
  <2>2. UnopenedInv
    BY Bounds DEF Init, UnopenedInv
  <2>3. queue = <<>> /\ inFlight = 0 /\ stranded = 0
    BY DEF Init
  <2>4. \A F : Ids(queue, F) = {} /\ LiveIn(F) = {}
    BY DEF Init, Ids, MsgAt, LiveIn
  <2>5. \A F : Load(F) = 0
    BY <2>4, FS_EmptySet DEF Load
  <2>6. CountInv
    BY <2>3, <2>5 DEF CountInv, Ordered, Init
  <2> QED
    BY <2>1, <2>2, <2>6
<1>2. Inv /\ [Next]_vars => Inv'
  <2> SUFFICES ASSUME Inv, [Next]_vars PROVE Inv'
    OBVIOUS
  <2>1. TypeInv' /\ BatchInv'
    BY StepType, StepBatch
  <2>2. CountInv'
    BY <2>1, PumpStepCount, TaskStepCount, OtherStepCount
       DEF Next, LoopStep, Disturb, Finished
  <2>3. UnopenedInv'
    BY PumpStepUnopened, TaskStepUnopened, OtherStepUnopened
       DEF Next, LoopStep, Disturb, Finished
  <2> QED
    BY <2>1, <2>2, <2>3
<1> QED
  BY <1>1, <1>2, PTL DEF Spec

\* _in_flight counts exactly the queued deliveries, the unfinished firings and
\* the tasks that were cancelled before their first step, whatever the flow, the
\* budget and the disturbances (engine.py: _inc, _dec, _fire's finally clause,
\* _spawn_task).
THEOREM InFlightIsExact == Spec => []InFlightExact
<1>1. TypeInv /\ CountInv => InFlightExact
  <2> SUFFICES ASSUME TypeInv, CountInv PROVE InFlightExact
    OBVIOUS
  <2>1. queue \in Seq(Item)
    BY DEF TypeInv, SchedType
  <2>2. MsgAt(queue, Frame) = Queued
    BY <2>1, ItemFields DEF MsgAt, Queued
  <2>3. Ids(queue, Frame) = QueuedIds
    BY <2>2 DEF Ids, QueuedIds
  <2>4. LiveIn(Frame) = Live
    BY DEF LiveIn, Live, TypeInv, TaskType
  <2> QED
    BY <2>3, <2>4 DEF CountInv, Load, InFlightExact
<1> QED
  BY <1>1, CountInvariant, PTL

\* Every variable keeps its type; in particular neither _in_flight nor a frame's
\* in_flight ever goes below zero (engine.py: _dec).
THEOREM TypesAlways == Spec => []TypeOK
<1>1. TypeInv /\ CountInv => TypeOK
  <2> SUFFICES ASSUME TypeInv, CountInv PROVE TypeOK
    OBVIOUS
  <2>1. inFlight \in Nat
    <3>1. Load(Frame) \in Nat /\ stranded \in Nat
      BY LoadType DEF CountInv, TypeInv, TaskType
    <3> QED
      BY <3>1 DEF CountInv
  <2>2. frInFlight \in [Frame -> Nat]
    <3>1. ASSUME NEW f \in Frame
          PROVE  frInFlight[f] \in Nat
      <4>1. Load({f}) \in Nat /\ frInFlight[f] \in Int /\ frInFlight[f] >= Load({f})
        BY LoadType DEF CountInv, TypeInv, NoteType
      <4> QED
        BY <4>1
    <3> QED
      BY <3>1 DEF TypeInv, NoteType
  <2> QED
    BY <2>1, <2>2 DEF TypeOK, TypeInv, SchedType, PumpType, TreeType, NoteType, EndType,
                      TaskType, RunType
<1> QED
  BY <1>1, CountInvariant, PTL

--------------------------------------------------------------------------------
(* Quiescence *)

HasQuiet(q) == \E i \in DOMAIN q : q[i] = Quiescent

\* The quiescence sentinel is queued, or has been obeyed, only when nothing is
\* in flight.
QuietInv ==
  /\ HasQuiet(queue) => inFlight = 0 /\ pump # "new"
  /\ stopped = "quiet" => inFlight = 0
  /\ pump = "new" => stopped = "no"

LEMMA QuietAppend ==
  ASSUME NEW q \in Seq(Item), NEW m \in Seq(Item), HasQuiet(q \o m)
  PROVE  HasQuiet(q) \/ HasQuiet(m)
<1>1. PICK i \in DOMAIN (q \o m) : (q \o m)[i] = Quiescent
  BY DEF HasQuiet
<1>2. /\ i \in 1 .. Len(q) + Len(m) /\ Len(q) \in Nat /\ Len(m) \in Nat
      /\ DOMAIN q = 1 .. Len(q) /\ DOMAIN m = 1 .. Len(m)
      /\ (q \o m)[i] = IF i <= Len(q) THEN q[i] ELSE m[i - Len(q)]
  BY ConcatProperties, LenProperties
<1>3. CASE i <= Len(q)
  BY <1>1, <1>2, <1>3 DEF HasQuiet
<1>4. CASE i > Len(q)
  <2>1. i - Len(q) \in DOMAIN m /\ m[i - Len(q)] = Quiescent
    BY <1>1, <1>2, <1>4
  <2> QED
    BY <2>1 DEF HasQuiet
<1> QED
  BY <1>2, <1>3, <1>4

LEMMA QuietTail ==
  ASSUME NEW q \in Seq(Item), q # <<>>
  PROVE  /\ Tail(q) \in Seq(Item)
         /\ HasQuiet(Tail(q)) => HasQuiet(q)
         /\ Head(q) = Quiescent => HasQuiet(q)
<1>1. /\ Tail(q) \in Seq(Item) /\ DOMAIN q = 1 .. Len(q) /\ Len(q) \in Nat \ {0}
      /\ DOMAIN Tail(q) = 1 .. Len(q) - 1
      /\ \A i \in 1 .. Len(q) - 1 : Tail(q)[i] = q[i + 1]
      /\ Head(q) = q[1]
  BY HeadTailProperties, LenProperties, EmptySeq
<1>2. \A i \in 1 .. Len(q) - 1 : i + 1 \in DOMAIN q
  BY <1>1
<1> QED
  BY <1>1, <1>2 DEF HasQuiet

LEMMA OtherMarksNotQuiet ==
  /\ \A why : ~HasQuiet(FatalMark(why))
  /\ ~HasQuiet(TimeoutMark) /\ ~HasQuiet(AbortMark) /\ ~HasQuiet(<<>>)
  /\ \A gain : HasQuiet(QuietMark(gain)) => inFlight + gain = 1
BY DEF HasQuiet, FatalMark, TimeoutMark, AbortMark, QuietMark, Fatal, Quiescent

LEMMA MsgsNotQuiet ==
  ASSUME NEW f, NEW k
  PROVE  ~HasQuiet(Msgs(f, k))
BY DEF HasQuiet, Msgs, Quiescent

\* What an emission followed by two sentinels leaves in a queue.
LEMMA EmissionQuiet ==
  ASSUME TypeInv, NEW q \in Seq(Item), NEW f \in Frame, NEW k \in Nat,
         NEW a \in Seq(Item), NEW b \in Seq(Item), ~HasQuiet(a), ~HasQuiet(q),
         HasQuiet(q \o Msgs(f, k) \o a \o b)
  PROVE  HasQuiet(b)
<1> DEFINE m == Msgs(f, k)
<1>1. m \in Seq(Item) /\ ~HasQuiet(m)
  BY MsgsType, MsgsNotQuiet
<1> HIDE DEF m
<1> DEFINE r == q \o m
<1>2. r \in Seq(Item) /\ ~HasQuiet(r)
  BY <1>1, QuietAppend
<1>3. HasQuiet(r \o a \o b)
  BY DEF m
<1> HIDE DEF r
<1>4. r \o a \in Seq(Item) /\ ~HasQuiet(r \o a)
  BY <1>2, QuietAppend
<1> QED
  BY <1>3, <1>4, QuietAppend

\* Work keeps the run from being quiet.
LEMMA BusyNotQuiet ==
  ASSUME TypeInv, CountInv, QuietInv, UnopenedInv, NEW t \in Task, pc[t] # "free"
  PROVE  /\ inFlight \in Nat \ {0} /\ ~HasQuiet(queue) /\ stopped # "quiet"
         /\ pump # "new"
<1>1. IsFiniteSet(LiveIn(Frame)) /\ Cardinality(LiveIn(Frame)) \in Nat
      /\ Cardinality(Ids(queue, Frame)) \in Nat
  BY LoadType DEF CountInv
<1>2. LiveIn(Frame) # {}
  BY DEF LiveIn, TypeInv, TaskType
<1>3. Cardinality(LiveIn(Frame)) # 0
  BY <1>1, <1>2, FS_EmptySet
<1>4. inFlight = Cardinality(Ids(queue, Frame)) + Cardinality(LiveIn(Frame)) + stranded
      /\ stranded \in Nat
  BY DEF CountInv, Load, TypeInv, TaskType
<1>5. inFlight \in Nat \ {0}
  BY <1>1, <1>3, <1>4
<1> QED
  BY <1>5 DEF QuietInv, UnopenedInv

LEMMA DeliveryNotQuiet ==
  ASSUME TypeInv, CountInv, QuietInv, NEW f \in Frame, Delivers(f)
  PROVE  /\ inFlight \in Nat \ {0} /\ ~HasQuiet(queue) /\ stopped # "quiet"
<1>1. IsFiniteSet(Ids(queue, Frame)) /\ Cardinality(LiveIn(Frame)) \in Nat
      /\ Cardinality(Ids(queue, Frame)) \in Nat
  BY LoadType DEF CountInv
<1>2. Ids(queue, Frame) # {}
  <2>1. queue \in Seq(Item) /\ queue # <<>> /\ sent \in Nat
    BY DEF Delivers, TypeInv, SchedType
  <2> QED
    BY <2>1, TailIds DEF CountInv, Delivers
<1>3. Cardinality(Ids(queue, Frame)) # 0
  BY <1>1, <1>2, FS_EmptySet
<1>4. inFlight = Cardinality(Ids(queue, Frame)) + Cardinality(LiveIn(Frame)) + stranded
      /\ stranded \in Nat
  BY DEF CountInv, Load, TypeInv, TaskType
<1>5. inFlight \in Nat \ {0}
  BY <1>1, <1>3, <1>4
<1> QED
  BY <1>5 DEF QuietInv

\* A step that changes no count and adds no quiescence sentinel.
LEMMA QuietKept ==
  ASSUME QuietInv, inFlight' = inFlight, HasQuiet(queue)' => HasQuiet(queue),
         stopped' = stopped \/ (stopped' = "halted" /\ pump' # "new"),
         pump' = "new" => pump = "new"
  PROVE  QuietInv'
BY DEF QuietInv

\* A step of a run with work in it that may put the sentinel with its last
\* decrement.
LEMMA QuietBorn ==
  ASSUME HasQuiet(queue)' => inFlight' = 0, stopped' # "quiet", pump' # "new"
  PROVE  QuietInv'
BY DEF QuietInv

LEMMA PumpStepQuiet ==
  ASSUME TypeInv, CountInv, QuietInv, UnopenedInv, PumpStep
  PROVE  QuietInv'
<1>1. queue \in Seq(Item) /\ inFlight \in Int
  BY DEF TypeInv, SchedType
<1>2. ASSUME NEW k \in 0 .. MaxFan, NEW S \in SeedTasks, SeedRoot(k, S)
      PROVE  QuietInv'
  <2> DEFINE why == IF Over(k) THEN "budget_exhausted" ELSE "none"
             m == Msgs(Root, k)
             a == FatalMark(why)
  <2>1. k \in Nat /\ Root \in Frame /\ why \in Reason
    BY Bounds DEF Reason
  <2>2. m \in Seq(Item) /\ ~HasQuiet(m) /\ a \in Seq(Item) /\ ~HasQuiet(a)
    BY <2>1, MsgsType, MsgsNotQuiet, MarkTypes, OtherMarksNotQuiet
  <2>3. queue' = queue \o m \o a
    BY <1>2 DEF SeedRoot
  <2>4. ~HasQuiet(queue) /\ stopped = "no"
    BY <1>2 DEF QuietInv, SeedRoot
  <2>5. stopped' = "quiet" => inFlight' = 0
    BY <1>2, <2>4 DEF SeedRoot, LeavePump
  <2>6. pump' # "new"
    BY <1>2 DEF SeedRoot, LeavePump
  <2> HIDE DEF m, a
  <2>7. queue \o m \in Seq(Item) /\ ~HasQuiet(queue \o m)
    BY <1>1, <2>2, <2>4, QuietAppend
  <2>8. ~HasQuiet(queue')
    BY <2>2, <2>3, <2>7, QuietAppend
  <2> QED
    BY <2>5, <2>6, <2>8 DEF QuietInv
<1>3. ASSUME NEW f \in Frame, NEW k \in Nat, NEW S \in SUBSET Task, IsFiniteSet(S),
             Delivers(f), Consume(f, k, S)
      PROVE  QuietInv'
  <2> DEFINE gain == Room(k) + Cardinality(S)
             why == IF Over(k) THEN "budget_exhausted" ELSE "none"
             q == Tail(queue)
             a == FatalMark(why)
             b == QuietMark(gain)
  <2>1. ~HasQuiet(queue) /\ stopped # "quiet" /\ queue # <<>>
    BY <1>3, DeliveryNotQuiet DEF Delivers
  <2>2. q \in Seq(Item) /\ ~HasQuiet(q)
    BY <1>1, <2>1, QuietTail
  <2>3. gain \in Int /\ why \in Reason
    <3>1. Room(k) \in Nat /\ Cardinality(S) \in Nat
      BY <1>3, RoomType, FS_CardinalityType
    <3> QED
      BY <3>1 DEF Reason
  <2>4. a \in Seq(Item) /\ b \in Seq(Item) /\ ~HasQuiet(a)
    BY <2>3, MarkTypes, OtherMarksNotQuiet
  <2>5. /\ queue' = q \o Msgs(f, k) \o a \o b
        /\ inFlight' = inFlight + gain - 1 /\ stopped' = stopped /\ pump' # "new"
    BY <1>3 DEF Consume, Settle
  <2>6. HasQuiet(b) => inFlight + gain = 1
    BY OtherMarksNotQuiet
  <2> HIDE DEF q, a, b, gain
  <2>7. HasQuiet(queue') => HasQuiet(b)
    BY <1>3, <2>2, <2>4, <2>5, EmissionQuiet
  <2>8. HasQuiet(queue') => inFlight' = 0
    BY <1>1, <2>3, <2>5, <2>6, <2>7
  <2> QED
    BY <2>1, <2>5, <2>8, QuietBorn
<1>4. ASSUME NEW f \in Frame, PumpSkips(f) \/ PumpAbsorbs(f) \/ PumpWritesEnd(f)
      PROVE  QuietInv'
  <2>1. Delivers(f) /\ Consume(f, 0, {})
    BY <1>4 DEF PumpSkips, PumpAbsorbs, PumpWritesEnd
  <2>2. {} \in SUBSET Task /\ IsFiniteSet({}) /\ 0 \in Nat
    BY FS_EmptySet
  <2> QED
    BY <1>3, <2>1, <2>2
<1>5. ASSUME NEW f \in Frame, NEW k \in 1 .. MaxFan, PumpFiresInline(f, k)
      PROVE  QuietInv'
  <2>1. Delivers(f) /\ Consume(f, k, {}) /\ k \in Nat
    BY <1>5 DEF PumpFiresInline
  <2>2. {} \in SUBSET Task /\ IsFiniteSet({})
    BY FS_EmptySet
  <2> QED
    BY <1>3, <2>1, <2>2
<1>6. ASSUME NEW f \in Frame, PumpSpawns(f)
      PROVE  QuietInv'
  <2>1. {FreeSlot} \in SUBSET Task /\ IsFiniteSet({FreeSlot}) /\ 0 \in Nat
    BY <1>6, SlotIsFree, FS_Singleton DEF PumpSpawns
  <2>2. Delivers(f) /\ Consume(f, 0, {FreeSlot})
    BY <1>6 DEF PumpSpawns
  <2> QED
    BY <1>3, <2>1, <2>2
<1>7. CASE BindFails \/ PumpBlocks \/ PumpResumes
  <2>1. /\ inFlight' = inFlight /\ queue' = queue /\ pump' # "new"
        /\ stopped' = stopped \/ stopped' = "halted"
    BY <1>7 DEF BindFails, PumpBlocks, PumpResumes, schedVars, LeavePump
  <2> QED
    BY <2>1, QuietKept
<1>8. CASE PumpStops
  <2>1. /\ inFlight' = inFlight /\ pump' = "closing" /\ queue # <<>>
        /\ stopped' = "quiet" => Head(queue) = Quiescent
    BY <1>8 DEF PumpStops, LeavePump
  <2>2. queue' = Tail(queue) \o TimeoutMark \/ queue' = Tail(queue) \o <<>>
    BY <1>8 DEF PumpStops
  <2>3. Tail(queue) \in Seq(Item) /\ (HasQuiet(Tail(queue)) => HasQuiet(queue))
    BY <1>1, <2>1, QuietTail
  <2>4. HasQuiet(queue') => HasQuiet(queue)
    BY <2>1, <2>2, <2>3, NoMarkAdded, QuietAppend, OtherMarksNotQuiet
  <2>5. Head(queue) = Quiescent => inFlight = 0
    BY <1>1, <2>1, QuietTail DEF QuietInv
  <2> QED
    BY <2>1, <2>4, <2>5 DEF QuietInv
<1>9. CASE PumpGivesUp \/ PumpInterrupted
  <2>1. inFlight' = inFlight /\ pump' # "new" /\ stopped' = "halted"
    BY <1>9 DEF PumpGivesUp, PumpInterrupted, LeavePump
  <2>2. queue' = queue \o TimeoutMark \/ queue' = queue \o <<>>
    BY <1>9 DEF PumpGivesUp, PumpInterrupted
  <2>3. HasQuiet(queue') => HasQuiet(queue)
    BY <1>1, <2>2, NoMarkAdded, QuietAppend, OtherMarksNotQuiet
  <2> QED
    BY <2>1, <2>3, QuietKept
<1> QED
  BY <1>2, <1>4, <1>5, <1>6, <1>7, <1>8, <1>9 DEF PumpStep

LEMMA TaskStepQuiet ==
  ASSUME TypeInv, CountInv, QuietInv, UnopenedInv, NEW t \in Task, TaskStep(t)
  PROVE  QuietInv'
<1>1. pc[t] # "free"
  BY EndsByFiringEnds DEF TaskStep, Ends, FiringWaits, FlowOpens, FlowOverspends, Steps,
     FiringNeverStarts
<1>2. /\ inFlight \in Nat \ {0} /\ ~HasQuiet(queue) /\ stopped # "quiet" /\ pump # "new"
      /\ queue \in Seq(Item) /\ frameOf[t] \in Frame
  BY <1>1, BusyNotQuiet DEF TypeInv, SchedType, TaskType
<1>3. \A puts : PumpAfter(puts) # "new"
  BY <1>2 DEF PumpAfter
<1>4. CASE Ends(t)
  <2>1. PICK k \in Nat, why \in Reason, V \in SUBSET Live :
          \E notes : FiringEnds(t, k, notes, why, V)
    BY <1>4, EndsByFiringEnds
  <2>2. PICK notes : FiringEnds(t, k, notes, why, V)
    BY <2>1
  <2> DEFINE f == frameOf[t]
             m == Msgs(f, k)
             a == FatalMark(why)
             b == QuietMark(Room(k))
             q == queue
  <2>3. /\ queue' = q \o (m \o a \o b)
        /\ inFlight' = inFlight + Room(k) - 1 /\ stopped' = stopped /\ pump' # "new"
    BY <1>3, <2>2 DEF FiringEnds, Settle
  <2>4. Room(k) \in Nat
    BY RoomType
  <2>5. /\ m \in Seq(Item) /\ a \in Seq(Item) /\ b \in Seq(Item)
        /\ ~HasQuiet(m) /\ ~HasQuiet(a)
        /\ HasQuiet(b) => inFlight + Room(k) = 1
    <3>1. m \in Seq(Item) /\ ~HasQuiet(m)
      BY <1>2, MsgsType, MsgsNotQuiet
    <3>2. a \in Seq(Item) /\ ~HasQuiet(a)
      BY MarkTypes, OtherMarksNotQuiet
    <3>3. b \in Seq(Item)
      <4>1. Room(k) \in Int
        BY <2>4
      <4> QED
        BY <4>1, MarkTypes
    <3>4. HasQuiet(b) => inFlight + Room(k) = 1
      BY OtherMarksNotQuiet
    <3> QED
      BY <3>1, <3>2, <3>3, <3>4
  <2>6. q \in Seq(Item) /\ ~HasQuiet(q)
    BY <1>2
  <2> HIDE DEF m, a, b, q
  <2>7. m \o a \in Seq(Item) /\ ~HasQuiet(m \o a)
    BY <2>5, QuietAppend
  <2> DEFINE ma == m \o a
  <2>8. ma \in Seq(Item) /\ ~HasQuiet(ma) /\ queue' = q \o (ma \o b)
    BY <2>3, <2>7
  <2> HIDE DEF ma
  <2>9. ma \o b \in Seq(Item) /\ (HasQuiet(ma \o b) => HasQuiet(b))
    BY <2>5, <2>8, QuietAppend
  <2>10. HasQuiet(queue') => HasQuiet(b)
    BY <2>6, <2>8, <2>9, QuietAppend
  <2>11. HasQuiet(queue') => inFlight' = 0
    BY <1>2, <2>3, <2>4, <2>5, <2>10
  <2> QED
    BY <1>2, <2>3, <2>11, QuietBorn
<1>5. CASE FiringWaits(t) \/ FiringNeverStarts(t)
  <2>1. UNCHANGED <<inFlight, queue, stopped, pump>>
    BY <1>5 DEF FiringWaits, FiringNeverStarts, pumpVars
  <2> QED
    BY <2>1, QuietKept
<1>6. ASSUME NEW k \in 0 .. MaxFan, NEW S \in SeedTasks, FlowOpens(t, k, S)
      PROVE  QuietInv'
  <2> DEFINE m == Msgs(NextFrame, k)
  <2>1. NextFrame \in Frame /\ k \in Nat
    BY <1>6, NextFrameType, Bounds DEF FlowOpens
  <2>2. m \in Seq(Item) /\ ~HasQuiet(m)
    BY <2>1, MsgsType, MsgsNotQuiet
  <2>3. queue' = queue \o m /\ stopped' = stopped /\ pump' # "new"
    BY <1>3, <1>6 DEF FlowOpens
  <2> HIDE DEF m
  <2>4. ~HasQuiet(queue')
    BY <1>2, <2>2, <2>3, QuietAppend
  <2> QED
    BY <1>2, <2>3, <2>4, QuietBorn
<1>7. ASSUME NEW k \in 1 .. MaxFan, FlowOverspends(t, k)
      PROVE  QuietInv'
  <2> DEFINE m == Msgs(NextFrame, k)
             a == <<Fatal>>
             ma == m \o a
             b == QuietMark(Room(k))
             q == queue
  <2>1. NextFrame \in Frame /\ k \in Nat
    <3>1. \E f \in Frame : path[f] = {}
      BY <1>7 DEF FlowOverspends
    <3> QED
      BY <3>1, NextFrameType, Bounds
  <2>2. Room(k) \in Nat
    BY <2>1, RoomType
  <2>3. /\ m \in Seq(Item) /\ ~HasQuiet(m) /\ a \in Seq(Item) /\ ~HasQuiet(a)
        /\ b \in Seq(Item) /\ (HasQuiet(b) => inFlight + Room(k) = 1)
    <3>1. m \in Seq(Item) /\ ~HasQuiet(m)
      BY <2>1, MsgsType, MsgsNotQuiet
    <3>2. a \in Seq(Item) /\ ~HasQuiet(a)
      BY DEF Item, HasQuiet, Fatal, Quiescent
    <3>3. b \in Seq(Item)
      <4>1. Room(k) \in Int
        BY <2>2
      <4> QED
        BY <4>1, MarkTypes
    <3>4. HasQuiet(b) => inFlight + Room(k) = 1
      BY OtherMarksNotQuiet
    <3> QED
      BY <3>1, <3>2, <3>3, <3>4
  <2>4. /\ queue' = q \o ma \o b /\ stopped' = stopped /\ pump' # "new"
        /\ inFlight' = inFlight + Room(k) - 1
    BY <1>3, <1>7 DEF FlowOverspends
  <2>5. q \in Seq(Item) /\ ~HasQuiet(q)
    BY <1>2
  <2> HIDE DEF m, a, b, q
  <2>6. ma \in Seq(Item) /\ ~HasQuiet(ma)
    BY <2>3, QuietAppend
  <2> HIDE DEF ma
  <2>7. q \o ma \in Seq(Item) /\ ~HasQuiet(q \o ma)
    BY <2>5, <2>6, QuietAppend
  <2>8. HasQuiet(queue') => HasQuiet(b)
    BY <2>3, <2>4, <2>7, QuietAppend
  <2>9. HasQuiet(queue') => inFlight' = 0
    BY <1>2, <2>2, <2>3, <2>4, <2>8
  <2> QED
    BY <1>2, <2>4, <2>9, QuietBorn
<1> QED
  BY <1>4, <1>5, <1>6, <1>7 DEF TaskStep, Ends

LEMMA OtherStepQuiet ==
  ASSUME TypeInv, QuietInv,
         \/ CleanupStarts \/ DeadlineFires \/ CleanupEnds \/ Finalize
         \/ \E t \in Task : IoEnds(t) \/ CeilingTrips(t)
         \/ Abort \/ ClockPasses \/ CallerCancels \/ UNCHANGED vars
  PROVE  QuietInv'
<1>1. /\ UNCHANGED <<inFlight, stopped>>
      /\ pump' = "new" => pump = "new"
  BY DEF CleanupStarts, DeadlineFires, CleanupEnds, Finalize, IoEnds, CeilingTrips, Abort,
         ClockPasses, CallerCancels, Interrupts, PumpAfter, vars, schedVars, pumpVars
<1>2. queue' = queue \/ queue' = queue \o AbortMark
  BY DEF CleanupStarts, DeadlineFires, CleanupEnds, Finalize, IoEnds, CeilingTrips, Abort,
         ClockPasses, CallerCancels, Interrupts, vars, schedVars
<1>3. HasQuiet(queue') => HasQuiet(queue)
  BY <1>2, NoMarkAdded, QuietAppend, OtherMarksNotQuiet DEF TypeInv, SchedType
<1> QED
  BY <1>1, <1>3, QuietKept

LEMMA QuietInvariant ==
  Spec => [](TypeInv /\ BatchInv /\ CountInv /\ UnopenedInv /\ QuietInv)
<1>1. Init => QuietInv
  BY DEF Init, QuietInv, HasQuiet
<1>2. TypeInv /\ CountInv /\ UnopenedInv /\ QuietInv /\ [Next]_vars => QuietInv'
  BY PumpStepQuiet, TaskStepQuiet, OtherStepQuiet DEF Next, LoopStep, Disturb, Finished
<1> QED
  BY <1>1, <1>2, CountInvariant, PTL DEF Spec

\* A run that stopped because its last unit of work was counted off has no
\* delivery queued and no firing unfinished, in any frame (engine.py: _dec puts
\* _QUIESCENT when _in_flight reaches zero; the pump returns on it).
THEOREM QuietMeansQuiet == Spec => []QuietIsQuiet
<1>1. TypeInv /\ CountInv /\ QuietInv => QuietIsQuiet
  <2> SUFFICES ASSUME TypeInv, CountInv, QuietInv, stopped = "quiet" PROVE ~Busy
    BY DEF QuietIsQuiet
  <2>1. /\ Cardinality(Ids(queue, Frame)) \in Nat /\ Cardinality(LiveIn(Frame)) \in Nat
        /\ IsFiniteSet(Ids(queue, Frame)) /\ IsFiniteSet(LiveIn(Frame))
    BY LoadType DEF CountInv
  <2>2. /\ Cardinality(Ids(queue, Frame)) + Cardinality(LiveIn(Frame)) + stranded = 0
        /\ stranded \in Nat
    <3>1. inFlight = 0 /\ stranded \in Nat
      BY DEF QuietInv, TypeInv, TaskType
    <3>2. inFlight = Cardinality(Ids(queue, Frame)) + Cardinality(LiveIn(Frame)) + stranded
      BY DEF CountInv, Load
    <3> QED
      BY <3>1, <3>2
  <2>3. Cardinality(Ids(queue, Frame)) = 0 /\ Cardinality(LiveIn(Frame)) = 0
    <3> DEFINE a == Cardinality(Ids(queue, Frame))
               b == Cardinality(LiveIn(Frame))
    <3>1. a \in Nat /\ b \in Nat /\ a + b + stranded = 0 /\ stranded \in Nat
      BY <2>1, <2>2
    <3> HIDE DEF a, b
    <3>2. a = 0 /\ b = 0
      BY <3>1
    <3> QED
      BY <3>2 DEF a, b
  <2>4. Ids(queue, Frame) = {} /\ LiveIn(Frame) = {}
    BY <2>1, <2>3, FS_EmptySet
  <2>5. Queued = {}
    <3>1. queue \in Seq(Item)
      BY DEF TypeInv, SchedType
    <3>2. Queued = MsgAt(queue, Frame)
      BY <3>1, ItemFields DEF MsgAt, Queued
    <3> QED
      BY <2>4, <3>2 DEF Ids
  <2>6. Live = {}
    BY <2>4 DEF LiveIn, Live, TypeInv, TaskType
  <2> QED
    BY <2>5, <2>6 DEF Busy
<1> QED
  BY <1>1, QuietInvariant, PTL

--------------------------------------------------------------------------------
(* How a run ends *)

\* What stops a run before it is quiet.
Halted == fatal # "none" \/ aborted \/ interrupt = "caller"

\* The pump leaves once, then cleanup begins, and the state comes last.
StageInv ==
  /\ pump = "closing" <=> stopped # "no"
  /\ pump = "closing" <=> cleanup # "none"
  /\ outcome # "none" => cleanup = "done"
  /\ pump = "new" => ~late /\ fatal = "none"

\* A step of a task leaves everything but its own frame and the queue.
LEMMA TaskLeaves ==
  ASSUME TypeInv, NEW t \in Task, TaskStep(t)
  PROVE  /\ UNCHANGED <<stopped, cleanup, gathered, outcome, late, aborted, interrupt>>
         /\ pc[t] # "free" /\ outcome = "none"
         /\ pump' = pump \/ (pump = "get" /\ pump' = "woken")
<1>1. CASE Ends(t)
  <2>1. PICK k \in Nat, why \in Reason, V \in SUBSET Live :
          \E notes : FiringEnds(t, k, notes, why, V)
    BY <1>1, EndsByFiringEnds
  <2>2. PICK notes : FiringEnds(t, k, notes, why, V)
    BY <2>1
  <2>3. /\ UNCHANGED <<stopped, cleanup, gathered, outcome, late, aborted, interrupt>>
        /\ pump' = pump \/ (pump = "get" /\ pump' = "woken")
    BY <2>2 DEF FiringEnds, runVars, PumpAfter
  <2>4. outcome = "none"
    BY <1>1 DEF Ends, FiringAnswers, FiringErrs, FiringCrashes, FlowReturns, FlowReturnsAtOnce,
         FiringTimesOut, FiringUnwinds, Steps, Runs
  <2> QED
    BY <1>1, <2>3, <2>4, EndsByFiringEnds
<1>2. CASE FiringWaits(t) \/ FiringNeverStarts(t)
  BY <1>2 DEF FiringWaits, FiringNeverStarts, Steps, Runs, pumpVars, runVars
<1>3. CASE (\E k \in 0 .. MaxFan, S \in SeedTasks : FlowOpens(t, k, S))
           \/ (\E k \in 1 .. MaxFan : FlowOverspends(t, k))
  BY <1>3 DEF FlowOpens, FlowOverspends, Steps, Runs, PumpAfter, runVars
<1> QED
  BY <1>1, <1>2, <1>3 DEF TaskStep, Ends

\* The other steps.
OtherStep ==
  \/ CleanupStarts \/ DeadlineFires \/ CleanupEnds \/ Finalize
  \/ \E t \in Task : IoEnds(t) \/ CeilingTrips(t)
  \/ Abort \/ ClockPasses \/ CallerCancels \/ UNCHANGED vars

LEMMA ThreeKinds ==
  ASSUME [Next]_vars
  PROVE  PumpStep \/ (\E t \in Task : TaskStep(t)) \/ OtherStep
BY DEF Next, LoopStep, Disturb, Finished, OtherStep

\* What a delivery does: nothing for a cancelled frame, else an inline emission,
\* a task or neither; only End's write touches endOpen.
Receives(f, k, S) ==
  /\ Delivers(f) /\ Consume(f, k, S)
  /\ S = {} \/ (S = {FreeSlot} /\ Live # Task)
  /\ cancelled[f] => k = 0 /\ S = {}
  /\ endOpen' = endOpen \/ (~cancelled[f] /\ endOpen' = [endOpen EXCEPT ![f] = FALSE])

Leaves ==
  \/ BindFails \/ PumpStops \/ PumpGivesUp \/ PumpInterrupted
  \/ \E k \in 0 .. MaxFan, S \in SeedTasks : SeedRoot(k, S)

LEMMA PumpKinds ==
  ASSUME PumpStep
  PROVE  \/ Leaves \/ PumpBlocks \/ PumpResumes
         \/ \E f \in Frame, k \in Nat, S \in SUBSET (Task \ Live) :
              IsFiniteSet(S) /\ Receives(f, k, S)
<1>1. 0 \in Nat /\ 1 .. MaxFan \subseteq Nat /\ IsFiniteSet({})
  BY Bounds, FS_EmptySet
<1>2. ASSUME NEW f \in Frame, PumpSpawns(f)
      PROVE  \E k \in Nat, S \in SUBSET (Task \ Live) : IsFiniteSet(S) /\ Receives(f, k, S)
  <2>1. {FreeSlot} \in SUBSET (Task \ Live) /\ IsFiniteSet({FreeSlot})
    BY <1>2, SlotIsFree, FS_Singleton DEF PumpSpawns
  <2> QED
    BY <1>1, <1>2, <2>1 DEF PumpSpawns, Receives
<1>3. ASSUME NEW f \in Frame, PumpSkips(f) \/ PumpAbsorbs(f) \/ PumpWritesEnd(f)
      PROVE  \E k \in Nat, S \in SUBSET (Task \ Live) : IsFiniteSet(S) /\ Receives(f, k, S)
  <2>1. Receives(f, 0, {})
    BY <1>3 DEF PumpSkips, PumpAbsorbs, PumpWritesEnd, Receives
  <2> QED
    BY <1>1, <2>1
<1>4. ASSUME NEW f \in Frame, NEW k \in 1 .. MaxFan, PumpFiresInline(f, k)
      PROVE  \E n \in Nat, S \in SUBSET (Task \ Live) : IsFiniteSet(S) /\ Receives(f, n, S)
  <2>1. Receives(f, k, {})
    BY <1>4 DEF PumpFiresInline, Receives
  <2> QED
    BY <1>1, <2>1
<1> QED
  BY <1>2, <1>3, <1>4 DEF PumpStep, Leaves

LEMMA StageStep ==
  ASSUME TypeInv, CountInv, UnopenedInv, StageInv, [Next]_vars
  PROVE  StageInv'
<1>1. ASSUME NEW t \in Task, TaskStep(t) PROVE StageInv'
  <2>1. pump # "new"
    BY <1>1, TaskLeaves, FiringFrameOpen
  <2>2. pump' # "new" /\ (pump' = "closing" <=> pump = "closing")
    BY <1>1, <2>1, TaskLeaves
  <2> QED
    BY <1>1, <2>2, TaskLeaves DEF StageInv
<1>2. CASE PumpStep
  <2>1. CASE Leaves
    BY <2>1 DEF Leaves, BindFails, PumpStops, PumpGivesUp, PumpInterrupted, SeedRoot, LeavePump,
                Runs, runVars, StageInv
  <2>2. ASSUME NEW f, NEW k, NEW S, Receives(f, k, S) PROVE StageInv'
    BY <2>2 DEF Receives, Delivers, Consume, StageInv
  <2>3. CASE PumpBlocks \/ PumpResumes
    BY <2>3 DEF PumpBlocks, PumpResumes, runVars, StageInv
  <2> QED
    BY <1>2, <2>1, <2>2, <2>3, PumpKinds
<1>3. CASE OtherStep
  <2>1. /\ UNCHANGED stopped
        /\ \/ UNCHANGED cleanup
           \/ cleanup # "none" /\ cleanup' # "none" /\ outcome = "none"
        /\ outcome' = outcome \/ cleanup' = "done"
        /\ (pump' = pump \/ (pump = "get" /\ pump' = "woken"))
        /\ fatal' = fatal /\ (late' => late \/ pump # "new")
    BY <1>3 DEF OtherStep, CleanupStarts, DeadlineFires, CleanupEnds, Finalize, IoEnds,
         CeilingTrips, Abort, ClockPasses, CallerCancels, Interrupts, PumpAfter, vars, schedVars,
         pumpVars, runVars, Runs, StageInv
  <2> QED
    BY <1>3, <2>1 DEF StageInv
<1> QED
  BY <1>1, <1>2, <1>3, ThreeKinds

--------------------------------------------------------------------------------
(* The two sentinels *)

Holds(q, item) == \E i \in DOMAIN q : q[i] = item
FatalFirst(q) == \E j \in DOMAIN q : q[j] = Fatal /\ \A i \in 1 .. j - 1 : q[i] # Quiescent

LEMMA HoldsAppend ==
  ASSUME NEW q \in Seq(Item), NEW m \in Seq(Item), NEW x, Holds(q \o m, x)
  PROVE  Holds(q, x) \/ Holds(m, x)
<1>1. PICK i \in DOMAIN (q \o m) : (q \o m)[i] = x
  BY DEF Holds
<1>2. /\ i \in 1 .. Len(q) + Len(m) /\ Len(q) \in Nat /\ Len(m) \in Nat
      /\ DOMAIN q = 1 .. Len(q) /\ DOMAIN m = 1 .. Len(m)
      /\ (q \o m)[i] = IF i <= Len(q) THEN q[i] ELSE m[i - Len(q)]
  BY ConcatProperties, LenProperties
<1>3. CASE i <= Len(q)
  BY <1>1, <1>2, <1>3 DEF Holds
<1>4. CASE i > Len(q)
  <2>1. i - Len(q) \in DOMAIN m /\ m[i - Len(q)] = x
    BY <1>1, <1>2, <1>4
  <2> QED
    BY <2>1 DEF Holds
<1> QED
  BY <1>2, <1>3, <1>4

LEMMA TailHolds ==
  ASSUME NEW q \in Seq(Item), q # <<>>
  PROVE  /\ Tail(q) \in Seq(Item) /\ Head(q) \in Item
         /\ \A x : Holds(Tail(q), x) => Holds(q, x)
         /\ Holds(q, Head(q))
         /\ Head(q) = Quiescent => ~FatalFirst(q)
         /\ Head(q) # Fatal /\ FatalFirst(q) => FatalFirst(Tail(q))
<1>1. /\ Tail(q) \in Seq(Item) /\ DOMAIN q = 1 .. Len(q) /\ Len(q) \in Nat \ {0}
      /\ DOMAIN Tail(q) = 1 .. Len(q) - 1
      /\ \A i \in 1 .. Len(q) - 1 : Tail(q)[i] = q[i + 1]
      /\ Head(q) = q[1] /\ q[1] \in Item
  BY HeadTailProperties, LenProperties, EmptySeq
<1>2. \A i \in 1 .. Len(q) - 1 : i + 1 \in DOMAIN q
  BY <1>1
<1>3. Head(q) = Quiescent => ~FatalFirst(q)
  BY <1>1 DEF FatalFirst, Fatal, Quiescent
<1>4. ASSUME Head(q) # Fatal, FatalFirst(q) PROVE FatalFirst(Tail(q))
  <2>1. PICK j \in DOMAIN q : q[j] = Fatal /\ \A i \in 1 .. j - 1 : q[i] # Quiescent
    BY <1>4 DEF FatalFirst
  <2>2. j - 1 \in DOMAIN Tail(q) /\ Tail(q)[j - 1] = Fatal
    BY <1>1, <1>4, <2>1
  <2>3. \A i \in 1 .. (j - 1) - 1 : Tail(q)[i] # Quiescent
    <3> SUFFICES ASSUME NEW i \in 1 .. (j - 1) - 1 PROVE Tail(q)[i] # Quiescent
      OBVIOUS
    <3>1. i + 1 \in 1 .. j - 1 /\ i \in 1 .. Len(q) - 1
      BY <1>1, <2>1
    <3> QED
      BY <1>1, <2>1, <3>1
  <2> QED
    BY <2>2, <2>3 DEF FatalFirst
<1> QED
  BY <1>1, <1>2, <1>3, <1>4 DEF Holds

LEMMA FatalFirstAppend ==
  ASSUME NEW q \in Seq(Item), NEW m \in Seq(Item), FatalFirst(q)
  PROVE  FatalFirst(q \o m)
<1>1. PICK j \in DOMAIN q : q[j] = Fatal /\ \A i \in 1 .. j - 1 : q[i] # Quiescent
  BY DEF FatalFirst
<1>2. /\ Len(q) \in Nat /\ Len(m) \in Nat /\ DOMAIN q = 1 .. Len(q)
      /\ DOMAIN (q \o m) = 1 .. Len(q) + Len(m)
      /\ \A i \in 1 .. Len(q) : (q \o m)[i] = q[i]
  BY ConcatProperties, LenProperties
<1>3. j \in DOMAIN (q \o m) /\ (q \o m)[j] = Fatal
  BY <1>1, <1>2
<1>4. \A i \in 1 .. j - 1 : (q \o m)[i] # Quiescent
  BY <1>1, <1>2
<1> QED
  BY <1>3, <1>4 DEF FatalFirst

LEMMA FatalFirstBorn ==
  ASSUME NEW q \in Seq(Item), ~HasQuiet(q)
  PROVE  <<Fatal>> \in Seq(Item) /\ q \o <<Fatal>> \in Seq(Item) /\ FatalFirst(q \o <<Fatal>>)
<1> DEFINE r == q \o <<Fatal>>
<1>1. <<Fatal>> \in Seq(Item)
  BY DEF Item
<1>2. /\ Len(q) \in Nat /\ DOMAIN q = 1 .. Len(q) /\ r \in Seq(Item)
      /\ DOMAIN r = 1 .. Len(q) + 1 /\ r[Len(q) + 1] = Fatal
      /\ \A i \in 1 .. Len(q) : r[i] = q[i]
  BY <1>1, ConcatProperties, LenProperties
<1> HIDE DEF r
<1>3. \A i \in 1 .. (Len(q) + 1) - 1 : r[i] # Quiescent
  BY <1>2 DEF HasQuiet
<1>4. FatalFirst(r)
  BY <1>2, <1>3 DEF FatalFirst
<1> QED
  BY <1>1, <1>2, <1>4 DEF r

\* An emission m, perhaps a Fatal a, perhaps a Quiescent b, put after q.
Puts(q, m, a, b) ==
  /\ m \in Seq(Item) /\ ~Holds(m, Fatal) /\ ~HasQuiet(m)
  /\ b \in Seq(Item) /\ ~Holds(b, Fatal)
  /\ queue' = q \o m \o a \o b
  /\ \/ a = <<>> /\ fatal' = fatal
     \/ a = <<Fatal>> /\ fatal' # "none"

LEMMA PutsKeep ==
  ASSUME NEW q \in Seq(Item), ~HasQuiet(q), NEW m, NEW a, NEW b, Puts(q, m, a, b)
  PROVE  /\ (fatal # "none" => FatalFirst(q)) => (fatal' # "none" => FatalFirst(queue'))
         /\ fatal # "none" => fatal' # "none"
         /\ Holds(queue', Fatal) => Holds(q, Fatal) \/ fatal' # "none"
<1> DEFINE r == q \o m
<1>1. r \in Seq(Item) /\ ~HasQuiet(r) /\ (FatalFirst(q) => FatalFirst(r))
      /\ (Holds(r, Fatal) => Holds(q, Fatal)) /\ queue' = r \o a \o b
      /\ b \in Seq(Item) /\ ~Holds(b, Fatal)
  BY QuietAppend, FatalFirstAppend, HoldsAppend DEF Puts
<1> HIDE DEF r
<1>2. CASE a = <<>> /\ fatal' = fatal
  <2>1. queue' = r \o b
    BY <1>1, <1>2, ConcatEmptySeq
  <2> QED
    BY <1>1, <1>2, <2>1, FatalFirstAppend, HoldsAppend
<1>3. CASE a = <<Fatal>> /\ fatal' # "none"
  <2>1. r \o a \in Seq(Item) /\ FatalFirst(r \o a)
    BY <1>1, <1>3, FatalFirstBorn
  <2> QED
    BY <1>1, <1>3, <2>1, FatalFirstAppend
<1> QED
  BY <1>2, <1>3 DEF Puts

LEMMA MarksPut ==
  /\ \A f, k : ~Holds(Msgs(f, k), Fatal)
  /\ \A gain : ~Holds(QuietMark(gain), Fatal)
  /\ \A why : SetFatal(why) => \/ FatalMark(why) = <<>> /\ fatal' = fatal
                               \/ FatalMark(why) = <<Fatal>> /\ fatal' # "none"
  /\ ~Holds(<<>>, Fatal)
<1>1. ASSUME NEW f, NEW k PROVE ~Holds(Msgs(f, k), Fatal)
  BY DEF Holds, Msgs, Fatal
<1>2. ASSUME NEW gain PROVE ~Holds(QuietMark(gain), Fatal)
  BY DEF Holds, QuietMark, Fatal, Quiescent
<1>3. ASSUME NEW why, SetFatal(why)
      PROVE  \/ FatalMark(why) = <<>> /\ fatal' = fatal
             \/ FatalMark(why) = <<Fatal>> /\ fatal' # "none"
  BY <1>3 DEF SetFatal, FatalMark
<1>4. ~Holds(<<>>, Fatal)
  BY DEF Holds
<1> QED
  BY <1>1, <1>2, <1>3, <1>4

LEMMA TaskPuts ==
  ASSUME TypeInv, NEW t \in Task, TaskStep(t)
  PROVE  UNCHANGED <<queue, fatal>> \/ \E m, a, b : Puts(queue, m, a, b)
<1>1. queue \in Seq(Item) /\ frameOf[t] \in Frame /\ <<>> \in Seq(Item)
  BY DEF TypeInv, SchedType, TaskType
<1>2. CASE Ends(t)
  <2>1. PICK k \in Nat, why \in Reason, V \in SUBSET Live :
          \E notes : FiringEnds(t, k, notes, why, V)
    BY <1>2, EndsByFiringEnds
  <2>2. PICK notes : FiringEnds(t, k, notes, why, V)
    BY <2>1
  <2> DEFINE m == Msgs(frameOf[t], k)
             a == FatalMark(why)
             b == QuietMark(Room(k))
             q == queue
  <2>3. queue' = q \o (m \o a \o b) /\ SetFatal(why)
    BY <2>2 DEF FiringEnds
  <2>4. m \in Seq(Item) /\ ~HasQuiet(m) /\ ~Holds(m, Fatal) /\ a \in Seq(Item)
    BY <1>1, MsgsType, MsgsNotQuiet, MarksPut, MarkTypes
  <2>5. b \in Seq(Item) /\ ~Holds(b, Fatal)
    <3>1. Room(k) \in Int
      BY RoomType
    <3> QED
      BY <3>1, MarkTypes, MarksPut
  <2>6. (a = <<>> /\ fatal' = fatal) \/ (a = <<Fatal>> /\ fatal' # "none")
    BY <2>3, MarksPut
  <2>7. q \in Seq(Item)
    BY <1>1
  <2> HIDE DEF m, a, b, q
  <2>8. q \o (m \o a \o b) = q \o m \o a \o b
    <3>1. m \o a \in Seq(Item) /\ q \o ((m \o a) \o b) = (q \o (m \o a)) \o b
      BY <2>4, <2>5, <2>7, ConcatProperties, ConcatAssociative, SMTT(30)
    <3>2. q \o (m \o a) = (q \o m) \o a
      BY <2>4, <2>7, ConcatAssociative
    <3> QED
      BY <3>1, <3>2
  <2>9. Puts(q, m, a, b)
    BY <2>3, <2>4, <2>5, <2>6, <2>8 DEF Puts
  <2> QED
    BY <2>9 DEF q
<1>3. CASE FiringWaits(t) \/ FiringNeverStarts(t)
  BY <1>3 DEF FiringWaits, FiringNeverStarts, pumpVars
<1>4. ASSUME NEW k \in 0 .. MaxFan, NEW S \in SeedTasks, FlowOpens(t, k, S)
      PROVE  \E m, a, b : Puts(queue, m, a, b)
  <2> DEFINE m == Msgs(NextFrame, k)
  <2>1. NextFrame \in Frame /\ k \in Nat
    BY <1>4, NextFrameType, Bounds DEF FlowOpens
  <2>2. m \in Seq(Item) /\ ~HasQuiet(m) /\ ~Holds(m, Fatal)
    BY <2>1, MsgsType, MsgsNotQuiet, MarksPut
  <2>3. queue' = queue \o m /\ fatal' = fatal
    BY <1>4 DEF FlowOpens
  <2> HIDE DEF m
  <2>4. queue' = queue \o m \o <<>> \o <<>>
    BY <1>1, <2>2, <2>3, ConcatEmptySeq
  <2>5. Puts(queue, m, <<>>, <<>>)
    BY <1>1, <2>2, <2>3, <2>4, MarksPut DEF Puts
  <2> QED
    BY <2>5
<1>5. ASSUME NEW k \in 1 .. MaxFan, FlowOverspends(t, k)
      PROVE  \E m, a, b : Puts(queue, m, a, b)
  <2> DEFINE m == Msgs(NextFrame, k)
             b == QuietMark(Room(k))
             q == queue
  <2>1. NextFrame \in Frame /\ k \in Nat
    <3>1. \E f \in Frame : path[f] = {}
      BY <1>5 DEF FlowOverspends
    <3> QED
      BY <3>1, NextFrameType, Bounds
  <2>2. m \in Seq(Item) /\ ~HasQuiet(m) /\ ~Holds(m, Fatal) /\ q \in Seq(Item)
    BY <1>1, <2>1, MsgsType, MsgsNotQuiet, MarksPut
  <2>3. b \in Seq(Item) /\ ~Holds(b, Fatal)
    <3>1. Room(k) \in Int
      BY <2>1, RoomType
    <3> QED
      BY <3>1, MarkTypes, MarksPut
  <2>4. queue' = q \o (m \o <<Fatal>>) \o b /\ fatal' # "none"
    BY <1>5 DEF FlowOverspends, SetFatal
  <2> HIDE DEF m, b, q
  <2>5. <<Fatal>> \in Seq(Item)
    BY DEF Item
  <2>6. queue' = q \o m \o <<Fatal>> \o b
    BY <2>2, <2>4, <2>5, ConcatAssociative
  <2>7. Puts(q, m, <<Fatal>>, b)
    BY <2>2, <2>3, <2>4, <2>6 DEF Puts
  <2> QED
    BY <2>7 DEF q
<1> QED
  BY <1>2, <1>3, <1>4, <1>5 DEF TaskStep, Ends

\* The fatal sentinel speaks the truth and precedes any quiescence sentinel; a
\* run that stops quietly had no reason to stop otherwise, and the state agrees.
FatalInv ==
  /\ Holds(queue, Fatal) => fatal # "none" \/ aborted
  /\ stopped = "no" /\ fatal # "none" => FatalFirst(queue)
  /\ stopped = "halted" => Halted
  /\ stopped = "quiet" => fatal = "none" /\ ~late
  /\ outcome \in {"passed", "failed"} => stopped = "quiet" /\ ~Halted
  /\ outcome = "error" => stopped = "halted"

\* A step that neither stops the pump nor reports a state.
LEMMA FatalKept ==
  ASSUME FatalInv, UNCHANGED <<stopped, outcome, late, aborted, interrupt>>, outcome = "none",
         fatal # "none" => fatal' # "none", stopped = "quiet" => fatal' = fatal,
         stopped = "no" => (fatal' # "none" => FatalFirst(queue')),
         Holds(queue', Fatal) => Holds(queue, Fatal) \/ fatal' # "none"
  PROVE  FatalInv'
BY DEF FatalInv, Halted

LEMMA TaskStepFatal ==
  ASSUME TypeInv, CountInv, QuietInv, UnopenedInv, StageInv, FatalInv,
         NEW t \in Task, TaskStep(t)
  PROVE  FatalInv'
<1>1. /\ UNCHANGED <<stopped, outcome, late, aborted, interrupt>>
      /\ outcome = "none" /\ pc[t] # "free"
  BY TaskLeaves
<1>2. stopped # "quiet" /\ ~HasQuiet(queue) /\ queue \in Seq(Item)
  BY <1>1, BusyNotQuiet DEF TypeInv, SchedType
<1>3. CASE UNCHANGED <<queue, fatal>>
  BY <1>1, <1>2, <1>3, FatalKept DEF FatalInv
<1>4. ASSUME NEW m, NEW a, NEW b, Puts(queue, m, a, b)
      PROVE  FatalInv'
  <2>1. /\ (fatal # "none" => FatalFirst(queue)) => (fatal' # "none" => FatalFirst(queue'))
        /\ fatal # "none" => fatal' # "none"
        /\ Holds(queue', Fatal) => Holds(queue, Fatal) \/ fatal' # "none"
    BY <1>2, <1>4, PutsKeep
  <2> QED
    BY <1>1, <1>2, <2>1, FatalKept DEF FatalInv
<1> QED
  BY <1>3, <1>4, TaskPuts

\* A delivery takes the head of the queue and puts back an emission and marks.
LEMMA ReceivesPuts ==
  ASSUME TypeInv, NEW f \in Frame, NEW k \in Nat, NEW S \in SUBSET (Task \ Live),
         IsFiniteSet(S), Receives(f, k, S)
  PROVE  \E m, a, b : Puts(Tail(queue), m, a, b)
<1> DEFINE gain == Room(k) + Cardinality(S)
           why == IF Over(k) THEN "budget_exhausted" ELSE "none"
           m == Msgs(f, k)
           a == FatalMark(why)
           b == QuietMark(gain)
<1>1. queue' = Tail(queue) \o m \o a \o b /\ SetFatal(why)
  BY DEF Receives, Consume
<1>2. m \in Seq(Item) /\ ~HasQuiet(m) /\ ~Holds(m, Fatal)
  BY MsgsType, MsgsNotQuiet, MarksPut
<1>3. b \in Seq(Item) /\ ~Holds(b, Fatal)
  <2>1. gain \in Int
    BY RoomType, FS_CardinalityType
  <2> QED
    BY <2>1, MarkTypes, MarksPut
<1>4. (a = <<>> /\ fatal' = fatal) \/ (a = <<Fatal>> /\ fatal' # "none")
  BY <1>1, MarksPut
<1> HIDE DEF m, a, b
<1>5. Puts(Tail(queue), m, a, b)
  BY <1>1, <1>2, <1>3, <1>4 DEF Puts
<1> QED
  BY <1>5

LEMMA ReceivesFatal ==
  ASSUME TypeInv, CountInv, QuietInv, StageInv, FatalInv, NEW f \in Frame, NEW k \in Nat,
         NEW S \in SUBSET (Task \ Live), IsFiniteSet(S), Receives(f, k, S)
  PROVE  FatalInv'
<1>1. /\ UNCHANGED <<stopped, outcome, late, aborted, interrupt>>
      /\ pump = "run" /\ queue # <<>> /\ Head(queue).tag = "msg" /\ Delivers(f)
  BY DEF Receives, Consume, Delivers
<1>2. outcome = "none" /\ stopped = "no"
  BY <1>1 DEF StageInv
<1>3. ~HasQuiet(queue) /\ queue \in Seq(Item)
  BY <1>1, DeliveryNotQuiet DEF TypeInv, SchedType
<1>4. /\ Tail(queue) \in Seq(Item) /\ ~HasQuiet(Tail(queue))
      /\ FatalFirst(queue) => FatalFirst(Tail(queue))
      /\ Holds(Tail(queue), Fatal) => Holds(queue, Fatal)
  BY <1>1, <1>3, TailHolds, QuietTail DEF Fatal
<1>5. PICK m, a, b : Puts(Tail(queue), m, a, b)
  BY ReceivesPuts
<1>6. /\ (fatal # "none" => FatalFirst(Tail(queue))) => (fatal' # "none" => FatalFirst(queue'))
      /\ fatal # "none" => fatal' # "none"
      /\ Holds(queue', Fatal) => Holds(Tail(queue), Fatal) \/ fatal' # "none"
  BY <1>4, <1>5, PutsKeep
<1> QED
  BY <1>1, <1>2, <1>4, <1>6, FatalKept DEF FatalInv

LEMMA LeavesFatal ==
  ASSUME TypeInv, StageInv, QuietInv, UnopenedInv, FatalInv, Leaves
  PROVE  FatalInv'
<1>1. queue \in Seq(Item)
  BY DEF TypeInv, SchedType
<1>2. CASE BindFails
  BY <1>2 DEF BindFails, LeavePump, runVars, Runs, FatalInv, Halted
<1>3. CASE PumpGivesUp
  BY <1>3 DEF PumpGivesUp, LeavePump, SetFatal, MustStop, runVars, Runs, FatalInv, Halted
<1>4. CASE PumpInterrupted
  <2>1. /\ stopped' = "halted" /\ outcome' = outcome /\ outcome = "none"
        /\ UNCHANGED <<aborted, late, interrupt>> /\ (fatal # "none" => fatal' # "none")
    BY <1>4 DEF PumpInterrupted, LeavePump, SetFatal, runVars, Runs
  <2>2. CASE interrupt = "deadline"
    <3>1. fatal' # "none"
      BY <1>4, <2>2 DEF PumpInterrupted, SetFatal
    <3> QED
      BY <2>1, <3>1 DEF FatalInv, Halted
  <2>3. CASE interrupt = "caller"
    <3>1. queue' = queue
      BY <1>1, <1>4, <2>3, ConcatEmptySeq DEF PumpInterrupted
    <3> QED
      BY <2>1, <2>3, <3>1 DEF FatalInv, Halted
  <2> QED
    BY <1>4, <2>2, <2>3 DEF PumpInterrupted, TypeInv, PumpType
<1>5. CASE PumpStops
  <2>1. /\ pump = "run" /\ queue # <<>> /\ stopped = "no" /\ outcome = "none"
        /\ UNCHANGED <<outcome, late, aborted, interrupt>>
    BY <1>5 DEF PumpStops, StageInv, runVars
  <2>2. /\ Head(queue) \in Item /\ Holds(queue, Head(queue))
        /\ Head(queue) = Quiescent => ~FatalFirst(queue)
        /\ \A x : Holds(Tail(queue), x) => Holds(queue, x)
        /\ Tail(queue) \in Seq(Item)
    BY <1>1, <2>1, TailHolds
  <2>3. Head(queue) = Fatal \/ Head(queue) = Quiescent
    BY <1>5, <2>2 DEF PumpStops, Item, Delivery
  <2>4. Fatal # Quiescent
    BY DEF Fatal, Quiescent
  <2>5. CASE Head(queue) = Quiescent /\ ~late
    <3>1. stopped' = "quiet" /\ fatal' = fatal /\ fatal = "none"
      BY <1>5, <2>1, <2>2, <2>5 DEF PumpStops, Refused, LeavePump, SetFatal, FatalInv
    <3>2. queue' = Tail(queue)
      <4>1. queue' = Tail(queue) \o <<>>
        BY <1>5, <2>5 DEF PumpStops, Refused
      <4> QED
        BY <2>2, <4>1, ConcatEmptySeq
    <3> QED
      BY <2>1, <2>2, <2>5, <3>1, <3>2 DEF FatalInv
  <2>6. CASE Head(queue) = Quiescent /\ late
    <3>1. stopped' = "halted" /\ fatal' # "none"
      BY <1>5, <2>6 DEF PumpStops, Refused, LeavePump, SetFatal
    <3> QED
      BY <2>1, <3>1 DEF FatalInv, Halted
  <2>7. CASE Head(queue) = Fatal
    <3>1. stopped' = "halted" /\ fatal' = fatal /\ (fatal # "none" \/ aborted)
      BY <1>5, <2>2, <2>4, <2>7 DEF PumpStops, Refused, LeavePump, SetFatal, FatalInv
    <3> QED
      BY <2>1, <3>1 DEF FatalInv, Halted
  <2> QED
    BY <2>3, <2>5, <2>6, <2>7
<1>6. ASSUME NEW k \in 0 .. MaxFan, NEW S \in SeedTasks, SeedRoot(k, S)
      PROVE  FatalInv'
  <2>1. /\ pump = "new" /\ outcome = "none" /\ stopped = "no" /\ fatal = "none" /\ ~late
        /\ UNCHANGED <<outcome, late, aborted, interrupt>>
    BY <1>6 DEF SeedRoot, Runs, runVars, StageInv
  <2>2. CASE Over(k)
    <3>1. fatal' # "none" /\ stopped' = "halted"
      BY <1>6, <2>2 DEF SeedRoot, SetFatal, LeavePump
    <3> QED
      BY <2>1, <3>1 DEF FatalInv, Halted
  <2>3. CASE ~Over(k)
    <3>1. fatal' = "none" /\ (stopped' = "quiet" \/ stopped' = "no")
      BY <1>6, <2>1, <2>3 DEF SeedRoot, SetFatal, LeavePump
    <3>2. queue' = queue \o Msgs(Root, k) \o <<>>
      BY <1>6, <2>3 DEF SeedRoot, FatalMark
    <3>3. Msgs(Root, k) \in Seq(Item) /\ ~Holds(Msgs(Root, k), Fatal)
      BY MsgsType, Bounds, MarksPut
    <3>4. Holds(queue', Fatal) => Holds(queue, Fatal)
      <4>1. queue \o Msgs(Root, k) \in Seq(Item)
        BY <1>1, <3>3, ConcatProperties
      <4>2. queue' = queue \o Msgs(Root, k)
        BY <3>2, <4>1, ConcatEmptySeq
      <4> QED
        BY <1>1, <3>3, <4>2, HoldsAppend
    <3> QED
      BY <2>1, <3>1, <3>4 DEF FatalInv
  <2> QED
    BY <2>2, <2>3
<1> QED
  BY <1>2, <1>3, <1>4, <1>5, <1>6 DEF Leaves

LEMMA OtherStepFatal ==
  ASSUME TypeInv, StageInv, FatalInv, OtherStep
  PROVE  FatalInv'
<1>1. queue \in Seq(Item)
  BY DEF TypeInv, SchedType
<1>2. CASE Abort
  <2>1. /\ aborted' /\ UNCHANGED <<stopped, fatal, late, interrupt, outcome>>
        /\ queue' = queue \o AbortMark /\ outcome = "none"
    BY <1>2 DEF Abort
  <2>2. FatalFirst(queue) => FatalFirst(queue')
    BY <1>1, <2>1, MarkTypes, FatalFirstAppend
  <2> QED
    BY <2>1, <2>2 DEF FatalInv, Halted
<1>3. CASE Finalize
  <2>1. /\ UNCHANGED <<queue, fatal, stopped, late, aborted, interrupt>>
        /\ outcome = "none" /\ cleanup = "done"
    BY <1>3 DEF Finalize, schedVars, pumpVars
  <2>2. stopped # "no"
    BY <2>1 DEF StageInv
  <2>3. /\ outcome' \in {"passed", "failed"} => ~Halted
        /\ outcome' = "error" => fatal # "none"
    BY <1>3 DEF Finalize, Halted
  <2> QED
    BY <2>1, <2>2, <2>3 DEF FatalInv, Halted, TypeInv, PumpType
<1>4. CASE ClockPasses
  <2>1. UNCHANGED <<queue, fatal, stopped, aborted, interrupt, outcome>> /\ stopped = "no"
        /\ outcome = "none"
    BY <1>4 DEF ClockPasses, schedVars, pumpVars, StageInv
  <2> QED
    BY <2>1 DEF FatalInv, Halted
<1>5. CASE DeadlineFires \/ CallerCancels
  <2>1. UNCHANGED <<queue, fatal, stopped, aborted, late, outcome>> /\ outcome = "none"
        /\ (interrupt = "caller" => interrupt' = "caller")
    BY <1>5 DEF DeadlineFires, CallerCancels, Interrupts, runVars
  <2> QED
    BY <2>1 DEF FatalInv, Halted
<1>6. CASE CleanupStarts \/ CleanupEnds \/ (\E t \in Task : IoEnds(t) \/ CeilingTrips(t))
           \/ UNCHANGED vars
  <2>1. UNCHANGED <<queue, fatal, stopped, aborted, late, interrupt, outcome>>
    BY <1>6 DEF CleanupStarts, CleanupEnds, IoEnds, CeilingTrips, vars, schedVars, pumpVars,
                runVars
  <2> QED
    BY <2>1 DEF FatalInv, Halted
<1> QED
  BY <1>2, <1>3, <1>4, <1>5, <1>6 DEF OtherStep

LEMMA EndInvariant ==
  Spec => [](TypeInv /\ CountInv /\ UnopenedInv /\ QuietInv /\ StageInv /\ FatalInv)
<1>1. Init => StageInv /\ FatalInv
  BY DEF Init, StageInv, FatalInv, Halted, Holds
<1>2. TypeInv /\ CountInv /\ UnopenedInv /\ StageInv /\ [Next]_vars => StageInv'
  BY StageStep
<1>3. ASSUME TypeInv, CountInv, UnopenedInv, QuietInv, StageInv, FatalInv, [Next]_vars
      PROVE  FatalInv'
  <2>1. CASE PumpBlocks \/ PumpResumes
    <3>1. UNCHANGED <<queue, fatal, stopped, aborted, late, interrupt, outcome>>
      BY <2>1 DEF PumpBlocks, PumpResumes, schedVars, pumpVars, runVars
    <3> QED
      BY <1>3, <3>1 DEF FatalInv, Halted
  <2>2. CASE PumpStep
    BY <1>3, <2>1, <2>2, PumpKinds, LeavesFatal, ReceivesFatal
  <2> QED
    BY <1>3, <2>2, ThreeKinds, TaskStepFatal, OtherStepFatal
<1> QED
  BY <1>1, <1>2, <1>3, QuietInvariant, PTL DEF Spec

\* Once the run deadline has passed while the pump is at work, the run neither
\* stops quietly nor reports passed or failed (engine.py: _deadline_expired is
\* asked before quiescence is accepted, and at every control point).
THEOREM DeadlineAlwaysWins == Spec => []DeadlineWins
<1>1. FatalInv => DeadlineWins
  BY DEF FatalInv, DeadlineWins
<1> QED
  BY <1>1, EndInvariant, PTL

\* Once cleanup waits, every unfinished task is among those it waits for and has
\* been told to stop; when cleanup is over there is none.
GatherInv ==
  /\ cleanup \in {"gather", "done"} => \A t \in Live : t \in gathered /\ cancel[t] = "frame"
  /\ cleanup = "done" => Live = {}

LEMMA GatherKept ==
  ASSUME GatherInv, UNCHANGED <<cleanup, gathered, cancel>>, Live' \subseteq Live
  PROVE  GatherInv'
BY DEF GatherInv

LEMMA GatherStep ==
  ASSUME TypeInv, CountInv, UnopenedInv, StageInv, GatherInv, [Next]_vars
  PROVE  GatherInv'
<1>1. ASSUME NEW t \in Task, TaskStep(t) PROVE GatherInv'
  <2>1. UNCHANGED <<cleanup, gathered>> /\ t \in Live
    BY <1>1, TaskLeaves DEF Live
  <2>2. CASE cleanup \notin {"gather", "done"}
    BY <2>1, <2>2 DEF GatherInv
  <2>3. CASE cleanup \in {"gather", "done"}
    <3>1. cleanup = "gather" /\ cancel[t] = "frame"
      BY <2>1, <2>3 DEF GatherInv
    <3>2. FiringUnwinds(t) \/ FiringNeverStarts(t)
      BY <1>1, <3>1 DEF TaskStep, FiringAnswers, FiringErrs, FiringCrashes, FiringWaits, FlowOpens,
         FlowOverspends, FlowReturns, FlowReturnsAtOnce, FiringTimesOut, Steps
    <3>3. \A u \in Task : pc'[u] # "free" => u # t /\ pc[u] # "free"
                                             /\ (cancel[u] = "frame" => cancel'[u] = "frame")
      <4>1. CASE FiringUnwinds(t)
        <5>1. FiringEnds(t, 0, <<>>, "none", Victims(t))
          BY <4>1 DEF FiringUnwinds
        <5> QED
          BY <5>1 DEF FiringEnds, Waiter, TypeInv, TaskType
      <4>2. CASE FiringNeverStarts(t)
        BY <4>2 DEF FiringNeverStarts, TypeInv, TaskType
      <4> QED
        BY <3>2, <4>1, <4>2
    <3>4. \A u \in Live' : u \in Live /\ (cancel[u] = "frame" => cancel'[u] = "frame")
      BY <3>3 DEF Live
    <3> QED
      BY <2>1, <3>1, <3>4 DEF GatherInv
  <2> QED
    BY <2>2, <2>3
<1>2. CASE PumpStep
  <2>1. cleanup = "none" /\ cleanup' \in {"none", "new"}
    <3>1. CASE Leaves
      BY <3>1 DEF Leaves, BindFails, PumpStops, PumpGivesUp, PumpInterrupted, SeedRoot, LeavePump,
                  StageInv
    <3>2. ASSUME NEW f, NEW k, NEW S, Receives(f, k, S)
          PROVE  pump = "run" /\ cleanup' = cleanup
      BY <3>2 DEF Receives, Delivers, Consume
    <3>3. CASE PumpBlocks \/ PumpResumes
      BY <3>3 DEF PumpBlocks, PumpResumes, StageInv
    <3> QED
      BY <1>2, <3>1, <3>2, <3>3, PumpKinds DEF StageInv
  <2> QED
    BY <2>1 DEF GatherInv
<1>3. CASE CleanupStarts
  BY <1>3 DEF CleanupStarts, GatherInv, Live
<1>4. CASE CleanupEnds
  BY <1>4 DEF CleanupEnds, AllGathered, GatherInv, taskVars, Live
<1>5. ASSUME NEW t \in Task, CeilingTrips(t) PROVE GatherInv'
  <2>1. UNCHANGED <<cleanup, gathered>> /\ t \in Live /\ cancel[t] # "frame"
    BY <1>5 DEF CeilingTrips, pumpVars, Live
  <2>2. cleanup \notin {"gather", "done"}
    BY <2>1 DEF GatherInv
  <2> QED
    BY <2>1, <2>2 DEF GatherInv
<1>6. ASSUME NEW t \in Task, IoEnds(t) PROVE GatherInv'
  <2>1. UNCHANGED <<cleanup, gathered, cancel>>
    BY <1>6 DEF IoEnds, pumpVars
  <2>2. Live' \subseteq Live
    BY <1>6 DEF IoEnds, Live, TypeInv, TaskType
  <2> QED
    BY <2>1, <2>2, GatherKept
<1>7. CASE DeadlineFires \/ Finalize \/ Abort \/ ClockPasses \/ CallerCancels \/ UNCHANGED vars
  <2>1. UNCHANGED <<cleanup, gathered, pc, cancel>>
    BY <1>7 DEF DeadlineFires, Finalize, Abort, ClockPasses, CallerCancels, Interrupts, vars,
                taskVars, pumpVars
  <2> QED
    BY <2>1, GatherKept DEF Live
<1> QED
  BY <1>1, <1>2, <1>3, <1>4, <1>5, <1>6, <1>7, ThreeKinds DEF OtherStep

\* When a run reports its state no task of it is unfinished (engine.py:
\* _close_runtime cancels and gathers every task before _finalize).
THEOREM NothingIsLeftRunning == Spec => []NothingLeftRunning
<1>1. Init => GatherInv
  BY DEF Init, GatherInv
<1>2. TypeInv /\ CountInv /\ UnopenedInv /\ StageInv /\ GatherInv /\ [Next]_vars => GatherInv'
  BY GatherStep
<1>3. StageInv /\ GatherInv => NothingLeftRunning
  BY DEF StageInv, GatherInv, NothingLeftRunning
<1> QED
  BY <1>1, <1>2, <1>3, EndInvariant, PTL DEF Spec

\* Outstanding work, read off the counters.
LEMMA BusyCounts ==
  TypeInv /\ CountInv => /\ Busy <=> inFlight # stranded
                         /\ inFlight = 0 => stranded = 0
<1> SUFFICES ASSUME TypeInv, CountInv
             PROVE  (Busy <=> inFlight # stranded) /\ (inFlight = 0 => stranded = 0)
  OBVIOUS
<1> DEFINE I == Ids(queue, Frame)
           L == LiveIn(Frame)
<1>1. /\ Cardinality(I) \in Nat /\ Cardinality(L) \in Nat
      /\ IsFiniteSet(I) /\ IsFiniteSet(L)
  BY LoadType DEF CountInv
<1>2. inFlight = Cardinality(I) + Cardinality(L) + stranded /\ stranded \in Nat
  BY DEF CountInv, Load, TypeInv, TaskType
<1>3. Queued = {} <=> I = {}
  <2>1. queue \in Seq(Item)
    BY DEF TypeInv, SchedType
  <2>2. Queued = MsgAt(queue, Frame)
    BY <2>1, ItemFields DEF MsgAt, Queued
  <2> QED
    BY <2>2 DEF Ids
<1>4. Live = L
  BY DEF LiveIn, Live, TypeInv, TaskType
<1> HIDE DEF I, L
<1>5. (I = {} <=> Cardinality(I) = 0) /\ (L = {} <=> Cardinality(L) = 0)
  BY <1>1, FS_EmptySet
<1>6. Busy <=> I # {} \/ L # {}
  BY <1>3, <1>4 DEF Busy
<1> QED
  BY <1>1, <1>2, <1>5, <1>6

\* Where the run stands, as its contract sees it.
Phase == CASE pump = "new" -> "new"
           [] pump # "new" /\ stopped = "no" -> "pumping"
           [] OTHER -> stopped

LEMMA PhaseType ==
  ASSUME TypeInv, StageInv
  PROVE  /\ pump = "new" => Phase = "new" /\ stopped = "no"
         /\ pump # "new" /\ pump # "closing" => Phase = "pumping" /\ stopped = "no"
         /\ pump = "closing" => Phase = stopped /\ stopped \in {"quiet", "halted"}
BY DEF Phase, StageInv, TypeInv, PumpType

LEMMA ContractStep ==
  ASSUME TypeInv, CountInv, UnopenedInv, QuietInv, StageInv, FatalInv, TypeInv', CountInv',
         StageInv', [Next]_vars
  PROVE  [Contract!Next]_(Contract!vars)
<1> USE DEF Phase
<1>1. /\ Busy <=> inFlight # stranded
      /\ inFlight = 0 => stranded = 0
      /\ Busy' <=> inFlight' # stranded'
      /\ Busy' \in BOOLEAN /\ Busy \in BOOLEAN
  <2>1. (TypeInv /\ CountInv => /\ Busy <=> inFlight # stranded
                                /\ inFlight = 0 => stranded = 0)'
    BY BusyCounts, PTL
  <2>2. Busy' \in BOOLEAN /\ Busy \in BOOLEAN
    BY DEF Busy
  <2> QED
    BY <2>1, <2>2, BusyCounts
<1>2. /\ pump = "new" => Phase = "new" /\ stopped = "no"
      /\ pump # "new" /\ pump # "closing" => Phase = "pumping" /\ stopped = "no"
      /\ pump = "closing" => Phase = stopped /\ stopped \in {"quiet", "halted"}
  BY PhaseType
<1> HIDE DEF Phase
<1>3. ASSUME outcome' = outcome, Phase' = Phase, Busy PROVE Contract!Work
  BY <1>1, <1>3 DEF Contract!Work, Phase
<1>4. ASSUME UNCHANGED <<outcome, pump, stopped, inFlight, stranded>>
      PROVE  UNCHANGED Contract!vars
  <2>1. Busy' = Busy
    BY <1>1, <1>4
  <2> QED
    BY <1>4, <2>1 DEF Contract!vars
<1>5. ASSUME NEW t \in Task, TaskStep(t) PROVE Contract!Work
  <2>1. UNCHANGED <<stopped, outcome>> /\ pump' \in {pump, "woken"} /\ pump # "new" /\ Live # {}
    BY <1>5, TaskLeaves, FiringFrameOpen DEF Live
  <2>2. Phase' = Phase /\ Busy
    BY <2>1 DEF Phase, Busy
  <2> QED
    BY <1>3, <2>1, <2>2
<1>6. ASSUME NEW f, NEW k, NEW S, Receives(f, k, S) PROVE Contract!Work
  <2>1. /\ UNCHANGED <<stopped, outcome>> /\ pump = "run" /\ pump' \in {"run", "yield"}
        /\ queue # <<>> /\ Head(queue).tag = "msg"
    BY <1>6 DEF Receives, Delivers, Consume
  <2>2. Queued # {}
    <3>1. queue \in Seq(Item)
      BY DEF TypeInv, SchedType
    <3>2. 1 \in DOMAIN queue /\ Head(queue) = queue[1]
      BY <2>1, <3>1, HeadTailProperties, EmptySeq, LenProperties
    <3> QED
      BY <2>1, <3>2 DEF Queued
  <2>3. Phase' = Phase /\ Busy
    BY <2>1, <2>2 DEF Phase, Busy
  <2> QED
    BY <1>3, <2>1, <2>3
<1>7. CASE PumpGivesUp \/ PumpInterrupted
  <2>1. /\ Phase = "pumping" /\ pump' = "closing" /\ stopped' = "halted" /\ outcome' = outcome
        /\ UNCHANGED <<inFlight, stranded>>
    BY <1>2, <1>7 DEF PumpGivesUp, PumpInterrupted, LeavePump, runVars, taskVars
  <2>2. Phase' = "halted"
    BY <2>1 DEF Phase
  <2>3. Busy' = Busy
    BY <1>1, <2>1
  <2>4. Contract!Halt
    BY <2>1, <2>2, <2>3 DEF Contract!Halt, Phase
  <2> QED
    BY <2>4 DEF Contract!Next
<1>8. CASE PumpStops
  <2>1. /\ Phase = "pumping" /\ pump' = "closing" /\ outcome' = outcome
        /\ UNCHANGED <<inFlight, stranded>> /\ queue # <<>>
        /\ \/ stopped' = "quiet" /\ Head(queue) = Quiescent
           \/ stopped' = "halted"
    BY <1>2, <1>8 DEF PumpStops, LeavePump, runVars, taskVars
  <2>2. Phase' = stopped'
    BY <2>1 DEF Phase
  <2>3. Busy' = Busy
    BY <1>1, <2>1
  <2>4. CASE stopped' = "halted"
    <3>1. Contract!Halt
      BY <2>1, <2>2, <2>3, <2>4 DEF Contract!Halt, Phase
    <3> QED
      BY <3>1 DEF Contract!Next
  <2>5. CASE stopped' = "quiet" /\ Head(queue) = Quiescent
    <3>1. inFlight = 0
      BY <2>1, <2>5, QuietTail DEF QuietInv, TypeInv, SchedType
    <3>2. Contract!DeclareQuiet
      BY <1>1, <2>1, <2>2, <2>3, <2>5, <3>1 DEF Contract!DeclareQuiet, Phase
    <3> QED
      BY <3>2 DEF Contract!Next
  <2> QED
    BY <2>1, <2>4, <2>5
<1>9. CASE BindFails
  <2>1. Phase = "new" /\ pump' = "closing" /\ stopped' = "halted" /\ outcome' = outcome
    BY <1>2, <1>9 DEF BindFails, LeavePump, runVars
  <2>2. Phase' = "halted"
    BY <2>1 DEF Phase
  <2>3. Contract!Start
    BY <1>1, <2>1, <2>2 DEF Contract!Start, Phase
  <2> QED
    BY <2>3 DEF Contract!Next
<1>10. ASSUME NEW k \in 0 .. MaxFan, NEW S \in SeedTasks, SeedRoot(k, S)
       PROVE  Contract!Start
  <2> DEFINE gain == Room(k) + Cardinality(IF Over(k) THEN {} ELSE S)
  <2>1. /\ Phase = "new" /\ outcome' = outcome /\ stranded' = stranded /\ inFlight' = gain
        /\ pump = "new" /\ stopped = "no"
    BY <1>2, <1>10 DEF SeedRoot, Runs, runVars
  <2>2. \/ pump' = "closing" /\ stopped' = "halted"
        \/ pump' = "closing" /\ stopped' = "quiet" /\ gain = 0
        \/ pump' = "run" /\ stopped' = stopped /\ gain # 0
    BY <1>10 DEF SeedRoot, LeavePump
  <2> HIDE DEF gain
  <2>3. stranded' = 0
    BY <1>1, <2>1 DEF UnopenedInv
  <2>4. \/ Phase' = "halted"
        \/ Phase' = "quiet" /\ gain = 0
        \/ Phase' = "pumping" /\ gain # 0
    BY <2>1, <2>2 DEF Phase
  <2>5. Busy' = (gain # 0)
    BY <1>1, <2>1, <2>3
  <2> QED
    BY <1>1, <2>1, <2>4, <2>5 DEF Contract!Start, Phase
<1>11. CASE Finalize
  <2>1. /\ outcome = "none" /\ UNCHANGED <<pump, stopped, inFlight, stranded>>
        /\ cleanup = "done"
    BY <1>11 DEF Finalize, schedVars, pumpVars, taskVars
  <2>2. pump = "closing" /\ Phase = stopped /\ stopped \in {"quiet", "halted"}
    BY <1>2, <2>1 DEF StageInv
  <2>3. Phase' = Phase /\ Busy' = Busy
    BY <1>1, <2>1 DEF Phase
  <2>4. /\ stopped = "quiet" => outcome' \in {"passed", "failed", "aborted", "cancelled"}
        /\ stopped = "halted" => outcome' \in {"error", "aborted", "cancelled"}
    BY <1>11 DEF Finalize, FatalInv, Halted
  <2>5. Contract!Report
    BY <2>1, <2>2, <2>3, <2>4 DEF Contract!Report, Phase
  <2> QED
    BY <2>5 DEF Contract!Next
<1>12. CASE PumpBlocks \/ PumpResumes \/ CleanupStarts \/ DeadlineFires \/ CleanupEnds
            \/ (\E t \in Task : IoEnds(t) \/ CeilingTrips(t)) \/ Abort \/ ClockPasses
            \/ CallerCancels \/ UNCHANGED vars
  <2>1. /\ UNCHANGED <<outcome, stopped, inFlight, stranded>>
        /\ \/ pump' = pump
           \/ pump \in {"run", "get", "woken", "yield"} /\ pump' \in {"run", "get", "woken"}
    BY <1>12 DEF PumpBlocks, PumpResumes, CleanupStarts, DeadlineFires, CleanupEnds, IoEnds,
         CeilingTrips, Abort, ClockPasses, CallerCancels, Interrupts, PumpAfter, vars, schedVars,
         pumpVars, taskVars, runVars, Suspended
  <2>2. Phase' = Phase
    BY <2>1 DEF Phase
  <2>3. Busy' = Busy
    BY <1>1, <2>1
  <2> QED
    BY <2>1, <2>2, <2>3 DEF Contract!vars, Phase
<1>13. CASE PumpStep
  BY <1>6, <1>7, <1>8, <1>9, <1>10, <1>12, <1>13, PumpKinds DEF Leaves, Contract!Next
<1> QED
  BY <1>5, <1>11, <1>12, <1>13, ThreeKinds DEF OtherStep, Contract!Next

\* Every run keeps the contract of RunContract: work is never born from nothing,
\* quiescence is declared only when nothing is outstanding, and how the run
\* stopped decides which states it may report (engine.py: execute).
THEOREM ContractIsKept == Spec => KeepsContract
<1>1. Init => Contract!Init
  BY DEF Init, Contract!Init, Busy, Queued, Live
<1>2. TypeInv /\ CountInv /\ UnopenedInv /\ QuietInv /\ StageInv /\ FatalInv
      /\ (TypeInv /\ CountInv /\ StageInv)' /\ [Next]_vars => [Contract!Next]_(Contract!vars)
  BY ContractStep
<1> QED
  BY <1>1, <1>2, EndInvariant, PTL DEF Spec, KeepsContract, Contract!Spec
================================================================================
