----------------------------- MODULE RunFrameProofs -----------------------------
(***************************************************************************)
(* The tree of frames of a run, for every value of RunCore's constants:     *)
(* what a subflow's frame, its firings and its deliveries have to do with    *)
(* the flow node that opened it, and with the counters it is judged by.      *)
(***************************************************************************)
EXTENDS RunCoreProofs

--------------------------------------------------------------------------------
(* The tree of frames *)

Awaiting(t) == pc[t] \in {"child", "childDone"}
Awaits(t, c) == Awaiting(t) /\ childOf[t] = c

\* A frame's path holds the frame, and the paths of the frames above it.
PathInv ==
  /\ \A f \in Frame : path[f] # {} => f \in path[f]
  /\ \A f, g \in Frame : f \in path[g] => path[f] # {} /\ path[f] \subseteq path[g]
  /\ path[Root] \subseteq {Root}
  /\ \A f \in Frame : path[f] # {} => path[Root] # {}
  /\ \A f \in frames : path[f] # {}

\* Cancellation reaches everything below a frame, the firings included.
CancelInv ==
  /\ \A f \in Frame : path[f] = {} => ~cancelled[f]
  /\ ~cancelled[Root]
  /\ \A f, g \in Frame : f \in path[g] /\ cancelled[f] => cancelled[g]
  /\ \A t \in Live : cancelled[frameOf[t]] => cancel[t] = "frame"

\* A flow node's firing waits for a frame right under its own, alone, and is
\* interrupted when that frame was cancelled.
AwaitInv ==
  \A t \in Task : Awaiting(t) =>
    /\ childOf[t] # Root /\ childOf[t] \notin path[frameOf[t]]
    /\ path[childOf[t]] = path[frameOf[t]] \cup {childOf[t]}
    /\ cancelled[childOf[t]] => cancel[t] # "none"
    /\ \A u \in Task : Awaits(u, childOf[t]) => u = t

\* What a step may do to an unfinished firing, and how a firing is born.
Stays(u) ==
  /\ pc[u] # "free" /\ frameOf'[u] = frameOf[u]
  /\ cancel[u] # "none" => cancel'[u] # "none"
  /\ cancel[u] = "frame" => cancel'[u] = "frame"
Goes(u) ==
  /\ Stays(u) /\ childOf'[u] = childOf[u]
  /\ pc'[u] \in {"child", "childDone"} <=> pc[u] \in {"child", "childDone"}
Born(u, f) == pc[u] = "free" /\ pc'[u] = "new" /\ frameOf'[u] = f

\* Frame c is opened under frame f, or as the root.
Opens(c, f) ==
  /\ path[c] = {}
  /\ path' = [path EXCEPT ![c] = (IF c = Root THEN {} ELSE path[f]) \cup {c}]
  /\ c # Root => path[f] # {} /\ ~cancelled[f]

LEMMA PathKept ==
  ASSUME TypeInv, PathInv, path' = path, frames' \subseteq frames
  PROVE  PathInv'
BY DEF PathInv

LEMMA PathGrows ==
  ASSUME TypeInv, PathInv, NEW c \in Frame, NEW f \in Frame, Opens(c, f),
         frames' \subseteq frames \cup {c}, c = Root \/ path[Root] # {}
  PROVE  PathInv' /\ (\A g \in Frame : c \notin path[g])
<1>1. path \in [Frame -> SUBSET Frame] /\ Root \in Frame /\ frames \subseteq Frame
  BY Bounds DEF TypeInv, TreeType
<1>2. \A g \in Frame : c \notin path[g]
  BY DEF Opens, PathInv
<1>3. /\ path'[c] = (IF c = Root THEN {} ELSE path[f]) \cup {c}
      /\ \A g \in Frame \ {c} : path'[g] = path[g]
  BY <1>1 DEF Opens
<1>4. \A g \in Frame : path[g] \subseteq path'[g] /\ (path'[g] # {} => g = c \/ path[g] # {})
  BY <1>3 DEF Opens
<1>5. \A g \in Frame : path'[g] # {} => g \in path'[g]
  BY <1>1, <1>3 DEF PathInv
<1>6. ASSUME NEW g \in Frame, NEW h \in Frame, g \in path'[h]
      PROVE  path'[g] # {} /\ path'[g] \subseteq path'[h]
  <2>1. CASE h # c
    <3>1. path'[h] = path[h] /\ g # c /\ path'[g] = path[g]
      BY <1>2, <1>3, <1>6, <2>1
    <3> QED
      BY <1>6, <3>1 DEF PathInv
  <2>2. CASE h = c /\ g # c
    <3>1. c # Root /\ g \in path[f] /\ path'[g] = path[g]
      BY <1>3, <1>6, <2>2
    <3>2. path[g] # {} /\ path[g] \subseteq path[f]
      BY <3>1 DEF PathInv
    <3> QED
      BY <1>3, <2>2, <3>1, <3>2
  <2>3. CASE h = c /\ g = c
    BY <1>3, <2>3
  <2> QED
    BY <2>1, <2>2, <2>3
<1>7. path'[Root] \subseteq {Root}
  BY <1>1, <1>3 DEF PathInv
<1>8. path'[Root] # {}
  BY <1>1, <1>3
<1>9. \A g \in frames' : path'[g] # {}
  BY <1>1, <1>3 DEF PathInv
<1> QED
  BY <1>2, <1>5, <1>6, <1>7, <1>8, <1>9 DEF PathInv

LEMMA CancelKept ==
  ASSUME TypeInv, PathInv, CancelInv, cancelled' = cancelled,
         path' = path \/ \E c, f \in Frame : Opens(c, f),
         \A u \in Task : pc'[u] # "free" => \/ Stays(u)
                                            \/ \E f \in Frame : Born(u, f) /\ ~cancelled[f]
  PROVE  CancelInv'
<1>1. path \in [Frame -> SUBSET Frame]
  BY DEF TypeInv, TreeType
<1>2. /\ \A f \in Frame : path'[f] = {} => ~cancelled[f]
      /\ \A f, g \in Frame : f \in path'[g] /\ cancelled[f] => cancelled[g]
  <2>1. CASE path' = path
    BY <2>1 DEF CancelInv
  <2>2. ASSUME NEW c \in Frame, NEW f \in Frame, Opens(c, f)
        PROVE  <1>2!1 /\ <1>2!2
    <3>1. /\ path'[c] = (IF c = Root THEN {} ELSE path[f]) \cup {c}
          /\ \A g \in Frame \ {c} : path'[g] = path[g]
      BY <1>1, <2>2 DEF Opens
    <3>2. ~cancelled[c] /\ (c # Root => \A g \in Frame : g \in path[f] => ~cancelled[g])
      BY <2>2 DEF Opens, CancelInv
    <3> QED
      BY <3>1, <3>2 DEF CancelInv
  <2> QED
    BY <2>1, <2>2
<1>3. \A u \in Live' : cancelled[frameOf'[u]] => cancel'[u] = "frame"
  BY DEF CancelInv, Live, Stays, Born
<1> QED
  BY <1>2, <1>3 DEF CancelInv

LEMMA AwaitKept ==
  ASSUME TypeInv, CountInv, UnopenedInv, PathInv, CancelInv, AwaitInv, cancelled' = cancelled,
         \A u \in Task : pc'[u] # "free" => Goes(u) \/ \E f : Born(u, f),
         path' = path \/ \E c, f \in Frame : Opens(c, f)
  PROVE  AwaitInv'
<1>1. \A u \in Task : Awaiting(u)' => Awaiting(u) /\ Goes(u)
  BY DEF Awaiting, Goes, Stays, Born
<1>2. \A g \in Frame : path[g] # {} => path'[g] = path[g]
  BY DEF Opens, TypeInv, TreeType
<1>3. ASSUME NEW t \in Task, Awaiting(t)'
      PROVE  /\ Awaiting(t) /\ childOf'[t] = childOf[t] /\ frameOf'[t] = frameOf[t]
             /\ (cancel[t] # "none" => cancel'[t] # "none")
             /\ path'[frameOf[t]] = path[frameOf[t]]
             /\ path'[childOf[t]] = path[childOf[t]]
  <2>1. Awaiting(t) /\ Goes(t)
    BY <1>1, <1>3
  <2>2. path[frameOf[t]] # {} /\ frameOf[t] \in Frame /\ childOf[t] \in Frame
    BY <2>1, FiringFrameOpen DEF Goes, Stays, TypeInv, TaskType
  <2>3. path[childOf[t]] # {}
    BY <2>1 DEF AwaitInv
  <2> QED
    BY <1>2, <2>1, <2>2, <2>3 DEF Goes, Stays
<1>4. \A u, t \in Task : Awaiting(t)' /\ Awaits(u, childOf[t])' => Awaits(u, childOf[t])
  BY <1>3 DEF Awaits
<1> QED
  BY <1>3 DEF AwaitInv, Awaits

\* A flow node's firing t opens c.
LEMMA AwaitGrows ==
  ASSUME TypeInv, CountInv, UnopenedInv, PathInv, CancelInv, AwaitInv, cancelled' = cancelled,
         NEW t \in Task, NEW c \in Frame, c # Root, Opens(c, frameOf[t]),
         pc[t] = "new" /\ frameOf'[t] = frameOf[t] /\ childOf'[t] = c,
         \A u \in Task \ {t} : pc'[u] # "free" => Goes(u) \/ \E f : Born(u, f)
  PROVE  AwaitInv'
<1>0. path \in [Frame -> SUBSET Frame] /\ frameOf[t] \in Frame
  BY DEF TypeInv, TreeType, TaskType
<1>1. \A u \in Task \ {t} : Awaiting(u)' => Awaiting(u) /\ Goes(u)
  BY DEF Awaiting, Goes, Stays, Born
<1>2. /\ \A g \in Frame : path[g] # {} => path'[g] = path[g]
      /\ path'[c] = path[frameOf[t]] \cup {c} /\ path[frameOf[t]] # {} /\ path[c] = {}
  BY <1>0 DEF Opens
<1>3. ASSUME NEW u \in Task \ {t}, Awaiting(u)'
      PROVE  /\ Awaiting(u) /\ childOf'[u] = childOf[u] /\ frameOf'[u] = frameOf[u]
             /\ (cancel[u] # "none" => cancel'[u] # "none")
             /\ path'[frameOf[u]] = path[frameOf[u]]
             /\ path'[childOf[u]] = path[childOf[u]] /\ childOf[u] # c
  <2>1. Awaiting(u) /\ Goes(u)
    BY <1>1, <1>3
  <2>2. path[frameOf[u]] # {} /\ frameOf[u] \in Frame /\ childOf[u] \in Frame
    BY <2>1, FiringFrameOpen DEF Goes, Stays, TypeInv, TaskType
  <2>3. path[childOf[u]] # {}
    BY <2>1 DEF AwaitInv
  <2> QED
    BY <1>2, <2>1, <2>2, <2>3 DEF Goes, Stays
<1>4. ASSUME NEW u \in Task \ {t}, Awaiting(u)'
      PROVE  /\ childOf'[u] # Root /\ childOf'[u] \notin path'[frameOf'[u]]
             /\ path'[childOf'[u]] = path'[frameOf'[u]] \cup {childOf'[u]}
             /\ cancelled'[childOf'[u]] => cancel'[u] # "none"
             /\ \A v \in Task : Awaits(v, childOf[u])' => v = u
  BY <1>3, <1>4 DEF AwaitInv, Awaits
<1>5. c \notin path[frameOf[t]] /\ ~cancelled[c]
  BY <1>0, <1>2 DEF PathInv, CancelInv
<1>6. \A v \in Task : Awaits(v, c)' => v = t
  BY <1>3 DEF Awaits
<1>7. path'[frameOf'[t]] = path[frameOf[t]]
  BY <1>0, <1>2
<1> QED
  BY <1>2, <1>3, <1>4, <1>5, <1>6, <1>7 DEF AwaitInv, Awaits

\* An interrupted firing t ends and takes the frames under its child with it.
LEMMA DoomKept ==
  ASSUME TypeInv, CountInv, UnopenedInv, PathInv, CancelInv, AwaitInv, NEW t \in Task,
         CancelDoomed(t), path' = path, pc'[t] = "free",
         \A u \in Task : pc'[u] # "free" => Goes(u) /\ (u \in Victims(t) => cancel'[u] = "frame")
  PROVE  CancelInv' /\ AwaitInv'
<1>1. /\ path \in [Frame -> SUBSET Frame] /\ Root \in Frame /\ cancelled \in [Frame -> BOOLEAN]
      /\ frameOf \in [Task -> Frame] /\ childOf \in [Task -> Frame]
  BY Bounds DEF TypeInv, TreeType, TaskType
<1>2. /\ \A f \in Frame : cancelled'[f] <=> cancelled[f] \/ f \in Doomed(t)
      /\ \A f \in Frame : f \in Doomed(t) <=> pc[t] = "childDone" /\ childOf[t] \in path[f]
  BY <1>1 DEF CancelDoomed, Doomed, Under
<1>3. \A f, g \in Frame : f \in path[g] /\ f \in Doomed(t) => g \in Doomed(t)
  BY <1>1, <1>2 DEF PathInv
<1>4. \A f \in Frame : f \in Doomed(t) => f # Root /\ path[f] # {}
  BY <1>1, <1>2 DEF PathInv, AwaitInv, Awaiting
<1>5. \A u \in Task : pc'[u] # "free" /\ frameOf[u] \in Doomed(t) => cancel'[u] = "frame"
  BY DEF Victims, Live, Goes, Stays
<1>6. CancelInv'
  <2>1. \A u \in Live' : cancelled'[frameOf'[u]] => cancel'[u] = "frame"
    <3> SUFFICES ASSUME NEW u \in Task, pc'[u] # "free", cancelled'[frameOf'[u]]
                 PROVE  cancel'[u] = "frame"
      BY DEF Live
    <3>1. Goes(u) /\ frameOf'[u] = frameOf[u] /\ frameOf[u] \in Frame
      BY <1>1 DEF Goes, Stays
    <3>2. CASE cancelled[frameOf[u]]
      BY <3>1, <3>2 DEF CancelInv, Live, Goes, Stays
    <3>3. CASE frameOf[u] \in Doomed(t)
      BY <1>5, <3>3
    <3> QED
      BY <1>2, <3>1, <3>2, <3>3
  <2>2. \A f, g \in Frame : f \in path'[g] /\ cancelled'[f] => cancelled'[g]
    BY <1>2, <1>3 DEF CancelInv
  <2>3. \A f \in Frame : path'[f] = {} => ~cancelled'[f]
    BY <1>2, <1>4 DEF CancelInv
  <2>4. ~cancelled'[Root]
    BY <1>1, <1>2, <1>4 DEF CancelInv
  <2> QED
    BY <2>1, <2>2, <2>3, <2>4 DEF CancelInv
<1>7. ASSUME NEW u \in Task, Awaiting(u)'
      PROVE  /\ Awaiting(u) /\ Goes(u) /\ u # t
             /\ cancelled'[childOf[u]] => cancel'[u] # "none"
  <2>1. Awaiting(u) /\ Goes(u) /\ u # t /\ pc'[u] # "free"
    BY <1>7 DEF Awaiting, Goes, Stays
  <2>2. /\ path[childOf[u]] = path[frameOf[u]] \cup {childOf[u]}
        /\ cancelled[childOf[u]] => cancel[u] # "none"
        /\ pc[t] = "childDone" => childOf[t] # childOf[u]
    BY <2>1 DEF AwaitInv, Awaits, Awaiting
  <2>3. childOf[u] \in Doomed(t) => frameOf[u] \in Doomed(t)
    BY <1>1, <1>2, <2>2
  <2>4. cancelled'[childOf[u]] => cancelled[childOf[u]] \/ childOf[u] \in Doomed(t)
    BY <1>1, <1>2
  <2> QED
    BY <1>5, <2>1, <2>2, <2>3, <2>4 DEF Goes, Stays
<1>8. AwaitInv'
  <2> SUFFICES ASSUME NEW u \in Task, Awaiting(u)'
               PROVE  /\ childOf'[u] # Root /\ childOf'[u] \notin path'[frameOf'[u]]
                      /\ path'[childOf'[u]] = path'[frameOf'[u]] \cup {childOf'[u]}
                      /\ cancelled'[childOf'[u]] => cancel'[u] # "none"
                      /\ \A v \in Task : Awaits(v, childOf[u])' => v = u
    BY DEF AwaitInv, Awaits
  <2>1. /\ Awaiting(u) /\ childOf'[u] = childOf[u] /\ frameOf'[u] = frameOf[u]
        /\ cancelled'[childOf[u]] => cancel'[u] # "none"
    BY <1>7 DEF Goes, Stays
  <2>2. \A v \in Task : Awaits(v, childOf[u])' => Awaits(v, childOf[u])
    BY <1>7, <2>1 DEF Awaits, Goes, Stays
  <2> QED
    BY <2>1, <2>2 DEF AwaitInv
<1> QED
  BY <1>6, <1>8

--------------------------------------------------------------------------------
(* How a firing ends *)

\* It answers, errs or crashes in its own frame.
Finishes(t, k, notes, why) ==
  /\ pc[t] \in {"new", "ioDone"} /\ cancel[t] = "none"
  /\ FiringEnds(t, k, notes, why, {})
  /\ \A i \in DOMAIN notes : notes[i] = frameOf[t]
  /\ UNCHANGED <<frames, path, cancelled, closed>>

\* Its child frame is over.
Returns(t, k, notes, why) ==
  /\ pc[t] = "childDone" /\ cancel[t] = "none"
  /\ FiringEnds(t, k, notes, why, {})
  /\ \E tail \in {<<>>, <<frameOf[t]>>} : notes = Unwritten(childOf[t]) \o tail
  /\ closed' = [closed EXCEPT ![frameOf[t]] =
                  @ \cup (SubtreeEntries(childOf[t])
                            \cup {Len(log) + i : i \in DOMAIN Unwritten(childOf[t])})]
  /\ frames' = frames \ Subtree(childOf[t])
  /\ UNCHANGED <<path, cancelled>>

\* Its child frame has nothing to run.
ReturnsAtOnce(t, k, notes, why) ==
  /\ pc[t] = "new" /\ cancel[t] = "none"
  /\ FiringEnds(t, k, notes, why, {})
  /\ \E c \in Frame, tail \in {<<>>, <<frameOf[t]>>} : \E unwritten \in {<<>>, <<c>>} :
       /\ path[c] = {} /\ path' = [path EXCEPT ![c] = path[frameOf[t]] \cup {c}]
       /\ notes = unwritten \o tail
       /\ closed' = [closed EXCEPT ![frameOf[t]] =
                       @ \cup {Len(log) + i : i \in DOMAIN unwritten}]
  /\ UNCHANGED <<frames, cancelled>>

\* It was interrupted.
Interrupted(t, k, notes) ==
  /\ pc[t] \in {"ioDone", "childDone"} /\ cancel[t] # "none"
  /\ FiringEnds(t, k, notes, "none", Victims(t))
  /\ notes \in {<<>>, <<frameOf[t]>>}
  /\ cancel[t] = "frame" => k = 0 /\ notes = <<>>
  /\ CancelDoomed(t)
  /\ UNCHANGED <<frames, path, closed>>

LEMMA TimesType ==
  ASSUME NEW n \in Nat, NEW f \in Frame
  PROVE  /\ Times(n, f) \in Seq(Frame) /\ \A i \in DOMAIN Times(n, f) : Times(n, f)[i] = f
         /\ n = 0 => Times(n, f) = <<>>
         /\ n = 1 => Times(n, f) = <<f>>
<1>1. Times(n, f) \in [1 .. n -> Frame] /\ \A i \in 1 .. n : Times(n, f)[i] = f
  BY DEF Times
<1>2. Times(n, f) \in Seq(Frame)
  BY <1>1, SeqDef
<1>3. Len(Times(n, f)) = n
  BY <1>1, <1>2, LenProperties
<1>4. n = 0 => Times(n, f) = <<>>
  BY <1>2, <1>3, EmptySeq
<1>5. n = 1 => Times(n, f) = <<f>>
  <2> SUFFICES ASSUME n = 1 PROVE Times(n, f) = <<f>>
    OBVIOUS
  <2> DEFINE a == Times(n, f)
             b == <<f>>
  <2>1. b \in Seq(Frame) /\ Len(b) = 1 /\ b[1] = f
    OBVIOUS
  <2>2. a \in Seq(Frame) /\ Len(a) = 1 /\ a[1] = f
    BY <1>1, <1>2, <1>3
  <2> HIDE DEF a, b
  <2>3. a = b
    <3>1. \A i \in 1 .. Len(a) : a[i] = b[i]
      BY <2>1, <2>2
    <3> QED
      BY <2>1, <2>2, <3>1, SeqEqual
  <2> QED
    BY <2>3 DEF a, b
<1> QED
  BY <1>1, <1>2, <1>4, <1>5

LEMMA EndKinds ==
  ASSUME TypeInv, NEW t \in Task, Ends(t)
  PROVE  \E k \in Nat, notes \in Seq(Frame), why \in Reason :
           \/ Finishes(t, k, notes, why) \/ Returns(t, k, notes, why)
           \/ ReturnsAtOnce(t, k, notes, why) \/ Interrupted(t, k, notes)
<1> DEFINE goal == \E k \in Nat, notes \in Seq(Frame), why \in Reason :
                     \/ Finishes(t, k, notes, why) \/ Returns(t, k, notes, why)
                     \/ ReturnsAtOnce(t, k, notes, why) \/ Interrupted(t, k, notes)
           over(k) == IF Over(k) THEN "budget_exhausted" ELSE "none"
           f == frameOf[t]
<1>1. f \in Frame /\ childOf[t] \in Frame
  BY DEF TypeInv, TaskType
<1>2. {"none", "budget_exhausted", "internal_error"} \subseteq Reason
      /\ 0 .. MaxFan \subseteq Nat /\ 0 \in Nat
  BY Bounds DEF Reason
<1>3. \A k : over(k) \in Reason
  BY <1>2
<1>4. <<>> \in Seq(Frame) /\ <<f>> \in Seq(Frame)
  BY <1>1
<1> SUFFICES goal
  OBVIOUS
<1>5. ASSUME NEW k \in Nat, NEW notes \in Seq(Frame), NEW why \in Reason,
             \/ Finishes(t, k, notes, why) \/ Returns(t, k, notes, why)
             \/ ReturnsAtOnce(t, k, notes, why) \/ Interrupted(t, k, notes)
      PROVE  goal
  BY <1>5
<1> HIDE DEF goal, over
<1>10. CASE FiringAnswers(t)
  <2>1. PICK k \in 0 .. MaxFan, n \in 0 .. 2 : FiringEnds(t, k, Times(n, f), over(k), {})
    BY <1>10 DEF FiringAnswers, over
  <2>2. Times(n, f) \in Seq(Frame) /\ \A i \in DOMAIN Times(n, f) : Times(n, f)[i] = f
    <3>1. n \in Nat
      OBVIOUS
    <3> QED
      BY <1>1, <3>1, TimesType
  <2>3. Finishes(t, k, Times(n, f), over(k))
    BY <1>10, <2>1, <2>2 DEF FiringAnswers, Steps, Finishes
  <2> QED
    BY <1>2, <1>3, <1>5, <2>2, <2>3
<1>11. CASE FiringErrs(t)
  <2>1. PICK k \in 0 .. MaxFan, n \in 0 .. 1 : NodeError(t, k, Times(n, f), {})
    BY <1>11 DEF FiringErrs
  <2> DEFINE a == Times(n, f)
             b == IF k = 0 THEN <<f>> ELSE <<>>
  <2>2. FiringEnds(t, k, a \o b, "none", {})
    BY <2>1 DEF NodeError
  <2>3. a \in Seq(Frame) /\ \A i \in DOMAIN a : a[i] = f
    <3>1. n \in Nat
      OBVIOUS
    <3> QED
      BY <1>1, <3>1, TimesType
  <2>4. b \in Seq(Frame) /\ \A i \in DOMAIN b : b[i] = f
    BY <1>1
  <2> HIDE DEF a, b
  <2>5. a \o b \in Seq(Frame) /\ \A i \in DOMAIN (a \o b) : (a \o b)[i] = f
    <3>1. /\ a \o b \in Seq(Frame) /\ DOMAIN (a \o b) = 1 .. Len(a) + Len(b)
          /\ Len(a) \in Nat /\ Len(b) \in Nat /\ DOMAIN a = 1 .. Len(a) /\ DOMAIN b = 1 .. Len(b)
          /\ \A i \in 1 .. Len(a) + Len(b) :
               (a \o b)[i] = IF i <= Len(a) THEN a[i] ELSE b[i - Len(a)]
      BY <2>3, <2>4, ConcatProperties, LenProperties
    <3> SUFFICES ASSUME NEW i \in 1 .. Len(a) + Len(b) PROVE (a \o b)[i] = f
      BY <3>1
    <3>2. CASE i <= Len(a)
      <4>1. i \in DOMAIN a
        BY <3>1, <3>2
      <4> QED
        BY <2>3, <3>1, <3>2, <4>1
    <3>3. CASE ~(i <= Len(a))
      <4>1. i - Len(a) \in DOMAIN b
        BY <3>1, <3>3
      <4> QED
        BY <2>4, <3>1, <3>3, <4>1
    <3> QED
      BY <3>2, <3>3
  <2>6. Finishes(t, k, a \o b, "none")
    BY <1>11, <2>2, <2>5 DEF FiringErrs, Steps, Finishes
  <2> QED
    BY <1>2, <1>5, <2>5, <2>6
<1>12. CASE FiringCrashes(t)
  <2>1. Finishes(t, 0, <<>>, "internal_error")
    BY <1>12 DEF FiringCrashes, Steps, Finishes
  <2> QED
    BY <1>2, <1>4, <1>5, <2>1
<1>13. CASE FlowReturns(t)
  <2> DEFINE c == childOf[t]
             tail(k, unwired) == IF unwired /\ ~Over(k) THEN <<f>> ELSE <<>>
             entries == SubtreeEntries(c) \cup {Len(log) + i : i \in DOMAIN Unwritten(c)}
  <2>1. PICK k \in 0 .. MaxFan, unwired \in BOOLEAN :
          /\ FiringEnds(t, k, Unwritten(c) \o tail(k, unwired), over(k), {})
          /\ closed' = [closed EXCEPT ![f] = @ \cup entries]
          /\ frames' = frames \ Subtree(c)
    BY <1>13 DEF FlowReturns, over
  <2> DEFINE notes == Unwritten(c) \o tail(k, unwired)
  <2>2. tail(k, unwired) \in {<<>>, <<f>>}
    OBVIOUS
  <2>3. Unwritten(c) \in Seq(Frame)
    BY <1>1 DEF Unwritten
  <2> HIDE DEF tail
  <2>4. notes \in Seq(Frame)
    BY <1>4, <2>2, <2>3, ConcatProperties
  <2>5. Returns(t, k, notes, over(k))
    BY <1>13, <2>1, <2>2 DEF FlowReturns, Steps, Returns
  <2> HIDE DEF notes
  <2> QED
    BY <1>2, <1>3, <1>5, <2>4, <2>5
<1>14. CASE FlowReturnsAtOnce(t)
  <2> DEFINE c == NextFrame
             tail(k, unwired) == IF unwired /\ ~Over(k) THEN <<f>> ELSE <<>>
             unwritten(required) == Times(IF required THEN 1 ELSE 0, c)
  <2>1. PICK k \in 0 .. MaxFan, required \in RequiredEnd, unwired \in BOOLEAN :
          /\ FiringEnds(t, k, unwritten(required) \o tail(k, unwired), over(k), {})
          /\ path' = [path EXCEPT ![c] = path[f] \cup {c}]
          /\ closed' = [closed EXCEPT ![f] = @ \cup {Len(log) + i :
                                                     i \in DOMAIN unwritten(required)}]
    BY <1>14 DEF FlowReturnsAtOnce, over
  <2> DEFINE notes == unwritten(required) \o tail(k, unwired)
  <2>2. tail(k, unwired) \in {<<>>, <<f>>}
    OBVIOUS
  <2>3. c \in Frame /\ path[c] = {}
    BY <1>14, NextFrameType DEF FlowReturnsAtOnce
  <2>4. unwritten(required) \in {<<>>, <<c>>} /\ unwritten(required) \in Seq(Frame)
    BY <2>3, TimesType
  <2> HIDE DEF tail, unwritten
  <2>5. notes \in Seq(Frame)
    BY <1>4, <2>2, <2>4, ConcatProperties
  <2>6. pc[t] = "new" /\ cancel[t] = "none" /\ UNCHANGED <<frames, cancelled>>
    BY <1>14 DEF FlowReturnsAtOnce, Steps
  <2>7. ReturnsAtOnce(t, k, notes, over(k))
    BY <2>1, <2>2, <2>3, <2>4, <2>6 DEF ReturnsAtOnce
  <2> HIDE DEF notes
  <2> QED
    BY <1>2, <1>3, <1>5, <2>5, <2>7
<1>15. CASE FiringTimesOut(t)
  <2>1. PICK k \in 0 .. MaxFan : NodeError(t, k, <<>>, Victims(t))
    BY <1>15 DEF FiringTimesOut
  <2> DEFINE b == IF k = 0 THEN <<f>> ELSE <<>>
  <2>2. b \in {<<>>, <<f>>} /\ b \in Seq(Frame)
    BY <1>1
  <2>3. FiringEnds(t, k, <<>> \o b, "none", Victims(t))
    BY <2>1 DEF NodeError
  <2> HIDE DEF b
  <2>4. <<>> \o b = b
    BY <2>2, ConcatEmptySeq
  <2>5. Interrupted(t, k, b)
    BY <1>15, <2>2, <2>3, <2>4 DEF FiringTimesOut, Interrupted
  <2> QED
    BY <1>2, <1>5, <2>2, <2>5
<1>16. CASE FiringUnwinds(t)
  <2>1. Interrupted(t, 0, <<>>)
    BY <1>16 DEF FiringUnwinds, Interrupted
  <2> QED
    BY <1>2, <1>4, <1>5, <2>1
<1> QED
  BY <1>10, <1>11, <1>12, <1>13, <1>14, <1>15, <1>16 DEF Ends

LEMMA EndTasks ==
  ASSUME TypeInv, NEW t \in Task, NEW k, NEW notes, NEW why, NEW V \in SUBSET (Live \ {t}),
         FiringEnds(t, k, notes, why, V)
  PROVE  /\ pc'[t] = "free"
         /\ \A u \in Task : pc'[u] # "free" =>
              Goes(u) /\ u # t /\ (u \in V => cancel'[u] = "frame")
<1>1. \A u \in Task : /\ pc'[u] = CASE u = t -> "free"
                                     [] u # t /\ (u \in V /\ pc[u] = "child")
                                         -> "childDone"
                                     [] u # t /\ ~(u \in V /\ pc[u] = "child")
                                          /\ u \in Waiter(frameOf[t], Room(k)) -> "childDone"
                                     [] OTHER -> pc[u]
                      /\ cancel'[u] = CASE u = t -> "none"
                                    [] u # t /\ u \in V -> "frame"
                                    [] OTHER -> cancel[u]
                      /\ u # t => frameOf'[u] = frameOf[u] /\ childOf'[u] = childOf[u]
  BY DEF FiringEnds, TypeInv, TaskType
<1>2. \A u \in Waiter(frameOf[t], Room(k)) : pc[u] = "child"
  BY DEF Waiter
<1> QED
  BY <1>1, <1>2 DEF Goes, Stays, TypeInv, TaskType

TreeInv == PathInv /\ CancelInv /\ AwaitInv

\* A firing that was not interrupted is in a frame that was not cancelled.
LEMMA SpawnsUnder ==
  ASSUME TypeInv, CountInv, UnopenedInv, TreeInv, NEW t \in Task, pc[t] # "free",
         cancel[t] = "none", NEW c \in Frame, path[c] = {},
         path' = [path EXCEPT ![c] = path[frameOf[t]] \cup {c}]
  PROVE  c # Root /\ path[Root] # {} /\ Opens(c, frameOf[t]) /\ ~cancelled[frameOf[t]]
<1>1. frameOf[t] \in Frame /\ path[frameOf[t]] # {}
  BY FiringFrameOpen
<1>2. ~cancelled[frameOf[t]]
  BY DEF TreeInv, CancelInv, Live
<1>3. c # Root /\ path[Root] # {}
  BY <1>1 DEF TreeInv, PathInv
<1> QED
  BY <1>1, <1>2, <1>3 DEF Opens

\* What a step may do to the tree and to the firings.
Moves ==
  /\ path' = path \/ \E c, g \in Frame : Opens(c, g)
  /\ \A u \in Task : pc'[u] # "free" => Stays(u) \/ \E g \in Frame : Born(u, g) /\ ~cancelled[g]
  /\ Root \in frames => Root \in frames'

LEMMA TaskStepTree ==
  ASSUME TypeInv, CountInv, UnopenedInv, TreeInv, NEW t \in Task, TaskStep(t)
  PROVE  TreeInv' /\ Moves
<1> USE DEF TreeInv
<1>1. pc[t] # "free" /\ frameOf[t] \in Frame /\ path[frameOf[t]] # {} /\ childOf[t] \in Frame
  BY TaskLeaves, FiringFrameOpen DEF TypeInv, TaskType
<1>2. ASSUME NEW k, NEW notes, NEW why, NEW V \in SUBSET (Live \ {t}),
             FiringEnds(t, k, notes, why, V)
      PROVE  /\ pc'[t] = "free"
             /\ \A u \in Task : pc'[u] # "free" =>
                  Stays(u) /\ Goes(u) /\ (u \in V => cancel'[u] = "frame")
  BY <1>2, EndTasks DEF Goes
<1>3. {} \in SUBSET (Live \ {t}) /\ Victims(t) \in SUBSET (Live \ {t})
  BY DEF Victims
<1>4. CASE Ends(t)
  <2>1. PICK k \in Nat, notes \in Seq(Frame), why \in Reason :
           \/ Finishes(t, k, notes, why) \/ Returns(t, k, notes, why)
           \/ ReturnsAtOnce(t, k, notes, why) \/ Interrupted(t, k, notes)
    BY <1>4, EndKinds
  <2>2. CASE Finishes(t, k, notes, why)
    <3>1. /\ UNCHANGED <<frames, path, cancelled>>
          /\ \A u \in Task : pc'[u] # "free" => Stays(u) /\ Goes(u)
      BY <1>2, <1>3, <2>2 DEF Finishes
    <3> QED
      BY <3>1, PathKept, CancelKept, AwaitKept DEF Moves
  <2>3. CASE Returns(t, k, notes, why)
    <3>1. /\ frames' = frames \ Subtree(childOf[t]) /\ UNCHANGED <<path, cancelled>>
          /\ \A u \in Task : pc'[u] # "free" => Stays(u) /\ Goes(u)
          /\ pc[t] = "childDone"
      BY <1>2, <1>3, <2>3 DEF Returns
    <3>2. childOf[t] \notin path[Root]
      BY <3>1 DEF AwaitInv, Awaiting, PathInv
    <3>3. Root \notin Subtree(childOf[t])
      BY <3>2 DEF Subtree, Under
    <3> QED
      BY <3>1, <3>3, PathKept, CancelKept, AwaitKept DEF Moves
  <2>4. CASE ReturnsAtOnce(t, k, notes, why)
    <3>1. PICK c \in Frame : path[c] = {} /\ path' = [path EXCEPT ![c] = path[frameOf[t]] \cup {c}]
      BY <2>4 DEF ReturnsAtOnce
    <3>2. /\ UNCHANGED <<frames, cancelled>> /\ cancel[t] = "none"
          /\ \A u \in Task : pc'[u] # "free" => Stays(u) /\ Goes(u)
      BY <1>2, <1>3, <2>4 DEF ReturnsAtOnce
    <3>3. Opens(c, frameOf[t]) /\ path[Root] # {}
      BY <1>1, <3>1, <3>2, SpawnsUnder
    <3>4. PathInv'
      BY <1>1, <3>2, <3>3, PathGrows
    <3>5. CancelInv' /\ AwaitInv'
      BY <1>1, <3>2, <3>3, CancelKept, AwaitKept
    <3> QED
      BY <1>1, <3>1, <3>2, <3>3, <3>4, <3>5 DEF Moves
  <2>5. CASE Interrupted(t, k, notes)
    <3>1. /\ UNCHANGED <<frames, path>> /\ CancelDoomed(t) /\ pc'[t] = "free"
          /\ \A u \in Task : pc'[u] # "free" =>
               Goes(u) /\ (u \in Victims(t) => cancel'[u] = "frame")
      BY <1>2, <1>3, <2>5 DEF Interrupted
    <3> QED
      BY <3>1, PathKept, DoomKept DEF Moves, Goes
  <2> QED
    BY <2>1, <2>2, <2>3, <2>4, <2>5
<1>5. CASE FiringWaits(t) \/ FiringNeverStarts(t)
  <2>1. UNCHANGED <<frames, path, cancelled>>
    BY <1>5 DEF FiringWaits, FiringNeverStarts, frameVars
  <2>2. \A u \in Task : pc'[u] # "free" => Stays(u) /\ Goes(u)
    BY <1>5 DEF FiringWaits, FiringNeverStarts, Goes, Stays, TypeInv, TaskType
  <2> QED
    BY <2>1, <2>2, PathKept, CancelKept, AwaitKept DEF Moves
<1>6. ASSUME NEW k \in 0 .. MaxFan, NEW S \in SeedTasks, FlowOpens(t, k, S)
      PROVE  TreeInv' /\ Moves
  <2> DEFINE c == NextFrame
  <2>1. c \in Frame /\ path[c] = {} /\ S \in SUBSET (Task \ Live)
    BY <1>6, NextFrameType, SeedTasksType DEF FlowOpens
  <2> HIDE DEF c
  <2>2. /\ path' = [path EXCEPT ![c] = path[frameOf[t]] \cup {c}]
        /\ frames' = frames \cup {c} /\ cancelled' = cancelled
        /\ cancel[t] = "none" /\ pc[t] = "new" /\ cancel' = cancel
        /\ pc' = [u \in Task |-> IF u = t THEN "child" ELSE IF u \in S THEN "new" ELSE pc[u]]
        /\ frameOf' = [u \in Task |-> IF u \in S THEN c ELSE frameOf[u]]
        /\ childOf' = [childOf EXCEPT ![t] = c]
    BY <1>6 DEF FlowOpens, OpenFrame, Steps, c
  <2>3. c # Root /\ path[Root] # {} /\ Opens(c, frameOf[t]) /\ ~cancelled[c]
    BY <1>1, <2>1, <2>2, SpawnsUnder DEF CancelInv
  <2>4. t \notin S
    BY <2>1, <2>2 DEF Live
  <2>5. PathInv'
    BY <1>1, <2>1, <2>2, <2>3, PathGrows
  <2>6. \A u \in Task : pc'[u] # "free" => Stays(u) \/ (Born(u, c) /\ ~cancelled[c])
    BY <1>1, <2>1, <2>2, <2>3, <2>4 DEF Stays, Born, Live, TypeInv, TaskType
  <2>7. CancelInv'
    BY <1>1, <2>1, <2>2, <2>3, <2>6, CancelKept
  <2>8. \A u \in Task \ {t} : pc'[u] # "free" => Goes(u) \/ Born(u, c)
    BY <2>1, <2>2, <2>4 DEF Goes, Stays, Born, Live, TypeInv, TaskType
  <2>9. pc[t] = "new" /\ frameOf'[t] = frameOf[t] /\ childOf'[t] = c
    BY <2>2, <2>4 DEF TypeInv, TaskType
  <2>10. AwaitInv'
    BY <2>1, <2>2, <2>3, <2>8, <2>9, AwaitGrows
  <2> QED
    BY <1>1, <2>1, <2>2, <2>3, <2>5, <2>6, <2>7, <2>10 DEF Moves
<1>7. ASSUME NEW k \in 1 .. MaxFan, FlowOverspends(t, k)
      PROVE  TreeInv' /\ Moves
  <2> DEFINE c == NextFrame
             done == Waiter(frameOf[t], 0)
  <2>1. c \in Frame /\ path[c] = {}
    BY <1>7, NextFrameType DEF FlowOverspends
  <2>2. \A u \in done : pc[u] = "child"
    BY DEF Waiter
  <2> HIDE DEF c, done
  <2>3. /\ path' = [path EXCEPT ![c] = path[frameOf[t]] \cup {c}]
        /\ frames' = frames \cup {c} /\ cancelled' = cancelled
        /\ cancel[t] = "none" /\ cancel' = cancel
        /\ pc' = [u \in Task |-> IF u = t THEN "free"
                                 ELSE IF u \in done THEN "childDone" ELSE pc[u]]
        /\ frameOf' = [frameOf EXCEPT ![t] = Root] /\ childOf' = childOf
    BY <1>7 DEF FlowOverspends, OpenFrame, Steps, c, done
  <2>4. path[Root] # {} /\ Opens(c, frameOf[t])
    BY <1>1, <2>1, <2>3, SpawnsUnder
  <2>5. PathInv'
    BY <1>1, <2>1, <2>3, <2>4, PathGrows
  <2>6. \A u \in Task : pc'[u] # "free" => Stays(u) /\ Goes(u)
    BY <2>2, <2>3 DEF Goes, Stays, TypeInv, TaskType
  <2>7. CancelInv' /\ AwaitInv'
    BY <1>1, <2>1, <2>3, <2>4, <2>6, CancelKept, AwaitKept
  <2> QED
    BY <1>1, <2>1, <2>3, <2>4, <2>5, <2>6, <2>7 DEF Moves
<1> QED
  BY <1>4, <1>5, <1>6, <1>7 DEF TaskStep, Ends

LEMMA ReceivesTree ==
  ASSUME TypeInv, CountInv, UnopenedInv, TreeInv, NEW f \in Frame, NEW k \in Nat,
         NEW S \in SUBSET (Task \ Live), IsFiniteSet(S), Receives(f, k, S)
  PROVE  /\ TreeInv' /\ frames' = frames
         /\ \A u \in Task : pc'[u] # "free" =>
              (Stays(u) /\ Goes(u)) \/ (Born(u, f) /\ ~cancelled[f])
<1> DEFINE done == Waiter(f, Room(k) + Cardinality(S))
<1>1. \A u \in done : pc[u] = "child"
  BY DEF Waiter
<1>2. /\ pc' = [u \in Task |-> IF u \in S THEN "new" ELSE IF u \in done THEN "childDone" ELSE pc[u]]
      /\ frameOf' = [u \in Task |-> IF u \in S THEN f ELSE frameOf[u]]
      /\ UNCHANGED <<frames, path, cancelled, childOf, cancel>>
      /\ S # {} => ~cancelled[f]
  BY DEF Receives, Consume
<1> HIDE DEF done
<1>3. \A u \in Task : pc'[u] # "free" =>
        (Stays(u) /\ Goes(u)) \/ (Born(u, f) /\ ~cancelled[f])
  BY <1>1, <1>2 DEF Goes, Stays, Born, Live, TypeInv, TaskType
<1> QED
  BY <1>2, <1>3, PathKept, CancelKept, AwaitKept DEF TreeInv

LEMMA SeedRootTree ==
  ASSUME TypeInv, CountInv, UnopenedInv, TreeInv, NEW k \in 0 .. MaxFan, NEW S \in SeedTasks,
         SeedRoot(k, S)
  PROVE  TreeInv' /\ Moves /\ Root \in frames'
<1> DEFINE new == IF Over(k) THEN {} ELSE S
<1>1. new \in SUBSET (Task \ Live) /\ Root \in Frame
  BY SeedTasksType, Bounds
<1>2. /\ path' = [path EXCEPT ![Root] = {} \cup {Root}] /\ frames' = frames \cup {Root}
      /\ pc' = [t \in Task |-> IF t \in new THEN "new" ELSE pc[t]]
      /\ frameOf' = [t \in Task |-> IF t \in new THEN Root ELSE frameOf[t]]
      /\ UNCHANGED <<cancelled, childOf, cancel>> /\ pump = "new"
  BY DEF SeedRoot, OpenFrame, Spawn
<1> HIDE DEF new
<1>3. path[Root] = {} /\ Opens(Root, Root)
  BY <1>2 DEF UnopenedInv, Opens
<1>4. \A u \in Task : pc'[u] # "free" =>
        (Stays(u) /\ Goes(u)) \/ (Born(u, Root) /\ ~cancelled[Root])
  BY <1>1, <1>2 DEF Goes, Stays, Born, Live, TypeInv, TaskType, TreeInv, CancelInv
<1>5. PathInv'
  BY <1>1, <1>2, <1>3, PathGrows DEF TreeInv
<1> QED
  BY <1>1, <1>2, <1>3, <1>4, <1>5, CancelKept, AwaitKept DEF TreeInv, Moves

\* Every other step leaves the frames alone and every firing in its place.
LEMMA OtherStepGoes ==
  ASSUME TypeInv, OtherStep \/ PumpBlocks \/ PumpResumes \/ BindFails \/ PumpStops
                  \/ PumpGivesUp \/ PumpInterrupted
  PROVE  /\ UNCHANGED <<frames, path, cancelled, endOpen, closed>>
         /\ \A u \in Task : /\ pc'[u] # "free" => Stays(u) /\ Goes(u)
                            /\ pc'[u] = "childDone" => pc[u] = "childDone" \/ cancel'[u] # "none"
<1>1. CASE \/ PumpBlocks \/ PumpResumes \/ BindFails \/ PumpStops \/ PumpGivesUp
           \/ PumpInterrupted \/ DeadlineFires \/ CleanupEnds \/ Finalize \/ Abort
           \/ ClockPasses \/ CallerCancels \/ UNCHANGED vars
  <2>1. UNCHANGED <<frames, path, cancelled, endOpen, closed, taskVars>>
    BY <1>1 DEF PumpBlocks, PumpResumes, BindFails, PumpStops, PumpGivesUp, PumpInterrupted,
         DeadlineFires, CleanupEnds, Finalize, Abort, ClockPasses, CallerCancels, Interrupts, vars,
         frameVars
  <2> QED
    BY <2>1 DEF taskVars, Goes, Stays
<1>2. CASE CleanupStarts
  BY <1>2 DEF CleanupStarts, frameVars, Goes, Stays, Live, TypeInv, TaskType
<1>3. ASSUME NEW t \in Task, IoEnds(t) \/ CeilingTrips(t)
      PROVE  /\ UNCHANGED <<frames, path, cancelled, endOpen, closed>>
             /\ \A u \in Task : /\ pc'[u] # "free" => Stays(u) /\ Goes(u)
                                /\ pc'[u] = "childDone" => pc[u] = "childDone" \/ cancel'[u] # "none"
  BY <1>3 DEF IoEnds, CeilingTrips, frameVars, Goes, Stays, TypeInv, TaskType
<1> QED
  BY <1>1, <1>2, <1>3 DEF OtherStep

LEMMA TreeStep ==
  ASSUME TypeInv, CountInv, UnopenedInv, TreeInv, [Next]_vars
  PROVE  TreeInv' /\ Moves
<1>1. ASSUME UNCHANGED <<frames, path, cancelled, endOpen, closed>>,
             \A u \in Task : pc'[u] # "free" => Stays(u) /\ Goes(u)
      PROVE  TreeInv' /\ Moves
  BY <1>1, PathKept, CancelKept, AwaitKept DEF TreeInv, Moves
<1>4. ASSUME NEW f \in Frame, NEW k \in Nat, NEW S \in SUBSET (Task \ Live), IsFiniteSet(S),
             Receives(f, k, S)
      PROVE  TreeInv' /\ Moves
  <2>1. path' = path
    BY <1>4 DEF Receives, Consume
  <2> QED
    BY <1>4, <2>1, ReceivesTree DEF Moves
<1>2. CASE PumpStep
  BY <1>1, <1>2, <1>4, PumpKinds, OtherStepGoes, SeedRootTree DEF Leaves
<1>3. CASE OtherStep
  BY <1>1, <1>3, OtherStepGoes
<1> QED
  BY <1>2, <1>3, ThreeKinds, TaskStepTree

--------------------------------------------------------------------------------
(* A green run *)

\* A required End port without a value, in a frame that was not cancelled,
\* belongs to the root, to a frame somebody waits for, or to a run that has
\* already recorded a failure.
EndInv ==
  \A f \in Frame : endOpen[f] /\ ~cancelled[f] =>
    f = Root \/ log # <<>> \/ fatal # "none" \/ \E t \in Task : Awaits(t, f)
RootInv == pump # "new" /\ stopped # "halted" => Root \in frames
PassedInv == outcome = "passed" => log = <<>> /\ (Root \in frames => ~endOpen[Root])

LEMMA LogAppend ==
  ASSUME NEW q \in Seq(Frame), NEW m \in Seq(Frame)
  PROVE  q \o m = <<>> <=> q = <<>> /\ m = <<>>
<1>1. q \o m \in Seq(Frame) /\ Len(q \o m) = Len(q) + Len(m) /\ Len(q) \in Nat /\ Len(m) \in Nat
  BY ConcatProperties, LenProperties
<1> QED
  BY <1>1, EmptySeq

LEMMA ShortSeq ==
  ASSUME NEW f \in Frame
  PROVE  <<f>> \in Seq(Frame) /\ <<>> \in Seq(Frame) /\ <<f>> # <<>>
<1>1. Len(<<f>>) = 1 /\ <<f>> \in Seq(Frame)
  OBVIOUS
<1> QED
  BY <1>1, EmptySeq

LEMMA EndKept ==
  ASSUME TypeInv, EndInv, log # <<>> => log' # <<>>, fatal # "none" => fatal' # "none",
         \A f \in Frame : endOpen'[f] /\ ~cancelled'[f] => endOpen[f] /\ ~cancelled[f],
         \A u \in Task : Awaiting(u) => Awaiting(u)' /\ childOf'[u] = childOf[u]
  PROVE  EndInv'
<1>1. \A u \in Task, f \in Frame : Awaits(u, f) => Awaits(u, f)'
  BY DEF Awaits
<1> QED
  BY <1>1 DEF EndInv

\* The firing t ends while it waits for a frame c.
LEMMA EndAfter ==
  ASSUME TypeInv, EndInv, log # <<>> => log' # <<>>, fatal # "none" => fatal' # "none",
         NEW t \in Task, endOpen' = endOpen, \A f \in Frame : cancelled[f] => cancelled'[f],
         \A u \in Task \ {t} : Awaiting(u) => Awaiting(u)' /\ childOf'[u] = childOf[u],
         Awaiting(t) /\ endOpen[childOf[t]] => log' # <<>> \/ cancelled'[childOf[t]]
  PROVE  EndInv'
<1> SUFFICES ASSUME NEW f \in Frame, endOpen'[f], ~cancelled'[f]
             PROVE  f = Root \/ log' # <<>> \/ fatal' # "none" \/ \E u \in Task : Awaits(u, f)'
  BY DEF EndInv
<1>1. endOpen[f] /\ ~cancelled[f]
  OBVIOUS
<1>2. f = Root \/ log # <<>> \/ fatal # "none" \/ \E u \in Task : Awaits(u, f)
  BY <1>1 DEF EndInv
<1>3. ASSUME NEW u \in Task, Awaits(u, f) PROVE log' # <<>> \/ Awaits(u, f)'
  <2>1. CASE u = t
    BY <1>1, <1>3, <2>1 DEF Awaits
  <2>2. CASE u # t
    BY <1>3, <2>2 DEF Awaits
  <2> QED
    BY <2>1, <2>2
<1> QED
  BY <1>2, <1>3

LEMMA EndsAwaiting ==
  ASSUME TypeInv, NEW t \in Task, NEW k, NEW notes, NEW why, NEW V \in SUBSET (Live \ {t}),
         FiringEnds(t, k, notes, why, V)
  PROVE  \A u \in Task \ {t} : Awaiting(u) => Awaiting(u)' /\ childOf'[u] = childOf[u]
<1>1. \A u \in Task \ {t} : pc'[u] \in {pc[u], "childDone"} /\ childOf'[u] = childOf[u]
  BY DEF FiringEnds, TypeInv, TaskType
<1> QED
  BY <1>1 DEF Awaiting

LEMMA TaskStepEnd ==
  ASSUME TypeInv, CountInv, UnopenedInv, TreeInv, EndInv, NEW t \in Task, TaskStep(t)
  PROVE  EndInv'
<1>1. pc[t] # "free" /\ frameOf[t] \in Frame /\ childOf[t] \in Frame /\ log \in Seq(Frame)
  BY TaskLeaves DEF TypeInv, TaskType, NoteType
<1>2. {} \in SUBSET (Live \ {t}) /\ Victims(t) \in SUBSET (Live \ {t})
  BY DEF Victims
<1>3. fatal # "none" => fatal' # "none"
  BY TaskPuts DEF Puts
<1>4. CASE Ends(t)
  <2>1. PICK k \in Nat, notes \in Seq(Frame), why \in Reason :
           \/ Finishes(t, k, notes, why) \/ Returns(t, k, notes, why)
           \/ ReturnsAtOnce(t, k, notes, why) \/ Interrupted(t, k, notes)
    BY <1>4, EndKinds
  <2>2. PICK V \in SUBSET (Live \ {t}) : \E w : FiringEnds(t, k, notes, w, V)
    BY <1>2, <2>1 DEF Finishes, Returns, ReturnsAtOnce, Interrupted
  <2>3. log' = log \o notes /\ endOpen' = endOpen
    BY <2>2 DEF FiringEnds, Record
  <2>4. /\ log # <<>> => log' # <<>>
        /\ notes # <<>> => log' # <<>>
    BY <1>1, <2>3, LogAppend
  <2>5. \A u \in Task \ {t} : Awaiting(u) => Awaiting(u)' /\ childOf'[u] = childOf[u]
    BY <2>2, EndsAwaiting
  <2>6. \A f \in Frame : cancelled[f] => cancelled'[f]
    BY <2>1 DEF Finishes, Returns, ReturnsAtOnce, Interrupted, CancelDoomed
  <2>7. Awaiting(t) /\ endOpen[childOf[t]] => log' # <<>> \/ cancelled'[childOf[t]]
    <3>1. CASE Finishes(t, k, notes, why) \/ ReturnsAtOnce(t, k, notes, why)
      BY <3>1 DEF Finishes, ReturnsAtOnce, Awaiting
    <3>2. CASE Returns(t, k, notes, why)
      <4>1. PICK tail \in {<<>>, <<frameOf[t]>>} : notes = Unwritten(childOf[t]) \o tail
        BY <3>2 DEF Returns
      <4>2. endOpen[childOf[t]] => Unwritten(childOf[t]) = <<childOf[t]>>
        BY DEF Unwritten
      <4>3. tail \in Seq(Frame) /\ <<childOf[t]>> \in Seq(Frame) /\ <<childOf[t]>> # <<>>
        BY <1>1, ShortSeq
      <4>4. endOpen[childOf[t]] => notes # <<>>
        BY <4>1, <4>2, <4>3, LogAppend
      <4> QED
        BY <2>4, <4>4
    <3>3. CASE Interrupted(t, k, notes)
      <4>1. pc[t] \in {"ioDone", "childDone"} /\ CancelDoomed(t)
        BY <3>3 DEF Interrupted
      <4>2. Awaiting(t) => childOf[t] \in Doomed(t)
        BY <1>1, <4>1 DEF Awaiting, Doomed, Under, TreeInv, AwaitInv
      <4> QED
        BY <1>1, <4>1, <4>2 DEF CancelDoomed
    <3> QED
      BY <2>1, <3>1, <3>2, <3>3
  <2> QED
    BY <1>3, <2>3, <2>4, <2>5, <2>6, <2>7, EndAfter
<1>5. CASE FiringWaits(t) \/ FiringNeverStarts(t)
  <2>1. UNCHANGED <<log, endOpen, cancelled, childOf>>
        /\ \A u \in Task : Awaiting(u) => Awaiting(u)'
    BY <1>5 DEF FiringWaits, FiringNeverStarts, frameVars, Awaiting, TypeInv, TaskType
  <2> QED
    BY <1>3, <2>1, EndKept
<1>6. ASSUME NEW k \in 0 .. MaxFan, NEW S \in SeedTasks, FlowOpens(t, k, S)
      PROVE  EndInv'
  <2>0. S \in SUBSET (Task \ Live)
    BY SeedTasksType
  <2>1. PICK c \in Frame : c = NextFrame
    BY <1>6, NextFrameType DEF FlowOpens
  <2>2. /\ UNCHANGED <<log, cancelled>> /\ pc[t] = "new"
        /\ pc' = [u \in Task |-> IF u = t THEN "child" ELSE IF u \in S THEN "new" ELSE pc[u]]
        /\ childOf' = [childOf EXCEPT ![t] = c]
        /\ \E required \in RequiredEnd : endOpen' = [endOpen EXCEPT ![c] = required]
    BY <1>6, <2>1 DEF FlowOpens, OpenFrame, Steps
  <2>3. Awaits(t, c)'
    BY <1>1, <2>2 DEF Awaits, Awaiting, TypeInv, TaskType
  <2>4. \A u \in Task, f \in Frame : Awaits(u, f) => Awaits(u, f)'
    BY <2>0, <2>1, <2>2 DEF Awaits, Awaiting, Live, TypeInv, TaskType
  <2>5. \A f \in Frame \ {c} : endOpen'[f] = endOpen[f]
    BY <2>2 DEF TypeInv, EndType
  <2> QED
    BY <1>3, <2>2, <2>3, <2>4, <2>5 DEF EndInv
<1>7. ASSUME NEW k \in 1 .. MaxFan, FlowOverspends(t, k)
      PROVE  EndInv'
  <2>1. fatal' # "none"
    BY <1>7 DEF FlowOverspends, SetFatal
  <2> QED
    BY <2>1 DEF EndInv
<1> QED
  BY <1>4, <1>5, <1>6, <1>7 DEF TaskStep, Ends

LEMMA PumpStepEnd ==
  ASSUME TypeInv, CountInv, UnopenedInv, TreeInv, EndInv, PumpStep
  PROVE  EndInv'
<1>1. ASSUME NEW f \in Frame, NEW k \in Nat, NEW S \in SUBSET (Task \ Live), IsFiniteSet(S),
             Receives(f, k, S)
      PROVE  EndInv'
  <2>1. UNCHANGED <<log, cancelled, childOf>> /\ (fatal # "none" => fatal' # "none")
    BY <1>1 DEF Receives, Consume, SetFatal
  <2>2. endOpen' = endOpen \/ endOpen' = [endOpen EXCEPT ![f] = FALSE]
    BY <1>1 DEF Receives
  <2>3. \A g \in Frame : endOpen'[g] => endOpen[g]
    BY <2>2 DEF TypeInv, EndType
  <2>4. pc' = [t \in Task |-> IF t \in S THEN "new"
                              ELSE IF t \in Waiter(f, Room(k) + Cardinality(S)) THEN "childDone"
                              ELSE pc[t]]
    BY <1>1 DEF Receives, Consume
  <2>5. \A u \in Task : Awaiting(u) => Awaiting(u)'
    BY <2>4 DEF Awaiting, Live
  <2> QED
    BY <2>1, <2>3, <2>5, EndKept
<1>2. CASE PumpBlocks \/ PumpResumes \/ PumpStops \/ PumpGivesUp \/ PumpInterrupted \/ BindFails
  <2>1. UNCHANGED <<log, endOpen, cancelled, childOf, pc>> /\ (fatal # "none" => fatal' # "none")
    BY <1>2 DEF PumpBlocks, PumpResumes, PumpStops, PumpGivesUp, PumpInterrupted, BindFails,
                SetFatal, frameVars, taskVars, pumpVars
  <2> QED
    BY <2>1, EndKept DEF Awaiting
<1>3. ASSUME NEW k \in 0 .. MaxFan, NEW S \in SeedTasks, SeedRoot(k, S)
      PROVE  EndInv'
  <2> DEFINE new == IF Over(k) THEN {} ELSE S
  <2>1. new \in SUBSET (Task \ Live)
    BY SeedTasksType
  <2>2. /\ UNCHANGED <<log, cancelled, childOf>> /\ (fatal # "none" => fatal' # "none")
        /\ pc' = [t \in Task |-> IF t \in new THEN "new" ELSE pc[t]]
        /\ \E required \in RequiredEnd : endOpen' = [endOpen EXCEPT ![Root] = required]
    BY <1>3 DEF SeedRoot, OpenFrame, Spawn, SetFatal
  <2> HIDE DEF new
  <2>3. \A u \in Task, f \in Frame : Awaits(u, f) => Awaits(u, f)'
    BY <2>1, <2>2 DEF Awaits, Awaiting, Live, TypeInv, TaskType
  <2>4. \A f \in Frame \ {Root} : endOpen'[f] = endOpen[f]
    BY <2>2 DEF TypeInv, EndType
  <2> QED
    BY <2>2, <2>3, <2>4 DEF EndInv
<1> QED
  BY <1>1, <1>2, <1>3, PumpKinds DEF Leaves

LEMMA OtherStepEnd ==
  ASSUME TypeInv, EndInv, OtherStep
  PROVE  EndInv'
<1>1. UNCHANGED <<fatal, endOpen, cancelled, childOf>>
  BY DEF OtherStep, CleanupStarts, DeadlineFires, CleanupEnds, Finalize, IoEnds, CeilingTrips,
         Abort, ClockPasses, CallerCancels, Interrupts, vars, pumpVars, frameVars, taskVars
<1>2. log # <<>> => log' # <<>>
  <2>1. CASE Finalize
    <3>1. PICK notes : notes \in {<<>>, <<Root>>} /\ log' = log \o notes
      BY <2>1 DEF Finalize, Record, Unwritten
    <3>2. log \in Seq(Frame) /\ notes \in Seq(Frame)
      BY <3>1, Bounds, ShortSeq DEF TypeInv, NoteType
    <3> QED
      BY <3>1, <3>2, LogAppend
  <2>2. CASE ~Finalize
    BY <2>2 DEF OtherStep, CleanupStarts, DeadlineFires, CleanupEnds, IoEnds, CeilingTrips,
         Abort, ClockPasses, CallerCancels, Interrupts, vars, frameVars
  <2> QED
    BY <2>1, <2>2
<1>3. \A u \in Task : Awaiting(u) => Awaiting(u)'
  BY DEF OtherStep, CleanupStarts, DeadlineFires, CleanupEnds, Finalize, IoEnds, CeilingTrips,
         Abort, ClockPasses, CallerCancels, Interrupts, vars, taskVars, Awaiting, TypeInv, TaskType
<1> QED
  BY <1>1, <1>2, <1>3, EndKept

LEMMA RootStep ==
  ASSUME TypeInv, CountInv, UnopenedInv, StageInv, TreeInv, RootInv, [Next]_vars
  PROVE  RootInv'
<1>1. Root \in frames => Root \in frames'
  BY TreeStep DEF Moves
<1>2. ASSUME NEW t \in Task, TaskStep(t) PROVE RootInv'
  <2>1. stopped' = stopped /\ pump # "new"
    BY <1>2, TaskLeaves, FiringFrameOpen
  <2> QED
    BY <1>1, <2>1 DEF RootInv
<1>3. CASE PumpStep
  <2>1. CASE BindFails \/ PumpStops \/ PumpGivesUp \/ PumpInterrupted \/ PumpBlocks \/ PumpResumes
    <3>1. stopped' = "halted" \/ (pump # "new" /\ stopped = "no")
      BY <2>1 DEF BindFails, PumpStops, PumpGivesUp, PumpInterrupted, PumpBlocks, PumpResumes,
                  LeavePump, StageInv
    <3> QED
      BY <1>1, <3>1 DEF RootInv
  <2>2. ASSUME NEW f, NEW k, NEW S, Receives(f, k, S) PROVE RootInv'
    <3>1. pump # "new" /\ stopped = "no"
      BY <2>2 DEF Receives, Delivers, StageInv
    <3> QED
      BY <1>1, <3>1 DEF RootInv
  <2>3. ASSUME NEW k \in 0 .. MaxFan, NEW S \in SeedTasks, SeedRoot(k, S) PROVE RootInv'
    BY <2>3, SeedRootTree DEF RootInv
  <2> QED
    BY <1>3, <2>1, <2>2, <2>3, PumpKinds DEF Leaves
<1>4. CASE OtherStep
  <2>1. stopped' = stopped /\ (pump' # "new" => pump # "new")
    BY <1>4 DEF OtherStep, CleanupStarts, DeadlineFires, CleanupEnds, Finalize, IoEnds,
         CeilingTrips, Abort, ClockPasses, CallerCancels, Interrupts, PumpAfter, vars, pumpVars
  <2> QED
    BY <1>1, <2>1 DEF RootInv
<1> QED
  BY <1>2, <1>3, <1>4, ThreeKinds

LEMMA PassedStep ==
  ASSUME TypeInv, StageInv, PassedInv, [Next]_vars
  PROVE  PassedInv'
<1>1. ASSUME NEW t \in Task, TaskStep(t) PROVE PassedInv'
  BY <1>1, TaskLeaves DEF PassedInv
<1>2. CASE PumpStep
  <2>1. pump # "closing" /\ outcome' = outcome
    <3>1. CASE BindFails \/ PumpStops \/ PumpGivesUp \/ PumpInterrupted \/ PumpBlocks \/ PumpResumes
      BY <3>1 DEF BindFails, PumpStops, PumpGivesUp, PumpInterrupted, PumpBlocks, PumpResumes,
                  runVars
    <3>2. ASSUME NEW f, NEW k, NEW S, Receives(f, k, S) PROVE <2>1!1 /\ <2>1!2
      BY <3>2 DEF Receives, Delivers, Consume
    <3>3. ASSUME NEW k \in 0 .. MaxFan, NEW S \in SeedTasks, SeedRoot(k, S) PROVE <2>1!1 /\ <2>1!2
      BY <3>3 DEF SeedRoot, runVars
    <3> QED
      BY <1>2, <3>1, <3>2, <3>3, PumpKinds DEF Leaves
  <2> QED
    BY <2>1 DEF StageInv, PassedInv
<1>3. CASE Finalize
  <2>1. CASE outcome' = "passed"
    <3> DEFINE u == IF Root \in frames /\ interrupt # "caller" THEN Unwritten(Root) ELSE <<>>
    <3>1. log' = log \o u /\ log \o u = <<>> /\ interrupt # "caller"
          /\ UNCHANGED <<frames, endOpen>>
      BY <1>3, <2>1 DEF Finalize, Record
    <3>2. Root \in frames => ~endOpen[Root]
      <4> SUFFICES ASSUME Root \in frames, endOpen[Root] PROVE FALSE
        OBVIOUS
      <4>1. u = <<Root>> /\ <<Root>> \in Seq(Frame) /\ log \in Seq(Frame) /\ <<Root>> # <<>>
        BY <3>1, Bounds, ShortSeq DEF Unwritten, TypeInv, NoteType
      <4> HIDE DEF u
      <4> QED
        BY <3>1, <4>1, LogAppend
    <3> QED
      BY <3>1, <3>2 DEF PassedInv
  <2> QED
    BY <2>1 DEF PassedInv
<1>4. CASE OtherStep /\ ~Finalize
  <2>1. UNCHANGED <<outcome, log, frames, endOpen>>
    BY <1>4 DEF OtherStep, CleanupStarts, DeadlineFires, CleanupEnds, IoEnds,
         CeilingTrips, Abort, ClockPasses, CallerCancels, Interrupts, vars, frameVars, runVars
  <2> QED
    BY <2>1 DEF PassedInv
<1> QED
  BY <1>1, <1>2, <1>3, <1>4, ThreeKinds

LEMMA TreeInvariant ==
  Spec => [](TypeInv /\ CountInv /\ UnopenedInv /\ StageInv /\ TreeInv)
<1>1. Init => TreeInv
  BY Bounds DEF Init, TreeInv, PathInv, CancelInv, AwaitInv, Awaiting, Live
<1>2. TypeInv /\ CountInv /\ UnopenedInv /\ TreeInv /\ [Next]_vars => TreeInv'
  BY TreeStep
<1> QED
  BY <1>1, <1>2, EndInvariant, PTL DEF Spec

\* A run that reports passed stopped quietly, had no reason to stop otherwise,
\* recorded no failure, and wrote every required End port of every frame it did
\* not cancel, the frames of nested flows included (engine.py: _finish_child,
\* _close_end_ports, _finalize).
THEOREM NoGreenIsFalse == Spec => []NoFalseGreen
<1>1. Init => EndInv /\ RootInv /\ PassedInv /\ GatherInv
  BY DEF Init, EndInv, RootInv, PassedInv, GatherInv
<1>2. TypeInv /\ CountInv /\ UnopenedInv /\ StageInv /\ TreeInv
      /\ EndInv /\ RootInv /\ PassedInv /\ GatherInv /\ [Next]_vars
      => (EndInv /\ RootInv /\ PassedInv /\ GatherInv)'
  BY ThreeKinds, TaskStepEnd, PumpStepEnd, OtherStepEnd, RootStep, PassedStep, GatherStep
<1>3. StageInv /\ FatalInv /\ EndInv /\ RootInv /\ PassedInv /\ GatherInv => NoFalseGreen
  <2> SUFFICES ASSUME StageInv, FatalInv, EndInv, RootInv, PassedInv, GatherInv, outcome = "passed"
               PROVE  /\ stopped = "quiet" /\ log = <<>> /\ fatal = "none"
                      /\ \A f \in Frame : endOpen[f] => cancelled[f]
    BY DEF NoFalseGreen
  <2>1. stopped = "quiet" /\ fatal = "none" /\ log = <<>> /\ pump # "new" /\ cleanup = "done"
    BY DEF StageInv, FatalInv, PassedInv
  <2>2. Live = {} /\ ~endOpen[Root]
    BY <2>1 DEF GatherInv, RootInv, PassedInv
  <2>3. \A f \in Frame : endOpen[f] => cancelled[f]
    BY <2>1, <2>2 DEF EndInv, Awaits, Awaiting, Live
  <2> QED
    BY <2>1, <2>3
<1> QED
  BY <1>1, <1>2, <1>3, TreeInvariant, EndInvariant, PTL DEF Spec

--------------------------------------------------------------------------------
(* A child is over when its flow node goes on *)

HasWork(g) == Ids(queue, {g}) # {} \/ LiveIn({g}) # {}

\* Unless the budget is spent, somebody waits for every frame with work in it,
\* the cancelled ones and the root apart, and does not go on by itself.
WaitedInv ==
  ~exhausted => \A g \in Frame \ {Root} : HasWork(g) /\ ~cancelled[g] =>
    \E t \in Task : Awaits(t, g) /\ (pc[t] = "child" \/ cancel[t] # "none")

\* What an emission makes of the queue, as the consumed message, the firing
\* that ends and the firing that overspends write it.
Chained(q, m, a, b) == q \o m \o a \o b

Grouped(q, m, a, b) == q \o (m \o a \o b)

Paired(q, m, a, b) == q \o (m \o a) \o b

LEMMA Regroup ==
  ASSUME NEW S, NEW q \in Seq(S), NEW p \in Seq(S), NEW b \in Seq(S)
  PROVE  q \o (p \o b) = (q \o p) \o b
BY ConcatAssociative

LEMMA SameChain ==
  ASSUME NEW q \in Seq(Item), NEW m \in Seq(Item), NEW a \in Seq(Item), NEW b \in Seq(Item)
  PROVE  /\ Grouped(q, m, a, b) = Chained(q, m, a, b)
         /\ Paired(q, m, a, b) = Chained(q, m, a, b)
<1>1. m \o a \in Seq(Item)
  BY ConcatProperties
<1>2. q \o (m \o a) = (q \o m) \o a
  BY ConcatAssociative, SMTT(30)
<1>3. PICK p \in Seq(Item) : p = m \o a
  BY <1>1
<1>4. q \o (p \o b) = (q \o p) \o b
  BY ONLY p \in Seq(Item), q \in Seq(Item), b \in Seq(Item), Regroup, SMTT(30)
<1>5. Paired(q, m, a, b) = Chained(q, m, a, b)
  BY <1>2 DEF Paired, Chained
<1>6. Grouped(q, m, a, b) = q \o (p \o b) /\ Chained(q, m, a, b) = (q \o p) \o b
  BY <1>2, <1>3 DEF Grouped, Chained
<1> QED
  BY ONLY <1>4, <1>5, <1>6

LEMMA NoRoom ==
  ASSUME TypeInv
  PROVE  Room(0) = 0
BY Bounds DEF TypeInv, SchedType, Room, Min2

\* An emission at frame f leaves the messages of the other frames alone.
LEMMA ElsewhereKept ==
  ASSUME TypeInv, NEW q \in Seq(Item), Ordered(q, sent), NEW f \in Frame, NEW k \in Nat,
         NEW a \in Seq(Item), Silent(a), NEW b \in Seq(Item), Silent(b), NEW F,
         f \notin F \/ k = 0
  PROVE  /\ Ids(Chained(q, Msgs(f, k), a, b), F) = Ids(q, F)
         /\ Ids(Grouped(q, Msgs(f, k), a, b), F) = Ids(q, F)
         /\ Ids(Paired(q, Msgs(f, k), a, b), F) = Ids(q, F)
<1> DEFINE r == q \o Msgs(f, k)
<1>1. r \in Seq(Item) /\ Ids(r, F) = Ids(q, F)
  <2>1. CASE f \notin F
    BY <2>1, MsgsAppend
  <2>2. CASE f \in F
    <3>1. k = 0 /\ sent \in Nat
      BY <2>2 DEF TypeInv, SchedType
    <3>2. sent + 1 .. sent + Room(k) = {}
      BY <3>1, NoRoom
    <3>3. r \in Seq(Item) /\ Ids(r, F) = Ids(q, F) \cup (sent + 1 .. sent + Room(k))
      BY <2>2, MsgsAppend
    <3> HIDE DEF r
    <3> QED
      BY <3>2, <3>3
  <2> QED
    BY <2>1, <2>2
<1> HIDE DEF r
<1> DEFINE s == r \o a
<1>2. s \in Seq(Item) /\ Ids(s, F) = Ids(r, F)
  BY <1>1, SilentAppend
<1> HIDE DEF s
<1>3. Ids(s \o b, F) = Ids(s, F)
  BY <1>2, SilentAppend
<1>4. Ids(Chained(q, Msgs(f, k), a, b), F) = Ids(q, F)
  <2>1. Chained(q, Msgs(f, k), a, b) = s \o b
    BY DEF r, s, Chained
  <2> QED
    BY <1>1, <1>2, <1>3, <2>1
<1>5. Msgs(f, k) \in Seq(Item)
  BY MsgsType
<1> QED
  BY <1>4, <1>5, SameChain

\* A frame whose counter reached zero has no work left.
LEMMA CountedIdle ==
  TypeInv /\ CountInv => \A g \in Frame : frInFlight[g] = 0 => ~HasWork(g)
<1> SUFFICES ASSUME TypeInv, CountInv, NEW g \in Frame, frInFlight[g] = 0
             PROVE  ~HasWork(g)
  OBVIOUS
<1> DEFINE I == Ids(queue, {g})
           L == LiveIn({g})
<1>1. /\ Cardinality(I) \in Nat /\ Cardinality(L) \in Nat
      /\ IsFiniteSet(I) /\ IsFiniteSet(L)
  BY LoadType DEF CountInv
<1>2. 0 >= Cardinality(I) + Cardinality(L)
  BY DEF CountInv, Load
<1> HIDE DEF I, L
<1>3. I = {} /\ L = {}
  BY <1>1, <1>2, FS_EmptySet
<1> QED
  BY <1>3 DEF I, L, HasWork

LEMMA DrainedIdle ==
  (TypeInv /\ CountInv)' => \A g \in Frame : frInFlight'[g] = 0 => ~HasWork(g)'
<1>1. (TypeInv /\ CountInv => \A g \in Frame : frInFlight[g] = 0 => ~HasWork(g))'
  BY CountedIdle, PTL
<1> QED
  BY <1>1

\* The ending firing and the delivery leave the messages of other frames alone.
LEMMA EndsElsewhere ==
  ASSUME TypeInv, CountInv, NEW t \in Task, NEW k \in Nat, NEW notes, NEW w \in Reason, NEW V,
         FiringEnds(t, k, notes, w, V), NEW F, frameOf[t] \notin F \/ k = 0
  PROVE  Ids(queue', F) = Ids(queue, F)
<1>1. PICK g \in Frame : g = frameOf[t]
  BY DEF TypeInv, TaskType
<1>2. PICK gain \in Int : gain = Room(k)
  BY RoomType
<1>3. queue' = Grouped(queue, Msgs(g, k), FatalMark(w), QuietMark(gain))
  BY <1>1, <1>2 DEF FiringEnds, Grouped
<1>4. /\ FatalMark(w) \in Seq(Item) /\ Silent(FatalMark(w))
      /\ QuietMark(gain) \in Seq(Item) /\ Silent(QuietMark(gain))
  BY MarkTypes, MarksSilent
<1>5. queue \in Seq(Item) /\ Ordered(queue, sent) /\ (g \notin F \/ k = 0)
  BY <1>1 DEF TypeInv, SchedType, CountInv
<1> QED
  BY <1>3, <1>4, <1>5, ElsewhereKept

LEMMA DeliveryElsewhere ==
  ASSUME TypeInv, CountInv, NEW g \in Frame, NEW k \in Nat, NEW S, IsFiniteSet(S),
         Receives(g, k, S), NEW F, g \notin F \/ k = 0
  PROVE  Ids(queue', F) \subseteq Ids(queue, F)
<1>1. PICK gain \in Int : gain = Room(k) + Cardinality(S)
  BY RoomType, FS_CardinalityType
<1>2. PICK why \in Reason : why = IF Over(k) THEN "budget_exhausted" ELSE "none"
  BY DEF Reason
<1>3. PICK q : q = Tail(queue)
  OBVIOUS
<1>4. /\ queue' = Chained(q, Msgs(g, k), FatalMark(why), QuietMark(gain))
      /\ queue # <<>>
  BY <1>1, <1>2, <1>3 DEF Receives, Delivers, Consume, Chained
<1>5. queue \in Seq(Item) /\ sent \in Nat /\ Ordered(queue, sent)
  BY DEF TypeInv, SchedType, CountInv
<1>6. q \in Seq(Item) /\ Ordered(q, sent)
  BY <1>3, <1>4, <1>5, TailIds
<1>7. Ids(q, F) \subseteq Ids(queue, F)
  <2>1. \/ Ids(q, F) = Ids(queue, F)
        \/ Ids(q, F) = Ids(queue, F) \ {Head(queue).id}
    BY <1>3, <1>4, <1>5, TailIds
  <2> QED
    BY <2>1
<1>9. /\ FatalMark(why) \in Seq(Item) /\ Silent(FatalMark(why))
      /\ QuietMark(gain) \in Seq(Item) /\ Silent(QuietMark(gain))
  BY MarkTypes, MarksSilent
<1>10. Ids(queue', F) = Ids(q, F)
  BY <1>4, <1>6, <1>9, ElsewhereKept
<1> QED
  BY <1>7, <1>10

\* Work appears only in frames that have some, and in the frame that opens.
LEMMA EndsWork ==
  ASSUME TypeInv, CountInv, NEW t \in Task, Ends(t), pc[t] # "free",
         NEW g \in Frame, HasWork(g)'
  PROVE  HasWork(g)
<1>1. PICK k \in Nat, notes \in Seq(Frame), why \in Reason :
           \/ Finishes(t, k, notes, why) \/ Returns(t, k, notes, why)
           \/ ReturnsAtOnce(t, k, notes, why) \/ Interrupted(t, k, notes)
  BY EndKinds
<1>2. PICK V \in SUBSET (Live \ {t}), w \in Reason : FiringEnds(t, k, notes, w, V)
  <2>1. {} \in SUBSET (Live \ {t}) /\ Victims(t) \in SUBSET (Live \ {t}) /\ "none" \in Reason
    BY DEF Victims, Reason
  <2> QED
    BY <1>1, <2>1 DEF Finishes, Returns, ReturnsAtOnce, Interrupted
<1>3. LiveIn({g})' \subseteq LiveIn({g})
  BY <1>2, EndTasks DEF LiveIn, Goes, Stays
<1>4. CASE g = frameOf[t]
  BY <1>4 DEF HasWork, LiveIn
<1>5. CASE g # frameOf[t]
  <2>1. frameOf[t] \notin {g}
    BY <1>5
  <2>2. Ids(queue', {g}) = Ids(queue, {g})
    BY <1>2, <2>1, EndsElsewhere
  <2> QED
    BY <1>3, <2>2 DEF HasWork
<1> QED
  BY <1>4, <1>5

LEMMA ReceivesWork ==
  ASSUME TypeInv, CountInv, NEW f \in Frame, NEW k \in Nat,
         NEW S \in SUBSET (Task \ Live), IsFiniteSet(S), Receives(f, k, S),
         NEW g \in Frame, HasWork(g)'
  PROVE  HasWork(g)
<1>1. CASE g = f
  <2>1. queue \in Seq(Item) /\ sent \in Nat /\ Ordered(queue, sent)
    BY DEF TypeInv, SchedType, CountInv
  <2>2. queue # <<>> /\ Head(queue).tag = "msg" /\ Head(queue).frame \in {g}
    BY <1>1 DEF Receives, Delivers
  <2> QED
    BY <2>1, <2>2, TailIds DEF HasWork
<1>2. CASE g # f
  <2>1. f \notin {g}
    BY <1>2
  <2>2. Ids(queue', {g}) \subseteq Ids(queue, {g})
    BY <2>1, DeliveryElsewhere
  <2>3. LiveIn({g})' \subseteq LiveIn({g})
    <3> DEFINE done == Waiter(f, Room(k) + Cardinality(S))
    <3>1. \A u \in done : pc[u] # "free"
      BY DEF Waiter
    <3>2. /\ pc' = [u \in Task |-> IF u \in S THEN "new" ELSE IF u \in done THEN "childDone" ELSE pc[u]]
          /\ frameOf' = [u \in Task |-> IF u \in S THEN f ELSE frameOf[u]]
      BY DEF Receives, Consume
    <3> HIDE DEF done
    <3> QED
      BY <1>2, <3>1, <3>2 DEF LiveIn
  <2> QED
    BY <2>2, <2>3 DEF HasWork
<1> QED
  BY <1>1, <1>2

\* What a step must do for WaitedInv to survive: work appears only where there
\* was some, and who waits goes on waiting unless the frame went idle.
LEMMA WaitedKept ==
  ASSUME WaitedInv, exhausted => exhausted',
         \A g \in Frame \ {Root} : HasWork(g)' /\ ~cancelled'[g] => HasWork(g) /\ ~cancelled[g],
         \A g \in Frame \ {Root} : HasWork(g)' /\ ~cancelled'[g] =>
           \A t \in Task : Awaits(t, g) /\ (pc[t] = "child" \/ cancel[t] # "none") =>
             Awaits(t, g)' /\ (pc'[t] = "child" \/ cancel'[t] # "none")
  PROVE  WaitedInv'
BY DEF WaitedInv

LEMMA EndsWaited ==
  ASSUME TypeInv, CountInv, UnopenedInv, TreeInv, WaitedInv, TypeInv', CountInv',
         NEW t \in Task, Ends(t), pc[t] # "free"
  PROVE  WaitedInv'
<1>1. PICK k \in Nat, notes \in Seq(Frame), why \in Reason :
           \/ Finishes(t, k, notes, why) \/ Returns(t, k, notes, why)
           \/ ReturnsAtOnce(t, k, notes, why) \/ Interrupted(t, k, notes)
  BY EndKinds
<1>2. PICK V \in SUBSET (Live \ {t}), w \in Reason : FiringEnds(t, k, notes, w, V)
  <2>1. {} \in SUBSET (Live \ {t}) /\ Victims(t) \in SUBSET (Live \ {t}) /\ "none" \in Reason
    BY DEF Victims, Reason
  <2> QED
    BY <1>1, <2>1 DEF Finishes, Returns, ReturnsAtOnce, Interrupted
<1> DEFINE f == frameOf[t]
           gain == Room(k)
           done == Waiter(f, gain)
<1>3. f \in Frame /\ gain \in Int /\ childOf[t] \in Frame
  BY RoomType DEF TypeInv, TaskType
<1>5. \A g \in Frame : HasWork(g)' => HasWork(g)
  BY EndsWork
<1>6. frInFlight' = [frInFlight EXCEPT ![f] = @ + gain - 1]
  BY <1>2 DEF FiringEnds, Settle
<1>7. ASSUME NEW g \in Frame, HasWork(g)', g = f PROVE done = {}
  <2>1. frInFlight'[f] # 0
    BY <1>3, <1>7, DrainedIdle
  <2>2. frInFlight'[f] = frInFlight[f] + gain - 1 /\ frInFlight[f] \in Int
    BY <1>3, <1>6 DEF TypeInv, NoteType
  <2> QED
    BY <1>3, <2>1, <2>2 DEF Waiter, Drained
<1>8. exhausted => exhausted'
  BY <1>2 DEF FiringEnds, CountSent
<1>9. \A g \in Frame : cancelled[g] => cancelled'[g]
  BY <1>1 DEF Finishes, Returns, ReturnsAtOnce, Interrupted, CancelDoomed
<1>10. ASSUME NEW g \in Frame \ {Root}, HasWork(g)', ~cancelled'[g], NEW u \in Task,
              Awaits(u, g), pc[u] = "child" \/ cancel[u] # "none"
       PROVE  Awaits(u, g)' /\ (pc'[u] = "child" \/ cancel'[u] # "none")
  <2>1. CASE u = t
    <3>1. Interrupted(t, k, notes)
      BY <1>1, <1>10, <2>1 DEF Finishes, Returns, ReturnsAtOnce, Awaits, Awaiting
    <3>2. g \in Doomed(t)
      BY <1>3, <1>10, <2>1, <3>1 DEF Interrupted, Awaits, Awaiting, Doomed, Under, TreeInv, AwaitInv
    <3> QED
      BY <1>10, <3>1, <3>2 DEF Interrupted, CancelDoomed
  <2>2. CASE u # t
    <3>1. Awaits(u, g)'
      BY <1>2, <1>10, <2>2, EndsAwaiting DEF Awaits
    <3>2. u \notin done
      BY <1>7, <1>10 DEF Waiter, Awaits
    <3>3. pc'[u] = "child" \/ pc'[u] = pc[u] \/ cancel'[u] = "frame"
      BY <1>2, <2>2, <3>2 DEF FiringEnds
    <3>4. cancel'[u] = "frame" \/ cancel'[u] = cancel[u]
      BY <1>2, <2>2 DEF FiringEnds
    <3> QED
      BY <1>10, <3>1, <3>3, <3>4
  <2> QED
    BY <2>1, <2>2
<1> QED
  BY <1>5, <1>8, <1>9, <1>10, WaitedKept

LEMMA ReceivesWaited ==
  ASSUME TypeInv, CountInv, WaitedInv, TypeInv', CountInv', NEW f \in Frame, NEW k \in Nat,
         NEW S \in SUBSET (Task \ Live), IsFiniteSet(S), Receives(f, k, S)
  PROVE  WaitedInv'
<1> DEFINE gain == Room(k) + Cardinality(S)
           done == Waiter(f, gain)
<1>1. gain \in Int
  BY RoomType, FS_CardinalityType
<1>2. /\ pc' = [t \in Task |-> IF t \in S THEN "new" ELSE IF t \in done THEN "childDone" ELSE pc[t]]
      /\ frameOf' = [t \in Task |-> IF t \in S THEN f ELSE frameOf[t]]
      /\ UNCHANGED <<cancelled, childOf, cancel>> /\ (exhausted => exhausted')
      /\ frInFlight' = [frInFlight EXCEPT ![f] = @ + gain - 1]
  BY DEF Receives, Consume, CountSent, Settle
<1>5. \A g \in Frame : HasWork(g)' => HasWork(g)
  BY ReceivesWork
<1>6. ASSUME NEW g \in Frame, HasWork(g)', g = f PROVE done = {}
  <2>1. frInFlight'[f] # 0
    BY <1>6, DrainedIdle
  <2>2. frInFlight'[f] = frInFlight[f] + gain - 1 /\ frInFlight[f] \in Int
    BY <1>1, <1>2 DEF TypeInv, NoteType
  <2> HIDE DEF gain
  <2> QED
    BY <1>1, <2>1, <2>2 DEF Waiter, Drained
<1>7. ASSUME NEW g \in Frame \ {Root}, HasWork(g)', NEW u \in Task, Awaits(u, g),
             pc[u] = "child" \/ cancel[u] # "none"
      PROVE  Awaits(u, g)' /\ (pc'[u] = "child" \/ cancel'[u] # "none")
  <2>1. u \notin done
    BY <1>6, <1>7 DEF Waiter, Awaits
  <2>2. u \notin S
    BY <1>7 DEF Awaits, Awaiting, Live
  <2>3. pc'[u] = pc[u]
    BY <1>2, <2>1, <2>2
  <2> QED
    BY <1>2, <1>7, <2>3 DEF Awaits, Awaiting
<1> QED
  BY <1>2, <1>5, <1>7, WaitedKept

\* The steps that put and take nothing but sentinels.
LEMMA MarkSteps ==
  ASSUME TypeInv, CountInv, OtherStep \/ PumpBlocks \/ PumpResumes \/ BindFails \/ PumpStops
                            \/ PumpGivesUp \/ PumpInterrupted
  PROVE  SameMessages /\ UNCHANGED <<sent, exhausted>>
<1>1. CASE UNCHANGED <<queue, sent, exhausted>>
  BY <1>1, SameQueue
<1>2. CASE Abort
  BY <1>2, NoMarkAdded, MarkedQueue DEF Abort
<1>3. CASE PumpStops
  <2>1. queue # <<>> /\ Head(queue).tag # "msg" /\ UNCHANGED <<sent, exhausted>>
    BY <1>3 DEF PumpStops
  <2>2. \/ queue' = Tail(queue) \o TimeoutMark
        \/ queue' = Tail(queue) \o <<>>
    BY <1>3 DEF PumpStops
  <2>3. <<>> \in Seq(Item) /\ Silent(<<>>)
    BY DEF Silent
  <2> QED
    BY <2>1, <2>2, <2>3, NoMarkAdded, TakenMark
<1>4. CASE PumpGivesUp \/ PumpInterrupted
  <2>1. UNCHANGED <<sent, exhausted>>
    BY <1>4 DEF PumpGivesUp, PumpInterrupted
  <2>2. \/ queue' = queue \o TimeoutMark
        \/ queue' = queue \o <<>>
    BY <1>4 DEF PumpGivesUp, PumpInterrupted
  <2> QED
    BY <2>1, <2>2, NoMarkAdded, MarkedQueue, SameQueue
<1>5. ~(Abort \/ PumpStops \/ PumpGivesUp \/ PumpInterrupted) => UNCHANGED <<queue, sent, exhausted>>
  BY DEF OtherStep, PumpBlocks, PumpResumes, BindFails, CleanupStarts, DeadlineFires, CleanupEnds,
         Finalize, IoEnds, CeilingTrips, ClockPasses, CallerCancels, Interrupts, vars, schedVars
<1> QED
  BY <1>1, <1>2, <1>3, <1>4, <1>5

LEMMA MarkStepsWork ==
  ASSUME TypeInv, CountInv,
         OtherStep \/ PumpBlocks \/ PumpResumes \/ BindFails \/ PumpStops
         \/ PumpGivesUp \/ PumpInterrupted
  PROVE  \A g \in Frame : HasWork(g)' => HasWork(g)
<1>1. /\ \A u \in Task : pc'[u] # "free" => Stays(u)
      /\ \A F : Ids(queue', F) = Ids(queue, F)
  BY OtherStepGoes, MarkSteps DEF SameMessages
<1> QED
  BY <1>1 DEF HasWork, LiveIn, Stays

LEMMA MarkStepsWaited ==
  ASSUME TypeInv, CountInv, WaitedInv,
         OtherStep \/ PumpBlocks \/ PumpResumes \/ BindFails \/ PumpStops
         \/ PumpGivesUp \/ PumpInterrupted
  PROVE  WaitedInv'
<1>1. /\ UNCHANGED <<cancelled, exhausted>>
      /\ \A u \in Task : /\ pc'[u] # "free" => Stays(u) /\ Goes(u)
                         /\ pc'[u] = "childDone" => pc[u] = "childDone" \/ cancel'[u] # "none"
  BY OtherStepGoes, MarkSteps
<1>2. ASSUME NEW u \in Task, pc[u] # "free" PROVE pc'[u] # "free"
  BY <1>2 DEF OtherStep, PumpBlocks, PumpResumes, BindFails, PumpStops, PumpGivesUp,
         PumpInterrupted, CleanupStarts, DeadlineFires, CleanupEnds, Finalize, IoEnds, CeilingTrips,
         Abort, ClockPasses, CallerCancels, Interrupts, vars, taskVars, TypeInv, TaskType
<1>3. \A g \in Frame : HasWork(g)' => HasWork(g)
  BY MarkStepsWork
<1>4. \A g \in Frame, u \in Task : Awaits(u, g) /\ (pc[u] = "child" \/ cancel[u] # "none") =>
        Awaits(u, g)' /\ (pc'[u] = "child" \/ cancel'[u] # "none")
  BY <1>1, <1>2 DEF Awaits, Awaiting, Goes, Stays
<1> QED
  BY <1>1, <1>3, <1>4, WaitedKept

LEMMA StillWork ==
  ASSUME TypeInv, NEW t \in Task, FiringWaits(t) \/ FiringNeverStarts(t)
  PROVE  \A g \in Frame : HasWork(g)' => HasWork(g)
<1>1. /\ queue' = queue
      /\ \A u \in Task : pc'[u] # "free" => pc[u] # "free" /\ frameOf'[u] = frameOf[u]
  BY DEF FiringWaits, FiringNeverStarts, TypeInv, TaskType
<1> QED
  BY <1>1 DEF HasWork, LiveIn

LEMMA OpensWork ==
  ASSUME TypeInv, CountInv, UnopenedInv, NEW t \in Task, NEW k \in 0 .. MaxFan,
         NEW S \in SeedTasks, FlowOpens(t, k, S), NEW g \in Frame, g # NextFrame, HasWork(g)'
  PROVE  HasWork(g)
<1>1. PICK c \in Frame : c = NextFrame
  BY NextFrameType DEF FlowOpens
<1>2. /\ pc' = [u \in Task |-> IF u = t THEN "child" ELSE IF u \in S THEN "new" ELSE pc[u]]
      /\ frameOf' = [u \in Task |-> IF u \in S THEN c ELSE frameOf[u]]
      /\ queue' = queue \o Msgs(c, k) /\ pc[t] = "new"
  BY <1>1 DEF FlowOpens, Steps
<1>3. k \in Nat /\ S \in SUBSET (Task \ Live) /\ c \notin {g}
  BY <1>1, SeedTasksType, Bounds
<1>4. queue \in Seq(Item) /\ Ordered(queue, sent)
  BY DEF TypeInv, SchedType, CountInv
<1>5. Ids(queue \o Msgs(c, k), {g}) = Ids(queue, {g})
  BY <1>3, <1>4, MsgsAppend
<1>6. LiveIn({g})' \subseteq LiveIn({g})
  BY <1>2, <1>3 DEF LiveIn
<1> QED
  BY <1>2, <1>5, <1>6 DEF HasWork

LEMMA TaskStepWaited ==
  ASSUME TypeInv, CountInv, UnopenedInv, TreeInv, WaitedInv, TypeInv', CountInv',
         NEW t \in Task, TaskStep(t)
  PROVE  WaitedInv'
<1>1. pc[t] # "free" /\ frameOf[t] \in Frame
  BY TaskLeaves DEF TypeInv, TaskType
<1>2. CASE FiringWaits(t) \/ FiringNeverStarts(t)
  <2>1. /\ UNCHANGED <<queue, cancelled, exhausted, childOf>> /\ pc[t] = "new"
        /\ \A u \in Task \ {t} : pc'[u] = pc[u] /\ cancel'[u] = cancel[u]
        /\ \A u \in Task : pc'[u] # "free" => pc[u] # "free" /\ frameOf'[u] = frameOf[u]
    BY <1>2 DEF FiringWaits, FiringNeverStarts, frameVars, TypeInv, TaskType
  <2>2. \A g \in Frame : HasWork(g)' => HasWork(g)
    BY <1>2, StillWork
  <2>3. \A g \in Frame, u \in Task : Awaits(u, g) /\ (pc[u] = "child" \/ cancel[u] # "none") =>
          Awaits(u, g)' /\ (pc'[u] = "child" \/ cancel'[u] # "none")
    BY <2>1 DEF Awaits, Awaiting
  <2> QED
    BY <2>1, <2>2, <2>3, WaitedKept
<1>3. ASSUME NEW k \in 0 .. MaxFan, NEW S \in SeedTasks, FlowOpens(t, k, S)
      PROVE  WaitedInv'
  <2>1. S \in SUBSET (Task \ Live) /\ k \in Nat
    BY SeedTasksType, Bounds
  <2>2. PICK c \in Frame : c = NextFrame /\ path[c] = {}
    BY <1>3, NextFrameType DEF FlowOpens
  <2>3. /\ UNCHANGED <<cancelled, cancel>> /\ pc[t] = "new" /\ (exhausted => exhausted')
        /\ pc' = [u \in Task |-> IF u = t THEN "child" ELSE IF u \in S THEN "new" ELSE pc[u]]
        /\ childOf' = [childOf EXCEPT ![t] = c]
        /\ frameOf' = [u \in Task |-> IF u \in S THEN c ELSE frameOf[u]]
        /\ queue' = queue \o Msgs(c, k)
    BY <1>3, <2>2 DEF FlowOpens, OpenFrame, Steps, CountSent
  <2>4. \A g \in Frame : g # c /\ HasWork(g)' => HasWork(g)
    BY <1>3, <2>2, OpensWork
  <2>5. Awaits(t, c)' /\ pc'[t] = "child"
    BY <2>3 DEF Awaits, Awaiting, TypeInv, TaskType
  <2>6. \A g \in Frame, u \in Task : Awaits(u, g) /\ (pc[u] = "child" \/ cancel[u] # "none") =>
          Awaits(u, g)' /\ (pc'[u] = "child" \/ cancel'[u] # "none")
    BY <2>1, <2>3 DEF Awaits, Awaiting, Live, TypeInv, TaskType
  <2> QED
    BY <2>3, <2>4, <2>5, <2>6 DEF WaitedInv
<1>4. ASSUME NEW k \in 1 .. MaxFan, FlowOverspends(t, k)
      PROVE  WaitedInv'
  BY <1>4 DEF FlowOverspends, CountSent, WaitedInv
<1> QED
  BY <1>1, <1>2, <1>3, <1>4, EndsWaited DEF TaskStep, Ends

LEMMA SeedRootWork ==
  ASSUME TypeInv, CountInv, NEW k \in 0 .. MaxFan, NEW S \in SeedTasks, SeedRoot(k, S)
  PROVE  \A g \in Frame \ {Root} : HasWork(g)' => HasWork(g)
<1> DEFINE new == IF Over(k) THEN {} ELSE S
           why == IF Over(k) THEN "budget_exhausted" ELSE "none"
<1>1. new \in SUBSET (Task \ Live) /\ k \in Nat /\ Root \in Frame /\ why \in Reason
  BY SeedTasksType, Bounds DEF Reason
<1>2. /\ pc' = [t \in Task |-> IF t \in new THEN "new" ELSE pc[t]]
      /\ frameOf' = [t \in Task |-> IF t \in new THEN Root ELSE frameOf[t]]
      /\ queue' = queue \o Msgs(Root, k) \o FatalMark(why)
  BY DEF SeedRoot, Spawn
<1>3. FatalMark(why) \in Seq(Item) /\ Silent(FatalMark(why))
  BY <1>1, MarkTypes, MarksSilent
<1> HIDE DEF new, why
<1>4. ASSUME NEW g \in Frame \ {Root}, HasWork(g)' PROVE HasWork(g)
  <2> DEFINE r == queue \o Msgs(Root, k)
  <2>1. r \in Seq(Item) /\ Ids(r, {g}) = Ids(queue, {g})
    BY <1>1, <1>4, MsgsAppend DEF CountInv, TypeInv, SchedType
  <2> HIDE DEF r
  <2>2. Ids(r \o FatalMark(why), {g}) = Ids(r, {g})
    BY <1>3, <2>1, SilentAppend
  <2>3. Ids(queue', {g}) = Ids(queue, {g})
    BY <1>2, <2>1, <2>2 DEF r
  <2>4. LiveIn({g})' \subseteq LiveIn({g})
    BY <1>2, <1>4 DEF LiveIn
  <2> QED
    BY <1>4, <2>3, <2>4 DEF HasWork
<1> QED
  BY <1>4

LEMMA SeedRootWaited ==
  ASSUME TypeInv, CountInv, WaitedInv, NEW k \in 0 .. MaxFan, NEW S \in SeedTasks, SeedRoot(k, S)
  PROVE  WaitedInv'
<1> DEFINE new == IF Over(k) THEN {} ELSE S
<1>1. new \in SUBSET (Task \ Live)
  BY SeedTasksType
<1>2. /\ UNCHANGED <<cancelled, cancel, childOf>> /\ (exhausted => exhausted')
      /\ pc' = [t \in Task |-> IF t \in new THEN "new" ELSE pc[t]]
  BY DEF SeedRoot, Spawn, CountSent
<1> HIDE DEF new
<1>4. \A g \in Frame \ {Root} : HasWork(g)' => HasWork(g)
  BY SeedRootWork
<1>5. \A g \in Frame, u \in Task : Awaits(u, g) /\ (pc[u] = "child" \/ cancel[u] # "none") =>
        Awaits(u, g)' /\ (pc'[u] = "child" \/ cancel'[u] # "none")
  BY <1>1, <1>2 DEF Awaits, Awaiting, Live, TypeInv, TaskType
<1> QED
  BY <1>2, <1>4, <1>5, WaitedKept

LEMMA WaitedStep ==
  ASSUME TypeInv, CountInv, UnopenedInv, TreeInv, WaitedInv, TypeInv', CountInv', [Next]_vars
  PROVE  WaitedInv'
<1>1. CASE PumpStep
  BY <1>1, PumpKinds, ReceivesWaited, SeedRootWaited, MarkStepsWaited DEF Leaves
<1> QED
  BY <1>1, ThreeKinds, TaskStepWaited, MarkStepsWaited

LEMMA LeastFinite ==
  ASSUME NEW U, IsFiniteSet(U), NEW T \in SUBSET (SUBSET U), T # {}
  PROVE  \E A \in T : \A B \in T : ~(B \subseteq A /\ B # A)
<1>1. T \subseteq FiniteSubsetsOf(U)
  BY FS_Subset DEF FiniteSubsetsOf
<1>2. PICK A \in T : \A B \in T : ~(<<B, A>> \in StrictSubsetOrdering(U))
  BY <1>1, FS_StrictSubsetOrderingWellFounded, WFMin
<1> QED
  BY <1>1, <1>2 DEF StrictSubsetOrdering, FiniteSubsetsOf

\* Below a frame whose waiter goes on normally there is no work, except in
\* cancelled frames: a highest frame with work would have a waiter of its own.
LEMMA NothingBelow ==
  ASSUME TypeInv, CountInv, UnopenedInv, TreeInv, WaitedInv, ~exhausted, NEW t \in Task,
         pc[t] = "childDone", cancel[t] = "none", NEW g \in Frame, childOf[t] \in path[g],
         HasWork(g)
  PROVE  cancelled[g]
<1> DEFINE c == childOf[t]
           Bad == {h \in Frame : c \in path[h] /\ HasWork(h) /\ ~cancelled[h]}
           T == {path[h] : h \in Bad}
<1>0. path \in [Frame -> SUBSET Frame] /\ IsFiniteSet(Frame) /\ c \in Frame
      /\ frameOf \in [Task -> Frame]
  BY Bounds DEF TypeInv, TreeType, TaskType
<1>1. ASSUME NEW h \in Bad PROVE \E b \in Bad : path[b] \subseteq path[h] /\ path[b] # path[h]
  <2>1. h # Root
    BY <1>0, <1>1 DEF TreeInv, PathInv, AwaitInv, Awaiting
  <2>2. PICK u \in Task : Awaits(u, h) /\ (pc[u] = "child" \/ cancel[u] # "none")
    BY <1>1, <2>1 DEF WaitedInv
  <2>3. h # c
    BY <2>2 DEF TreeInv, AwaitInv, Awaiting, Awaits
  <2> DEFINE b == frameOf[u]
  <2>4. path[h] = path[b] \cup {h} /\ h \notin path[b] /\ pc[u] # "free" /\ b \in Frame
    BY <1>0, <2>2 DEF TreeInv, AwaitInv, Awaits, Awaiting
  <2>5. c \in path[b] /\ path[b] # path[h] /\ path[b] \subseteq path[h] /\ h \in Frame
    BY <1>1, <2>3, <2>4
  <2>6. HasWork(b)
    BY <2>4 DEF HasWork, LiveIn
  <2>7. b \in path[h]
    BY <2>4, <2>5 DEF TreeInv, PathInv
  <2>8. ~cancelled[b]
    BY <1>1, <2>4, <2>5, <2>7 DEF TreeInv, CancelInv
  <2> QED
    BY <2>4, <2>5, <2>6, <2>8
<1> SUFFICES ASSUME Bad # {} PROVE FALSE
  OBVIOUS
<1>2. T \in SUBSET (SUBSET Frame) /\ T # {}
  BY <1>0
<1>3. PICK A \in T : \A B \in T : ~(B \subseteq A /\ B # A)
  <2> HIDE DEF T
  <2> QED
    BY <1>0, <1>2, LeastFinite
<1>4. PICK h \in Bad : A = path[h]
  BY <1>3
<1> HIDE DEF Bad
<1>5. PICK b \in Bad : path[b] \subseteq path[h] /\ path[b] # path[h]
  BY <1>1, <1>4
<1> QED
  BY <1>3, <1>4, <1>5

\* A flow node goes on only when its child is over: as long as the budget lasts,
\* nothing of the child's subtree is queued or firing when its task returns
\* normally, except what was cancelled, and the child itself was not cancelled
\* (engine.py: _run_child waits for the frame's done event, which _dec sets when
\* the frame's own in_flight reaches zero; the work below it is covered because
\* every open flow node counts as work of its own frame).
THEOREM ChildIsAlwaysOver == Spec => []ChildIsOver
<1>1. Init => WaitedInv
  BY DEF Init, WaitedInv, HasWork, Ids, MsgAt, LiveIn
<1>2. TypeInv /\ CountInv /\ UnopenedInv /\ TreeInv /\ WaitedInv /\ (TypeInv /\ CountInv)'
      /\ [Next]_vars => WaitedInv'
  BY WaitedStep
<1>3. TypeInv /\ CountInv /\ UnopenedInv /\ TreeInv /\ WaitedInv => ChildIsOver
  <2> SUFFICES ASSUME TypeInv, CountInv, UnopenedInv, TreeInv, WaitedInv, ~exhausted,
                      NEW t \in Task, pc[t] = "childDone", cancel[t] = "none"
               PROVE  /\ \A i \in Queued : childOf[t] \notin path[queue[i].frame]
                                             \/ cancelled[queue[i].frame]
                      /\ \A u \in Live : childOf[t] \in path[frameOf[u]] => cancelled[frameOf[u]]
                      /\ ~cancelled[childOf[t]]
    BY DEF ChildIsOver
  <2>1. ASSUME NEW i \in Queued, childOf[t] \in path[queue[i].frame]
        PROVE  cancelled[queue[i].frame]
    <3>1. i \in DOMAIN queue /\ queue \in Seq(Item) /\ queue[i].tag = "msg"
      BY DEF Queued, TypeInv, SchedType
    <3>2. queue[i].frame \in Frame
      BY <3>1, ItemFields
    <3>3. HasWork(queue[i].frame)
      BY <3>1 DEF HasWork, Ids, MsgAt
    <3> QED
      BY <2>1, <3>2, <3>3, NothingBelow
  <2>2. ASSUME NEW u \in Live, childOf[t] \in path[frameOf[u]]
        PROVE  cancelled[frameOf[u]]
    <3>1. frameOf[u] \in Frame /\ HasWork(frameOf[u])
      BY DEF Live, HasWork, LiveIn, TypeInv, TaskType
    <3> QED
      BY <2>2, <3>1, NothingBelow
  <2>3. ~cancelled[childOf[t]]
    BY DEF TreeInv, AwaitInv, Awaiting
  <2> QED
    BY <2>1, <2>2, <2>3
<1> QED
  BY <1>1, <1>2, <1>3, TreeInvariant, PTL DEF Spec

--------------------------------------------------------------------------------
(* A cancelled frame is silent *)

\* A step queues no message of frame f and records no entry of it.
Hushed(f) == Ids(queue', {f}) \subseteq Ids(queue, {f})

Unheard(f) == \A i \in DOMAIN log' : i > Len(log) => log'[i] # f

LEMMA HushedQueue ==
  ASSUME TypeInv, TypeInv', CountInv, NEW f \in Frame, Hushed(f)
  PROVE  \A i \in DOMAIN queue' : queue'[i].id > sent => queue'[i].frame # f
<1> SUFFICES ASSUME NEW i \in DOMAIN queue', queue'[i].id > sent, queue'[i].frame = f
             PROVE  FALSE
  OBVIOUS
<1>1. queue' \in Seq(Item) /\ queue \in Seq(Item) /\ sent \in Nat /\ Ordered(queue, sent)
  BY DEF TypeInv, SchedType, CountInv
<1>2. PICK m \in Item : m = queue'[i]
  BY <1>1, ItemFields
<1>3. m.tag = "msg" /\ m.id \in Nat
  BY <1>1, <1>2, Bounds DEF Item, Delivery, Quiescent, Fatal
<1>4. m.id \in Ids(queue, {f})
  BY <1>2, <1>3 DEF Hushed, Ids, MsgAt
<1>5. \A x \in Ids(queue, {f}) : x <= sent
  BY <1>1 DEF Ids, MsgAt, Ordered
<1>6. PICK n \in Nat : n = m.id
  BY <1>3
<1>7. n > sent
  BY <1>2, <1>6
<1>8. n <= sent
  BY <1>4, <1>5, <1>6
<1> QED
  BY <1>1, <1>6, <1>7, <1>8

LEMMA UnheardNotes ==
  ASSUME TypeInv, NEW notes \in Seq(Frame), log' = log \o notes, NEW f,
         \A i \in DOMAIN notes : notes[i] # f
  PROVE  Unheard(f)
<1> SUFFICES ASSUME NEW i \in DOMAIN log', i > Len(log) PROVE log'[i] # f
  BY DEF Unheard
<1>1. log \in Seq(Frame)
  BY DEF TypeInv, NoteType
<1>2. /\ DOMAIN (log \o notes) = 1 .. Len(log) + Len(notes) /\ Len(log) \in Nat
      /\ DOMAIN notes = 1 .. Len(notes) /\ Len(notes) \in Nat
  BY <1>1, ConcatProperties, LenProperties
<1>3. (log \o notes)[i] = notes[i - Len(log)]
  BY <1>1, <1>2, ConcatProperties
<1>4. i - Len(log) \in DOMAIN notes
  BY <1>2
<1> QED
  BY <1>3, <1>4

LEMMA SameLog ==
  ASSUME TypeInv, log' = log, NEW f
  PROVE  Unheard(f)
<1>1. DOMAIN log = 1 .. Len(log) /\ Len(log) \in Nat
  BY LenProperties DEF TypeInv, NoteType
<1> QED
  BY <1>1 DEF Unheard

\* The entries that notes of two frames, neither of them f, leave.
LEMMA TwoNotes ==
  ASSUME NEW c \in Frame, NEW g \in Frame, NEW f, c # f, g # f,
         NEW a \in {<<>>, <<c>>}, NEW b \in {<<>>, <<g>>}
  PROVE  \A i \in DOMAIN (a \o b) : (a \o b)[i] # f
<1>1. a \in Seq(Frame) /\ b \in Seq(Frame)
  BY ShortSeq
<1>2. \A i \in DOMAIN a : a[i] # f
  OBVIOUS
<1>3. \A i \in DOMAIN b : b[i] # f
  OBVIOUS
<1> QED
  BY <1>1, <1>2, <1>3, ConcatProperties, LenProperties

LEMMA EndsSilent ==
  ASSUME TypeInv, CountInv, UnopenedInv, TreeInv, NEW t \in Task, Ends(t), pc[t] # "free",
         NEW f \in Frame, cancelled[f]
  PROVE  Hushed(f) /\ Unheard(f)
<1>1. PICK k \in Nat, notes \in Seq(Frame), why \in Reason :
           \/ Finishes(t, k, notes, why) \/ Returns(t, k, notes, why)
           \/ ReturnsAtOnce(t, k, notes, why) \/ Interrupted(t, k, notes)
  BY EndKinds
<1>2. PICK V \in SUBSET (Live \ {t}), w \in Reason : FiringEnds(t, k, notes, w, V)
  <2>1. {} \in SUBSET (Live \ {t}) /\ Victims(t) \in SUBSET (Live \ {t}) /\ "none" \in Reason
    BY DEF Victims, Reason
  <2> QED
    BY <1>1, <2>1 DEF Finishes, Returns, ReturnsAtOnce, Interrupted
<1>3. PICK g \in Frame : g = frameOf[t]
  BY DEF TypeInv, TaskType
<1>5. cancel[t] # "frame" => g # f
  BY <1>3 DEF TreeInv, CancelInv, Live
<1>6. g # f \/ (k = 0 /\ notes = <<>>)
  BY <1>1, <1>3, <1>5 DEF Finishes, Returns, ReturnsAtOnce, Interrupted
<1>7. Hushed(f)
  <2>1. frameOf[t] \notin {f} \/ k = 0
    BY <1>3, <1>6
  <2>2. Ids(queue', {f}) = Ids(queue, {f})
    BY <1>2, <2>1, EndsElsewhere
  <2> QED
    BY <2>2 DEF Hushed
<1>8. \A i \in DOMAIN notes : notes[i] # f
  <2>1. CASE Finishes(t, k, notes, why)
    BY <1>3, <1>5, <2>1 DEF Finishes
  <2>2. CASE Returns(t, k, notes, why)
    <3>1. PICK c \in Frame : c = childOf[t] /\ c # f
      BY <2>2 DEF TypeInv, TaskType, TreeInv, AwaitInv, Awaiting, Returns
    <3>2. PICK a \in {<<>>, <<c>>}, b \in {<<>>, <<g>>} : notes = a \o b
      BY <1>3, <2>2, <3>1 DEF Returns, Unwritten
    <3> QED
      BY <1>5, <2>2, <3>1, <3>2, TwoNotes DEF Returns
  <2>3. CASE ReturnsAtOnce(t, k, notes, why)
    <3>1. PICK c \in Frame : \E b \in {<<>>, <<g>>}, a \in {<<>>, <<c>>} :
             path[c] = {} /\ notes = a \o b
      BY <1>3, <2>3 DEF ReturnsAtOnce
    <3>2. PICK b \in {<<>>, <<g>>}, a \in {<<>>, <<c>>} : path[c] = {} /\ notes = a \o b
      BY <3>1
    <3>3. c # f
      BY <3>2 DEF TreeInv, CancelInv
    <3> QED
      BY <1>5, <2>3, <3>2, <3>3, TwoNotes DEF ReturnsAtOnce
  <2>4. CASE Interrupted(t, k, notes)
    <3>1. CASE notes = <<>>
      BY <3>1
    <3>2. CASE notes = <<g>>
      <4>1. g # f
        BY <1>6, <3>2, ShortSeq
      <4> QED
        BY <3>2, <4>1
    <3> QED
      BY <1>3, <2>4, <3>1, <3>2 DEF Interrupted
  <2> QED
    BY <1>1, <2>1, <2>2, <2>3, <2>4
<1>9. log' = log \o notes
  BY <1>2 DEF FiringEnds, Record
<1> QED
  BY <1>7, <1>8, <1>9, UnheardNotes

LEMMA TaskStepSilent ==
  ASSUME TypeInv, CountInv, UnopenedInv, TreeInv, NEW t \in Task, TaskStep(t),
         NEW f \in Frame, cancelled[f]
  PROVE  Hushed(f) /\ Unheard(f)
<1>1. pc[t] # "free"
  BY TaskLeaves
<1>2. CASE FiringWaits(t) \/ FiringNeverStarts(t)
  BY <1>2, SameLog DEF FiringWaits, FiringNeverStarts, frameVars, Hushed
<1>3. ASSUME NEW c \in Frame, path[c] = {} PROVE c # f
  BY <1>3 DEF TreeInv, CancelInv
<1>4. queue \in Seq(Item) /\ Ordered(queue, sent)
  BY DEF TypeInv, SchedType, CountInv
<1>5. ASSUME NEW k \in 0 .. MaxFan, NEW S \in SeedTasks, FlowOpens(t, k, S)
      PROVE  Hushed(f) /\ Unheard(f)
  <2>1. PICK c \in Frame : c = NextFrame /\ path[c] = {}
    BY <1>5, NextFrameType DEF FlowOpens
  <2>2. k \in Nat /\ f \notin {} /\ c \notin {f}
    BY <1>3, <2>1, Bounds
  <2>3. queue' = queue \o Msgs(c, k) /\ log' = log
    BY <1>5, <2>1 DEF FlowOpens
  <2>4. Ids(queue \o Msgs(c, k), {f}) = Ids(queue, {f})
    BY <1>4, <2>2, MsgsAppend
  <2> QED
    BY <2>3, <2>4, SameLog DEF Hushed
<1>6. ASSUME NEW k \in 1 .. MaxFan, FlowOverspends(t, k)
      PROVE  Hushed(f) /\ Unheard(f)
  <2>1. PICK c \in Frame : c = NextFrame /\ path[c] = {}
    BY <1>6, NextFrameType DEF FlowOverspends
  <2>2. k \in Nat /\ c \notin {f}
    BY <1>3, <2>1, Bounds
  <2>3. Room(k) \in Int
    BY <2>2, RoomType
  <2>4. /\ <<Fatal>> \in Seq(Item) /\ Silent(<<Fatal>>)
        /\ QuietMark(Room(k)) \in Seq(Item) /\ Silent(QuietMark(Room(k)))
    BY <2>3, MarkTypes, MarksSilent DEF AbortMark
  <2>5. queue' = Paired(queue, Msgs(c, k), <<Fatal>>, QuietMark(Room(k))) /\ log' = log
    BY <1>6, <2>1 DEF FlowOverspends, Paired
  <2>6. Ids(queue', {f}) = Ids(queue, {f})
    <3>1. PICK a \in Seq(Item), b \in Seq(Item) :
             a = <<Fatal>> /\ b = QuietMark(Room(k)) /\ Silent(a) /\ Silent(b)
      BY <2>4
    <3>2. queue' = Paired(queue, Msgs(c, k), a, b)
      BY <2>5, <3>1
    <3>3. Silent(a) /\ Silent(b)
      BY <3>1
    <3>4. Ids(Paired(queue, Msgs(c, k), a, b), {f}) = Ids(queue, {f})
      BY <1>4, <2>2, <3>3, ElsewhereKept
    <3> QED
      BY <3>2, <3>4
  <2> QED
    BY <2>5, <2>6, SameLog DEF Hushed
<1> QED
  BY <1>1, <1>2, <1>5, <1>6, EndsSilent DEF TaskStep, Ends

LEMMA ReceivesSilent ==
  ASSUME TypeInv, CountInv, NEW g \in Frame, NEW k \in Nat,
         NEW S \in SUBSET (Task \ Live), IsFiniteSet(S), Receives(g, k, S),
         NEW f \in Frame, cancelled[f]
  PROVE  Hushed(f) /\ Unheard(f)
<1>1. log' = log /\ (g \notin {f} \/ k = 0)
  BY DEF Receives, Consume
<1>2. Ids(queue', {f}) \subseteq Ids(queue, {f})
  BY <1>1, DeliveryElsewhere
<1> QED
  BY <1>1, <1>2, SameLog DEF Hushed

LEMMA SeedRootSilent ==
  ASSUME TypeInv, CountInv, UnopenedInv, TreeInv, NEW k \in 0 .. MaxFan, NEW S \in SeedTasks,
         SeedRoot(k, S), NEW f \in Frame
  PROVE  ~cancelled[f]
<1>1. path[Root] = {}
  BY DEF UnopenedInv, SeedRoot
<1>2. path[f] = {}
  BY <1>1 DEF TreeInv, PathInv
<1> QED
  BY <1>2 DEF TreeInv, CancelInv

LEMMA OtherSilent ==
  ASSUME TypeInv, CountInv, TreeInv,
         OtherStep \/ PumpBlocks \/ PumpResumes \/ BindFails \/ PumpStops
         \/ PumpGivesUp \/ PumpInterrupted,
         NEW f \in Frame, cancelled[f]
  PROVE  Hushed(f) /\ Unheard(f)
<1>1. Hushed(f)
  BY MarkSteps DEF SameMessages, Hushed
<1>2. CASE Finalize
  <2>1. Root # f /\ Root \in Frame
    BY Bounds DEF TreeInv, CancelInv
  <2>2. PICK notes \in {<<>>, <<Root>>} : log' = log \o notes
    BY <1>2 DEF Finalize, Record, Unwritten
  <2>3. notes \in Seq(Frame)
    BY <2>1, ShortSeq
  <2>4. \A i \in DOMAIN notes : notes[i] # f
    BY <2>1
  <2> QED
    BY <1>1, <2>2, <2>3, <2>4, UnheardNotes
<1>3. CASE ~Finalize
  <2>1. log' = log
    BY <1>3 DEF OtherStep, PumpBlocks, PumpResumes, BindFails, PumpStops, PumpGivesUp,
         PumpInterrupted, CleanupStarts, DeadlineFires, CleanupEnds, IoEnds, CeilingTrips,
         Abort, ClockPasses, CallerCancels, Interrupts, vars, frameVars
  <2> QED
    BY <1>1, <2>1, SameLog
<1> QED
  BY <1>2, <1>3

\* Once a frame is cancelled no step queues a message in it, records a failure
\* of it, starts a task in it or opens a frame under it (engine.py: _pump passes
\* over the deliveries of a cancelled frame, and _cancel_frame, which _run_child
\* calls, cancels the firings of the whole subtree).
THEOREM CancelledStaysSilent == Spec => CancelledIsSilent
<1> DEFINE Silence ==
      \A f \in Frame : cancelled[f] =>
        /\ \A i \in DOMAIN queue' : queue'[i].id > sent => queue'[i].frame # f
        /\ \A i \in DOMAIN log' : i > Len(log) => log'[i] # f
        /\ \A t \in Task : pc'[t] # "free" /\ frameOf'[t] = f =>
                             pc[t] # "free" /\ frameOf[t] = f
        /\ \A g \in Frame : f \in path'[g] => f \in path[g]
<1>1. TypeInv /\ CountInv /\ UnopenedInv /\ TreeInv /\ TypeInv' /\ [Next]_vars => Silence
  <2> SUFFICES ASSUME TypeInv, CountInv, UnopenedInv, TreeInv, TypeInv', [Next]_vars,
                      NEW f \in Frame, cancelled[f]
               PROVE  /\ \A i \in DOMAIN queue' : queue'[i].id > sent => queue'[i].frame # f
                      /\ \A i \in DOMAIN log' : i > Len(log) => log'[i] # f
                      /\ \A t \in Task : pc'[t] # "free" /\ frameOf'[t] = f =>
                                           pc[t] # "free" /\ frameOf[t] = f
                      /\ \A g \in Frame : f \in path'[g] => f \in path[g]
    OBVIOUS
  <2>1. Hushed(f) /\ Unheard(f)
    <3>1. CASE PumpStep
      BY <3>1, PumpKinds, ReceivesSilent, SeedRootSilent, OtherSilent DEF Leaves
    <3> QED
      BY <3>1, ThreeKinds, TaskStepSilent, OtherSilent
  <2>2. Moves
    BY TreeStep
  <2>3. ASSUME NEW t \in Task, pc'[t] # "free", frameOf'[t] = f
        PROVE  pc[t] # "free" /\ frameOf[t] = f
    BY <2>2, <2>3 DEF Moves, Stays, Born
  <2>4. ASSUME NEW g \in Frame, f \in path'[g] PROVE f \in path[g]
    <3>1. ASSUME NEW c \in Frame, NEW h \in Frame, Opens(c, h) PROVE f \in path[g]
      <4>1. f # c
        BY <3>1 DEF Opens, TreeInv, CancelInv
      <4>2. c # Root => f \notin path[h]
        BY <3>1 DEF Opens, TreeInv, CancelInv
      <4>3. path \in [Frame -> SUBSET Frame]
        BY DEF TypeInv, TreeType
      <4> QED
        BY <2>4, <3>1, <4>1, <4>2, <4>3 DEF Opens
    <3> QED
      BY <2>2, <2>4, <3>1 DEF Moves
  <2> QED
    BY <2>1, <2>3, <2>4, HushedQueue DEF Unheard
<1>2. TypeInv /\ CountInv /\ UnopenedInv /\ TreeInv /\ TypeInv' /\ [Next]_vars => [Silence]_vars
  BY <1>1
<1>3. Spec => [][Silence]_vars
  BY <1>2, TreeInvariant, PTL DEF Spec
<1> QED
  BY <1>3 DEF CancelledIsSilent

--------------------------------------------------------------------------------
(* The counters of the frames and the run-wide log *)

\* The frames above a frame lie above one another.
ChainInv ==
  /\ \A f, g, h \in Frame : f \in path[h] /\ g \in path[h] => f \in path[g] \/ g \in path[f]
  /\ \A f, g \in Frame : f \in path[g] /\ g \in path[f] => f = g

\* The entries of closed frames that frame f answers for: f is the lowest
\* active frame above them.
Held(f) ==
  {i \in DOMAIN log : /\ log[i] # f /\ f \in path[log[i]]
                      /\ \A g \in frames : g \in path[log[i]] => g \in path[f]}

NotesInv ==
  /\ \A f \in Frame : own[f] = {i \in DOMAIN log : log[i] = f}
  /\ \A f \in Frame : path[f] = {} => closed[f] = {}
  /\ \A i \in DOMAIN log : path[log[i]] # {}

HeldInv == ~exhausted => \A f \in frames : closed[f] = Held(f)

\* A frame that has work, or that a flow node waits for, is active.
ActiveInv ==
  ~exhausted =>
    /\ \A g \in Frame : HasWork(g) /\ ~cancelled[g] => g \in frames
    /\ \A t \in Task : Awaiting(t) /\ ~cancelled[childOf[t]] => childOf[t] \in frames

LogInv == NotesInv /\ HeldInv /\ ActiveInv

LEMMA ChainStep ==
  ASSUME TypeInv, TreeInv, ChainInv, Moves
  PROVE  ChainInv'
<1>1. CASE path' = path
  BY <1>1 DEF ChainInv
<1>2. ASSUME NEW c \in Frame, NEW h \in Frame, Opens(c, h) PROVE ChainInv'
  <2>1. PICK P \in SUBSET Frame : P = IF c = Root THEN {} ELSE path[h]
    BY DEF TypeInv, TreeType
  <2>2. path' = [path EXCEPT ![c] = P \cup {c}] /\ path[c] = {}
    BY <1>2, <2>1 DEF Opens
  <2>3. path \in [Frame -> SUBSET Frame]
    BY DEF TypeInv, TreeType
  <2>4. \A f \in Frame : path'[f] = IF f = c THEN P \cup {c} ELSE path[f]
    BY <2>2, <2>3
  <2>5. \A f \in Frame : c \notin path[f]
    BY <2>2 DEF TreeInv, PathInv
  <2>6. c \notin P /\ \A f, g \in P : f \in path[g] \/ g \in path[f]
    BY <2>1, <2>5 DEF ChainInv
  <2>7. \A g \in P : g # c /\ g \in Frame
    BY <2>6
  <2>8. ASSUME NEW f \in Frame, NEW g \in Frame, NEW x \in Frame, f \in path'[x], g \in path'[x]
        PROVE  f \in path'[g] \/ g \in path'[f]
    <3>1. CASE x # c
      <4>1. f # c /\ g # c /\ f \in path[x] /\ g \in path[x]
        BY <2>4, <2>5, <2>8, <3>1
      <4> QED
        BY <2>4, <4>1 DEF ChainInv
    <3>2. CASE x = c
      <4>1. f \in P \cup {c} /\ g \in P \cup {c}
        BY <2>4, <2>8, <3>2
      <4> QED
        BY <2>4, <2>6, <2>7, <4>1
    <3> QED
      BY <3>1, <3>2
  <2>9. ASSUME NEW f \in Frame, NEW g \in Frame, f \in path'[g], g \in path'[f]
        PROVE  f = g
    <3>1. CASE f # c /\ g # c
      BY <2>4, <2>9, <3>1 DEF ChainInv
    <3>2. CASE f = c /\ g # c
      BY <2>4, <2>5, <2>9, <3>2
    <3>3. CASE g = c /\ f # c
      BY <2>4, <2>5, <2>9, <3>3
    <3> QED
      BY <3>1, <3>2, <3>3
  <2> QED
    BY <2>8, <2>9 DEF ChainInv
<1> QED
  BY <1>1, <1>2 DEF Moves

\* Among active frames above a frame there is a lowest one.
LEMMA Deepest ==
  ASSUME TypeInv, TreeInv, ChainInv, NEW x \in Frame, NEW G \in SUBSET path[x], G # {}
  PROVE  \E g \in G : \A h \in G : h \in path[g]
<1>1. path \in [Frame -> SUBSET Frame] /\ IsFiniteSet(Frame) /\ G \subseteq Frame
  BY Bounds DEF TypeInv, TreeType
<1> DEFINE T == {Frame \ path[g] : g \in G}
<1>2. T \in SUBSET (SUBSET Frame) /\ T # {}
  BY <1>1
<1>3. PICK A \in T : \A B \in T : ~(B \subseteq A /\ B # A)
  <2> HIDE DEF T
  <2> QED
    BY <1>1, <1>2, LeastFinite
<1>4. PICK g \in G : A = Frame \ path[g]
  BY <1>3
<1>5. ASSUME NEW h \in G PROVE h \in path[g]
  <2>1. CASE g \in path[h]
    <3>1. path[g] \subseteq path[h] /\ path[h] \subseteq Frame /\ path[g] \subseteq Frame
      BY <1>1, <2>1 DEF TreeInv, PathInv
    <3>2. Frame \ path[h] \in T /\ Frame \ path[h] \subseteq A
      BY <1>4, <3>1
    <3>3. Frame \ path[h] = Frame \ path[g]
      BY <1>3, <1>4, <3>2
    <3>4. path[h] = path[g]
      BY <3>1, <3>3
    <3>5. h \in path[h]
      BY <1>1, <2>1 DEF TreeInv, PathInv
    <3> QED
      BY <3>4, <3>5
  <2> QED
    BY <1>1, <2>1 DEF ChainInv
<1> QED
  BY <1>5

\* The subtree of an active frame holds the entries at and below that frame.
LEMMA SubtreeHolds ==
  ASSUME TypeInv, TreeInv, ChainInv, NotesInv, \A f \in frames : closed[f] = Held(f),
         NEW c \in frames
  PROVE  UNION {own[g] \cup closed[g] : g \in Subtree(c)} = {i \in DOMAIN log : c \in path[log[i]]}
<1>1. /\ frames \subseteq Frame /\ log \in Seq(Frame)
      /\ \A i \in DOMAIN log : log[i] \in Frame
  BY DEF TypeInv, TreeType, NoteType
<1>2. ASSUME NEW g \in Subtree(c), NEW i \in own[g] \cup closed[g]
      PROVE  i \in DOMAIN log /\ c \in path[log[i]]
  <2>1. g \in frames /\ g \in Frame /\ c \in path[g] /\ g \in path[g]
    BY DEF Subtree, Under, TreeInv, PathInv
  <2>2. i \in DOMAIN log /\ g \in path[log[i]]
    BY <1>2, <2>1 DEF NotesInv, Held
  <2> QED
    BY <1>1, <2>1, <2>2 DEF TreeInv, PathInv
<1>3. ASSUME NEW i \in DOMAIN log, c \in path[log[i]]
      PROVE  \E g \in Subtree(c) : i \in own[g] \cup closed[g]
  <2> DEFINE G == frames \cap path[log[i]]
  <2>1. G \in SUBSET path[log[i]] /\ G # {} /\ c \in G
    BY <1>3
  <2> HIDE DEF G
  <2>5. PICK x \in Frame : x = log[i]
    BY <1>1
  <2>6. G \in SUBSET path[x]
    BY <2>1, <2>5
  <2>2. PICK g \in G : \A h \in G : h \in path[g]
    BY <2>1, <2>6, Deepest
  <2> USE DEF G
  <2>3. g \in Subtree(c)
    BY <1>1, <2>1, <2>2 DEF Subtree, Under
  <2>4. i \in own[g] \cup closed[g]
    BY <1>1, <2>2 DEF NotesInv, Held
  <2> QED
    BY <2>3, <2>4
<1> QED
  BY <1>2, <1>3

\* The same answers for whole counters: what theorem CountersHold states.
LEMMA HeldMatches ==
  ASSUME TypeInv, TreeInv, ChainInv, NotesInv, HeldInv
  PROVE  CountersMatchLog
<1> SUFFICES ASSUME ~exhausted, NEW f \in frames
             PROVE  /\ UNION {own[g] \cup closed[g] : g \in Subtree(f)}
                         = {i \in DOMAIN log : f \in path[log[i]]}
                    /\ own[f] \cap closed[f] = {}
                    /\ \A g \in frames \ {f} : (own[f] \cup closed[f]) \cap (own[g] \cup closed[g]) = {}
  BY DEF CountersMatchLog
<1>1. \A g \in frames : closed[g] = Held(g)
  BY DEF HeldInv
<1>2. frames \subseteq Frame /\ \A g \in frames : g \in path[g]
  BY DEF TypeInv, TreeType, TreeInv, PathInv
<1>3. own[f] \cap closed[f] = {}
  BY <1>1, <1>2 DEF NotesInv, Held
<1>4. ASSUME NEW g \in frames \ {f}, NEW i \in (own[f] \cup closed[f]) \cap (own[g] \cup closed[g])
      PROVE  FALSE
  <2>1. \A h \in frames : i \in own[h] \cup closed[h] =>
          h \in path[log[i]] /\ \A x \in frames : x \in path[log[i]] => x \in path[h]
    BY <1>1, <1>2 DEF NotesInv, Held
  <2>2. f \in path[g] /\ g \in path[f]
    BY <1>4, <2>1
  <2> QED
    BY <1>2, <1>4, <2>2 DEF ChainInv
<1> QED
  BY <1>1, <1>3, <1>4, SubtreeHolds

--------------------------------------------------------------------------------
(* What a step appends to the log *)

\* r is q with the entries of m behind it.
Grown(q, m, r) ==
  /\ \A i \in DOMAIN q : i \in DOMAIN r /\ r[i] = q[i]
  /\ \A i \in DOMAIN r \ DOMAIN q : \E j \in DOMAIN m : i = Len(q) + j
  /\ \A j \in DOMAIN m : Len(q) + j \in DOMAIN r \ DOMAIN q /\ r[Len(q) + j] = m[j]

LEMMA Appended ==
  ASSUME NEW q \in Seq(Frame), NEW m \in Seq(Frame)
  PROVE  Grown(q, m, q \o m)
<1> DEFINE r == q \o m
<1>1. /\ DOMAIN r = 1 .. Len(q) + Len(m) /\ DOMAIN q = 1 .. Len(q) /\ DOMAIN m = 1 .. Len(m)
      /\ Len(q) \in Nat /\ Len(m) \in Nat
      /\ \A i \in 1 .. Len(q) + Len(m) : r[i] = IF i <= Len(q) THEN q[i] ELSE m[i - Len(q)]
  BY ConcatProperties, LenProperties
<1> HIDE DEF r
<1>2. PICK x \in Nat, y \in Nat : x = Len(q) /\ y = Len(m)
  BY <1>1
<1>3. ASSUME NEW i \in (1 .. x + y) \ (1 .. x) PROVE \E j \in 1 .. y : i = x + j
  <2>1. i - x \in 1 .. y /\ i = x + (i - x)
    OBVIOUS
  <2> QED
    BY <2>1
<1>4. \A i \in 1 .. x : i \in 1 .. x + y /\ i <= x
  OBVIOUS
<1>5. \A j \in 1 .. y : x + j \in 1 .. x + y /\ ~(x + j <= x) /\ (x + j) - x = j /\ x + j \notin 1 .. x
  OBVIOUS
<1>6. \A i \in DOMAIN q : i \in DOMAIN r /\ r[i] = q[i]
  BY <1>1, <1>2, <1>4
<1>7. \A i \in DOMAIN r \ DOMAIN q : \E j \in DOMAIN m : i = Len(q) + j
  <2> SUFFICES ASSUME NEW i \in DOMAIN r \ DOMAIN q PROVE \E j \in DOMAIN m : i = Len(q) + j
    OBVIOUS
  <2>1. i \in (1 .. x + y) \ (1 .. x)
    BY <1>1, <1>2
  <2>2. PICK j \in 1 .. y : i = x + j
    BY <1>3, <2>1
  <2> QED
    BY <1>1, <1>2, <2>2
<1>8. \A j \in DOMAIN m : Len(q) + j \in DOMAIN r \ DOMAIN q /\ r[Len(q) + j] = m[j]
  BY <1>1, <1>2, <1>5
<1> QED
  BY <1>6, <1>7, <1>8 DEF Grown, r

\* Where the entries of a stand behind those of q; entries of one frame; two
\* groups of entries.
Behind(q, a) == {Len(q) + j : j \in DOMAIN a}

Only(a, c) == \A j \in DOMAIN a : a[j] = c

Twice(q, a, b) == q \o (a \o b)

\* The entries that frame f gets when the log grows: its own, and those of a
\* frame c that closes right below it.
LEMMA NewOwn ==
  ASSUME TypeInv', TreeInv', ChainInv', NEW f \in frames', NEW h \in frames',
         NEW i \in DOMAIN log', log'[i] = f
  PROVE  i \notin Held(h)'
<1>1. frames' \subseteq Frame /\ f \in path'[f]
  BY DEF TypeInv, TreeType, TreeInv, PathInv
<1>2. CASE h = f
  BY <1>2 DEF Held
<1>3. CASE h # f
  <2> SUFFICES ASSUME h \in path'[f], f \in path'[h] PROVE FALSE
    BY <1>1 DEF Held
  <2> QED
    BY <1>1, <1>3 DEF ChainInv
<1> QED
  BY <1>2, <1>3

LEMMA NewBelow ==
  ASSUME TypeInv', TreeInv', ChainInv', NEW f \in frames', NEW h \in frames',
         NEW c \in Frame \ frames', path'[c] = path'[f] \cup {c}, c # f,
         NEW i \in DOMAIN log', log'[i] = c
  PROVE  i \in Held(h)' <=> h = f
<1>1. frames' \subseteq Frame /\ f \in path'[f]
  BY DEF TypeInv, TreeType, TreeInv, PathInv
<1>2. CASE h = f
  BY <1>1, <1>2 DEF Held
<1>3. CASE h # f
  <2> SUFFICES ASSUME h \in path'[c], f \in path'[h] PROVE FALSE
    BY <1>1, <1>3 DEF Held
  <2>1. h \in path'[f]
    OBVIOUS
  <2> QED
    BY <1>1, <1>3, <2>1 DEF ChainInv
<1> QED
  BY <1>2, <1>3

\* An entry that is already in the log keeps its holder while the frames above
\* it and the active frames stay.
LEMMA OldHeld ==
  ASSUME NEW h, NEW i \in DOMAIN log, i \in DOMAIN log', log'[i] = log[i],
         path'[log[i]] = path[log[i]], path'[h] = path[h],
         \A g \in path[log[i]] : g \in frames' <=> g \in frames
  PROVE  i \in Held(h)' <=> i \in Held(h)
BY DEF Held

--------------------------------------------------------------------------------
(* The log through each kind of step *)

\* The entries a step records belong to frame f alone.
LEMMA HeldNotes ==
  ASSUME TypeInv, TypeInv', TreeInv', ChainInv', \A g \in frames : closed[g] = Held(g),
         UNCHANGED <<frames, path, closed>>, NEW f \in frames, NEW notes \in Seq(Frame),
         log' = log \o notes, \A j \in DOMAIN notes : notes[j] = f
  PROVE  \A h \in frames' : closed'[h] = Held(h)'
<1> SUFFICES ASSUME NEW h \in frames' PROVE closed'[h] = Held(h)'
  OBVIOUS
<1>1. log \in Seq(Frame)
  BY DEF TypeInv, NoteType
<1>2. Grown(log, notes, log')
  BY <1>1, Appended
<1>3. \A i \in DOMAIN log : i \in DOMAIN log' /\ log'[i] = log[i]
  BY <1>2 DEF Grown
<1>4. \A i \in DOMAIN log' \ DOMAIN log : log'[i] = f
  BY <1>2 DEF Grown
<1>5. \A i \in DOMAIN log : i \in Held(h)' <=> i \in Held(h)
  BY <1>3, OldHeld
<1>6. \A i \in DOMAIN log' \ DOMAIN log : i \notin Held(h)'
  BY <1>4, NewOwn
<1>7. Held(h) \subseteq DOMAIN log /\ Held(h)' \subseteq DOMAIN log'
  BY DEF Held
<1>8. Held(h)' = Held(h)
  BY <1>3, <1>5, <1>6, <1>7
<1> QED
  BY <1>8

\* A frame opens, active or not, and nothing is recorded.
LEMMA HeldOpens ==
  ASSUME TypeInv, TreeInv, NotesInv, \A g \in frames : closed[g] = Held(g),
         UNCHANGED <<log, closed>>, NEW c \in Frame, NEW g \in Frame, Opens(c, g),
         frames' = frames \cup {c}
  PROVE  \A h \in frames' : closed'[h] = Held(h)'
<1> SUFFICES ASSUME NEW h \in frames' PROVE closed'[h] = Held(h)'
  OBVIOUS
<1>1. /\ \A i \in DOMAIN log : log[i] \in Frame /\ log[i] # c /\ c \notin path[log[i]]
      /\ \A x \in Frame \ {c} : path'[x] = path[x]
      /\ path \in [Frame -> SUBSET Frame] /\ frames \subseteq Frame
  <2>1. \A i \in DOMAIN log : log[i] \in Frame
    BY DEF TypeInv, NoteType
  <2>2. path \in [Frame -> SUBSET Frame] /\ frames \subseteq Frame /\ path[c] = {}
    BY DEF TypeInv, TreeType, Opens
  <2> QED
    BY <2>1, <2>2 DEF Opens, NotesInv, TreeInv, PathInv
<1>2. CASE h = c
  <2>1. closed'[h] = {}
    BY <1>2 DEF NotesInv, Opens
  <2>2. Held(h)' = {}
    BY <1>1, <1>2 DEF Held
  <2> QED
    BY <2>1, <2>2
<1>3. CASE h # c
  <2>1. h \in frames /\ h \in Frame /\ path'[h] = path[h]
    BY <1>1, <1>3
  <2>2. \A i \in DOMAIN log : i \in Held(h)' <=> i \in Held(h)
    BY <1>1, <2>1, OldHeld
  <2>3. Held(h) \subseteq DOMAIN log /\ Held(h)' \subseteq DOMAIN log
    BY DEF Held
  <2>4. Held(h)' = Held(h)
    BY <2>2, <2>3
  <2> QED
    BY <2>1, <2>4
<1> QED
  BY <1>2, <1>3

\* What the flow node t records when its child c ends: entries of c, then its own.
LEMMA NotesOfTwo ==
  ASSUME TypeInv, NEW c \in Frame, NEW f \in Frame, c # f,
         NEW a \in Seq(Frame), Only(a, c), NEW b \in Seq(Frame), Only(b, f), log' = Twice(log, a, b)
  PROVE  /\ \A i \in DOMAIN log : i \in DOMAIN log' /\ log'[i] = log[i]
         /\ \A i \in DOMAIN log' \ DOMAIN log : log'[i] \in {c, f}
         /\ Behind(log, a) = {i \in DOMAIN log' \ DOMAIN log : log'[i] = c}
<1>2. PICK m \in Seq(Frame) : m = a \o b /\ Grown(a, b, m)
  BY Appended, ConcatProperties
<1>3. log \in Seq(Frame) /\ log' = log \o m
  BY <1>2 DEF Twice, TypeInv, NoteType
<1>4. Grown(log, m, log')
  BY <1>3, Appended
<1>5. \A i \in DOMAIN log : i \in DOMAIN log' /\ log'[i] = log[i]
  BY <1>4 DEF Grown
<1>6. \A j \in DOMAIN a : j \in DOMAIN m /\ m[j] = c
  BY <1>2 DEF Grown, Only
<1>7. \A j \in DOMAIN m \ DOMAIN a : m[j] = f
  BY <1>2 DEF Grown, Only
<1>8. \A i \in DOMAIN log' \ DOMAIN log : \E j \in DOMAIN m : i = Len(log) + j /\ log'[i] = m[j]
  BY <1>4 DEF Grown
<1>9. \A j \in DOMAIN m : Len(log) + j \in DOMAIN log' \ DOMAIN log /\ log'[Len(log) + j] = m[j]
  BY <1>4 DEF Grown
<1>10. \A i \in DOMAIN log' \ DOMAIN log : log'[i] \in {c, f}
  BY <1>6, <1>7, <1>8
<1>11. ASSUME NEW j \in DOMAIN a
       PROVE  Len(log) + j \in {i \in DOMAIN log' \ DOMAIN log : log'[i] = c}
  BY <1>6, <1>9
<1>12. ASSUME NEW i \in DOMAIN log' \ DOMAIN log, log'[i] = c PROVE i \in Behind(log, a)
  BY <1>6, <1>7, <1>8, <1>12 DEF Behind
<1> QED
  BY <1>5, <1>10, <1>11, <1>12 DEF Behind

\* A hollow child c of f opens and closes.
LEMMA HeldAtOnce ==
  ASSUME TypeInv, TypeInv', TreeInv, TreeInv', ChainInv', NotesInv,
         \A g \in frames : closed[g] = Held(g), NEW f \in frames, NEW c \in Frame,
         path[c] = {}, path' = [path EXCEPT ![c] = path[f] \cup {c}], frames' = frames,
         NEW a \in Seq(Frame), Only(a, c), NEW b \in Seq(Frame), Only(b, f), log' = Twice(log, a, b),
         closed' = [closed EXCEPT ![f] = @ \cup Behind(log, a)]
  PROVE  \A h \in frames' : closed'[h] = Held(h)'
<1> SUFFICES ASSUME NEW h \in frames' PROVE closed'[h] = Held(h)'
  OBVIOUS
<1>1. /\ frames \subseteq Frame /\ path \in [Frame -> SUBSET Frame] /\ closed \in [Frame -> SUBSET Nat]
      /\ \A i \in DOMAIN log : log[i] \in Frame
  BY DEF TypeInv, TreeType, NoteType
<1>2. /\ c \notin frames' /\ c # f /\ c # h /\ path'[f] = path[f] /\ path'[h] = path[h]
      /\ path'[c] = path'[f] \cup {c}
  BY <1>1 DEF TreeInv, PathInv
<1>3. PICK U : U = Behind(log, a)
  OBVIOUS
<1>4. /\ \A i \in DOMAIN log : i \in DOMAIN log' /\ log'[i] = log[i]
      /\ \A i \in DOMAIN log' \ DOMAIN log : log'[i] \in {c, f}
      /\ U = {i \in DOMAIN log' \ DOMAIN log : log'[i] = c}
  BY <1>1, <1>2, <1>3, NotesOfTwo
<1>5. closed'[h] = IF h = f THEN Held(h) \cup U ELSE Held(h)
  BY <1>1, <1>3
<1>6. ASSUME NEW i \in DOMAIN log PROVE i \in Held(h)' <=> i \in Held(h)
  <2>1. log[i] # c /\ path'[log[i]] = path[log[i]]
    BY <1>1 DEF NotesInv
  <2> QED
    BY <1>2, <1>4, <2>1, OldHeld
<1>7. ASSUME NEW i \in DOMAIN log' \ DOMAIN log PROVE i \in Held(h)' <=> h = f /\ i \in U
  <2>1. CASE log'[i] = f
    BY <1>2, <1>4, <2>1, NewOwn
  <2>2. CASE log'[i] = c
    BY <1>2, <1>4, <2>2, NewBelow
  <2> QED
    BY <1>4, <2>1, <2>2
<1>8. Held(h) \subseteq DOMAIN log /\ Held(h)' \subseteq DOMAIN log' /\ U \subseteq DOMAIN log' \ DOMAIN log
      /\ DOMAIN log \subseteq DOMAIN log'
  BY <1>4 DEF Held
<1> QED
  BY <1>5, <1>6, <1>7, <1>8

\* The active child c of f closes: its subtree is detached, and f takes over
\* every entry at and below c.
LEMMA HeldReturns ==
  ASSUME TypeInv, TypeInv', TreeInv, TreeInv', ChainInv, ChainInv', NotesInv,
         \A g \in frames : closed[g] = Held(g), NEW f \in frames, NEW c \in frames,
         path[c] = path[f] \cup {c}, c \notin path[f], path' = path,
         frames' = frames \ Subtree(c),
         NEW a \in Seq(Frame), Only(a, c), NEW b \in Seq(Frame), Only(b, f), log' = Twice(log, a, b),
         closed' = [closed EXCEPT ![f] = @ \cup (SubtreeEntries(c)
                                               \cup Behind(log, a))]
  PROVE  \A h \in frames' : closed'[h] = Held(h)'
<1> SUFFICES ASSUME NEW h \in frames' PROVE closed'[h] = Held(h)'
  OBVIOUS
<1>1. /\ frames \subseteq Frame /\ path \in [Frame -> SUBSET Frame] /\ closed \in [Frame -> SUBSET Nat]
      /\ \A i \in DOMAIN log : log[i] \in Frame
  BY DEF TypeInv, TreeType, NoteType
<1>2. /\ c \in path[c] /\ f \in path[f] /\ c # f
      /\ \A g \in Frame : g \in frames' <=> g \in frames /\ c \notin path[g]
  BY <1>1 DEF TreeInv, PathInv, Subtree, Under
<1>3. f \in frames' /\ c \notin frames' /\ h \in frames /\ c \notin path[h]
  BY <1>1, <1>2
<1>4. PICK U : U = Behind(log, a)
  OBVIOUS
<1>5. PICK E : E = {i \in DOMAIN log : c \in path[log[i]]}
  OBVIOUS
<1>6. /\ \A i \in DOMAIN log : i \in DOMAIN log' /\ log'[i] = log[i]
      /\ \A i \in DOMAIN log' \ DOMAIN log : log'[i] \in {c, f}
      /\ U = {i \in DOMAIN log' \ DOMAIN log : log'[i] = c}
  BY <1>1, <1>2, <1>4, NotesOfTwo
<1>7. closed'[h] = IF h = f THEN Held(h) \cup E \cup U ELSE Held(h)
  <2>1. SubtreeEntries(c) = E
    BY <1>5, SubtreeHolds DEF SubtreeEntries
  <2>2. closed[h] = Held(h) /\ h \in Frame /\ f \in Frame
    BY <1>1, <1>3
  <2>3. closed'[h] = IF h = f THEN closed[h] \cup (E \cup U) ELSE closed[h]
    BY <1>1, <1>4, <2>1, <2>2
  <2> QED
    BY <2>2, <2>3
<1>8. ASSUME NEW i \in DOMAIN log, c \notin path[log[i]] PROVE i \in Held(h)' <=> i \in Held(h)
  <2>1. ASSUME NEW g \in path[log[i]] PROVE g \in frames' <=> g \in frames
    <3>1. g \in Frame /\ path[g] \subseteq path[log[i]]
      BY <1>1, <2>1 DEF TreeInv, PathInv
    <3> QED
      BY <1>2, <1>8, <3>1
  <2> QED
    BY <1>6, <2>1, OldHeld
<1>9. ASSUME NEW i \in DOMAIN log, c \in path[log[i]]
      PROVE  i \notin Held(h) /\ (i \in Held(h)' <=> h = f)
  <2>1. i \notin Held(h)
    BY <1>3, <1>9 DEF Held
  <2>2. log[i] # f /\ f \in path[log[i]]
    BY <1>1, <1>2, <1>9 DEF TreeInv, PathInv
  <2>3. ASSUME NEW g \in frames', g \in path[log[i]] PROVE g \in path[f]
    <3>1. g \in Frame /\ c \notin path[g] /\ g # c
      BY <1>1, <1>2, <1>3, <2>3
    <3>2. g \in path[c]
      BY <1>1, <1>9, <2>3, <3>1 DEF ChainInv
    <3> QED
      BY <3>1, <3>2
  <2>5. i \in Held(f)'
    BY <1>6, <2>2, <2>3 DEF Held
  <2>6. ASSUME h # f, i \in Held(h)' PROVE FALSE
    <3>1. h \in path[log[i]] /\ f \in path[h]
      BY <1>3, <1>6, <2>2, <2>6 DEF Held
    <3>2. h \in path[f]
      BY <2>3, <3>1
    <3> QED
      BY <1>1, <1>3, <2>6, <3>1, <3>2 DEF ChainInv
  <2> QED
    BY <2>1, <2>5, <2>6
<1>10. ASSUME NEW i \in DOMAIN log' \ DOMAIN log PROVE i \in Held(h)' <=> h = f /\ i \in U
  <2>1. CASE log'[i] = f
    BY <1>2, <1>3, <1>6, <2>1, NewOwn
  <2>2. CASE log'[i] = c
    BY <1>1, <1>2, <1>3, <1>6, <2>2, NewBelow
  <2> QED
    BY <1>6, <2>1, <2>2
<1>11. Held(h) \subseteq DOMAIN log /\ Held(h)' \subseteq DOMAIN log' /\ U \subseteq DOMAIN log' \ DOMAIN log
      /\ E \subseteq DOMAIN log /\ DOMAIN log \subseteq DOMAIN log'
      /\ \A i \in DOMAIN log : i \in E <=> c \in path[log[i]]
  BY <1>5, <1>6 DEF Held
<1>12. CASE h = f
  <2>1. \A i \in DOMAIN log' : i \in Held(h)' <=> i \in Held(h) \cup E \cup U
    BY <1>8, <1>9, <1>10, <1>11, <1>12
  <2>2. \A i : i \in Held(h)' <=> i \in Held(h) \cup E \cup U
    BY <1>11, <2>1
  <2>3. closed'[h] = Held(h) \cup E \cup U
    BY <1>7, <1>12
  <2> QED
    BY ONLY <2>2, <2>3
<1>13. CASE h # f
  <2>1. \A i \in DOMAIN log' : i \in Held(h)' <=> i \in Held(h)
    BY <1>8, <1>9, <1>10, <1>11, <1>13
  <2>2. \A i : i \in Held(h)' <=> i \in Held(h)
    BY <1>11, <2>1
  <2>3. closed'[h] = Held(h)
    BY <1>7, <1>13
  <2> QED
    BY ONLY <2>2, <2>3
<1> QED
  BY <1>12, <1>13

\* Entries are recorded, in open frames.
LEMMA NotesGrow ==
  ASSUME TypeInv, NotesInv, NEW notes \in Seq(Frame), Record(notes),
         \A j \in DOMAIN notes : path'[notes[j]] # {},
         \A g \in Frame : path[g] # {} => path'[g] # {},
         \A g \in Frame : path'[g] = {} => closed'[g] = closed[g]
  PROVE  NotesInv'
<1>1. /\ log \in Seq(Frame) /\ log' = log \o notes
      /\ \A i \in DOMAIN log : log[i] \in Frame
  BY DEF TypeInv, NoteType, Record
<1>2. Grown(log, notes, log')
  BY <1>1, Appended
<1>3. ASSUME NEW f \in Frame PROVE own'[f] = {i \in DOMAIN log' : log'[i] = f}
  <2>1. own'[f] = own[f] \cup {Len(log) + j : j \in {x \in DOMAIN notes : notes[x] = f}}
    BY DEF Record
  <2>2. own[f] = {i \in DOMAIN log : log[i] = f}
    BY DEF NotesInv
  <2>3. ASSUME NEW i \in own'[f] PROVE i \in DOMAIN log' /\ log'[i] = f
    BY <1>2, <2>1, <2>2 DEF Grown
  <2>4. ASSUME NEW i \in DOMAIN log', log'[i] = f PROVE i \in own'[f]
    <3>1. CASE i \in DOMAIN log
      BY <1>2, <2>1, <2>2, <2>4, <3>1 DEF Grown
    <3>2. CASE i \notin DOMAIN log
      <4>1. PICK j \in DOMAIN notes : i = Len(log) + j
        BY <1>2, <3>2 DEF Grown
      <4>2. notes[j] = f
        BY <1>2, <2>4, <4>1 DEF Grown
      <4> QED
        BY <2>1, <4>1, <4>2
    <3> QED
      BY <3>1, <3>2
  <2> QED
    BY <2>3, <2>4
<1>4. ASSUME NEW i \in DOMAIN log' PROVE path'[log'[i]] # {}
  <2>1. CASE i \in DOMAIN log
    BY <1>1, <1>2, <2>1, ZenonT(40) DEF Grown, NotesInv
  <2>2. CASE i \notin DOMAIN log
    BY <1>2, <2>2 DEF Grown
  <2> QED
    BY <2>1, <2>2
<1>5. \A g \in Frame : path'[g] = {} => closed'[g] = {}
  BY DEF NotesInv
<1> QED
  BY <1>3, <1>4, <1>5 DEF NotesInv

\* Nothing is recorded.
LEMMA NotesKept ==
  ASSUME NotesInv, UNCHANGED <<log, own, closed>>,
         \A g \in Frame : path[g] # {} => path'[g] # {}, \A i \in DOMAIN log : log[i] \in Frame
  PROVE  NotesInv'
BY DEF NotesInv

LEMMA HeldKept ==
  ASSUME HeldInv, UNCHANGED <<log, closed, frames, path>>, exhausted => exhausted'
  PROVE  HeldInv'
BY DEF HeldInv, Held

\* Work and waiting firings stay where they are, and no active frame goes.
LEMMA ActiveKept ==
  ASSUME TypeInv, ActiveInv, exhausted => exhausted', frames \subseteq frames',
         \A g \in Frame : HasWork(g)' => HasWork(g),
         \A g \in Frame : cancelled[g] => cancelled'[g],
         \A u \in Task : Awaiting(u)' => Awaiting(u) /\ childOf'[u] = childOf[u]
  PROVE  ActiveInv'
<1>1. \A u \in Task : childOf[u] \in Frame
  BY DEF TypeInv, TaskType
<1> QED
  BY <1>1 DEF ActiveInv

\* A firing that was not interrupted is in an active frame.
LEMMA FiresActive ==
  ASSUME TypeInv, TreeInv, ActiveInv, ~exhausted, NEW t \in Task, pc[t] # "free",
         cancel[t] # "frame"
  PROVE  frameOf[t] \in frames
<1>1. frameOf[t] \in Frame
  BY DEF TypeInv, TaskType
<1>2. HasWork(frameOf[t])
  BY DEF HasWork, LiveIn
<1>3. ~cancelled[frameOf[t]]
  BY DEF TreeInv, CancelInv, Live
<1> QED
  BY <1>1, <1>2, <1>3 DEF ActiveInv

LEMMA OneOnly ==
  ASSUME NEW c \in Frame, NEW a, a \in {<<>>, <<c>>}
  PROVE  a \in Seq(Frame) /\ Only(a, c)
<1>1. CASE a = <<>>
  BY <1>1 DEF Only
<1>2. CASE a = <<c>>
  BY <1>2 DEF Only
<1> QED
  BY <1>1, <1>2

LEMMA OnlyTwo ==
  ASSUME NEW c \in Frame, NEW f \in Frame, NEW a \in Seq(Frame), Only(a, c),
         NEW b \in Seq(Frame), Only(b, f), NEW m, m = a \o b
  PROVE  m \in Seq(Frame) /\ \A j \in DOMAIN m : m[j] = c \/ m[j] = f
<1>1. m \in Seq(Frame) /\ Grown(a, b, m)
  BY Appended, ConcatProperties
<1>2. ASSUME NEW j \in DOMAIN m PROVE m[j] = c \/ m[j] = f
  <2>1. CASE j \in DOMAIN a
    BY <1>1, <2>1 DEF Grown, Only
  <2>2. CASE j \notin DOMAIN a
    BY <1>1, <2>2 DEF Grown, Only
  <2> QED
    BY <2>1, <2>2
<1> QED
  BY <1>1, <1>2

LEMMA FinishesLog ==
  ASSUME TypeInv, CountInv, UnopenedInv, TreeInv, LogInv, TypeInv', TreeInv', ChainInv',
         NEW t \in Task, pc[t] # "free", NEW k, NEW notes \in Seq(Frame), NEW why, NEW V,
         FiringEnds(t, k, notes, why, V), \A i \in DOMAIN notes : notes[i] = frameOf[t],
         UNCHANGED <<frames, path, closed>>, cancel[t] = "frame" => notes = <<>>
  PROVE  NotesInv' /\ HeldInv'
<1>1. PICK f \in Frame : f = frameOf[t] /\ path[f] # {}
  BY FiringFrameOpen DEF TypeInv, TaskType
<1>2. Record(notes) /\ log' = log \o notes /\ (exhausted => exhausted')
  BY DEF FiringEnds, Record, CountSent
<1>3. NotesInv'
  BY <1>1, <1>2, NotesGrow DEF LogInv
<1>4. CASE notes = <<>>
  <2>1. log' = log
    BY <1>2, <1>4, ConcatEmptySeq DEF TypeInv, NoteType
  <2> QED
    BY <1>2, <1>3, <2>1, HeldKept DEF LogInv
<1>5. CASE notes # <<>>
  <2> SUFFICES ASSUME ~exhausted' PROVE \A h \in frames' : closed'[h] = Held(h)'
    BY <1>3 DEF HeldInv
  <2>1. ~exhausted /\ f \in frames
    BY <1>1, <1>2, <1>5, FiresActive DEF LogInv
  <2>2. \A g \in frames : closed[g] = Held(g)
    BY <2>1 DEF LogInv, HeldInv
  <2> QED
    BY <1>1, <1>2, <2>1, <2>2, HeldNotes
<1> QED
  BY <1>4, <1>5

LEMMA ReturnsLog ==
  ASSUME TypeInv, CountInv, UnopenedInv, TreeInv, ChainInv, LogInv, TypeInv', TreeInv', ChainInv',
         NEW t \in Task, NEW k, NEW notes \in Seq(Frame), NEW why, Returns(t, k, notes, why)
  PROVE  NotesInv' /\ HeldInv'
<1>1. PICK f \in Frame : f = frameOf[t] /\ path[f] # {}
  BY FiringFrameOpen DEF TypeInv, TaskType, Returns
<1>2. PICK c \in Frame : c = childOf[t]
  BY DEF TypeInv, TaskType
<1>3. /\ c \notin path[f] /\ path[c] = path[f] \cup {c} /\ ~cancelled[c] /\ c # f
  BY <1>1, <1>2 DEF TreeInv, PathInv, AwaitInv, Awaiting, Returns
<1>4. Record(notes) /\ log' = log \o notes /\ (exhausted => exhausted')
  BY DEF Returns, FiringEnds, Record, CountSent
<1>5. PICK a, b : /\ a \in {<<>>, <<c>>} /\ a = Unwritten(c) /\ b \in {<<>>, <<f>>}
                  /\ notes = a \o b
  BY <1>1, <1>2 DEF Returns, Unwritten
<1>6. a \in Seq(Frame) /\ Only(a, c) /\ b \in Seq(Frame) /\ Only(b, f)
  BY <1>5, OneOnly
<1>7. \A j \in DOMAIN notes : notes[j] = c \/ notes[j] = f
  BY <1>5, <1>6, OnlyTwo
<1>8. /\ path' = path /\ frames' = frames \ Subtree(c)
      /\ closed' = [closed EXCEPT ![f] = @ \cup (SubtreeEntries(c) \cup Behind(log, a))]
  BY <1>1, <1>2, <1>5 DEF Returns, Behind
<1>9. NotesInv'
  <2>1. \A j \in DOMAIN notes : path'[notes[j]] # {}
    BY <1>1, <1>3, <1>7, <1>8
  <2>2. \A g \in Frame : path'[g] = {} => closed'[g] = closed[g]
    BY <1>1, <1>8 DEF TypeInv, NoteType, TreeType
  <2> QED
    BY <1>4, <1>8, <2>1, <2>2, NotesGrow DEF LogInv
<1>10. ASSUME ~exhausted' PROVE \A h \in frames' : closed'[h] = Held(h)'
  <2>1. ~exhausted /\ f \in frames
    BY <1>1, <1>4, <1>10, FiresActive DEF LogInv, Returns
  <2>2. c \in frames
    BY <1>2, <1>3, <2>1 DEF LogInv, ActiveInv, Returns, Awaiting
  <2>3. \A g \in frames : closed[g] = Held(g)
    BY <2>1 DEF LogInv, HeldInv
  <2>4. log' = Twice(log, a, b)
    BY <1>4, <1>5 DEF Twice
  <2>5. PICK x \in Seq(Frame), y \in Seq(Frame) : x = a /\ y = b /\ Only(x, c) /\ Only(y, f)
    BY <1>6
  <2>6. /\ log' = Twice(log, x, y)
        /\ closed' = [closed EXCEPT ![f] = @ \cup (SubtreeEntries(c) \cup Behind(log, x))]
    BY <1>8, <2>4, <2>5
  <2> HIDE <1>5
  <2> QED
    BY <1>3, <1>8, <2>1, <2>2, <2>3, <2>5, <2>6, HeldReturns DEF LogInv
<1> QED
  BY <1>9, <1>10 DEF HeldInv

LEMMA AtOnceLog ==
  ASSUME TypeInv, CountInv, UnopenedInv, TreeInv, ChainInv, LogInv, TypeInv', TreeInv', ChainInv',
         NEW t \in Task, NEW k, NEW notes \in Seq(Frame), NEW why, ReturnsAtOnce(t, k, notes, why)
  PROVE  NotesInv' /\ HeldInv'
<1>1. PICK f \in Frame : f = frameOf[t] /\ path[f] # {}
  BY FiringFrameOpen DEF TypeInv, TaskType, ReturnsAtOnce
<1>2. Record(notes) /\ log' = log \o notes /\ (exhausted => exhausted') /\ frames' = frames
  BY DEF ReturnsAtOnce, FiringEnds, Record, CountSent
<1>3. PICK c \in Frame : \E b \in {<<>>, <<f>>} : \E a \in {<<>>, <<c>>} :
        /\ path[c] = {} /\ path' = [path EXCEPT ![c] = path[f] \cup {c}]
        /\ notes = a \o b
        /\ closed' = [closed EXCEPT ![f] = @ \cup {Len(log) + i : i \in DOMAIN a}]
  BY <1>1 DEF ReturnsAtOnce
<1>4. PICK b \in {<<>>, <<f>>} : \E a \in {<<>>, <<c>>} :
        /\ path[c] = {} /\ path' = [path EXCEPT ![c] = path[f] \cup {c}]
        /\ notes = a \o b
        /\ closed' = [closed EXCEPT ![f] = @ \cup {Len(log) + i : i \in DOMAIN a}]
  BY <1>3
<1>5. PICK a \in {<<>>, <<c>>} :
        /\ path[c] = {} /\ path' = [path EXCEPT ![c] = path[f] \cup {c}]
        /\ notes = a \o b
        /\ closed' = [closed EXCEPT ![f] = @ \cup {Len(log) + i : i \in DOMAIN a}]
  BY <1>4
<1>6. a \in Seq(Frame) /\ Only(a, c) /\ b \in Seq(Frame) /\ Only(b, f)
  BY OneOnly
<1>7. \A j \in DOMAIN notes : notes[j] = c \/ notes[j] = f
  BY <1>5, <1>6, OnlyTwo
<1>8. /\ path[c] = {} /\ path' = [path EXCEPT ![c] = path[f] \cup {c}]
      /\ closed' = [closed EXCEPT ![f] = @ \cup Behind(log, a)]
      /\ path \in [Frame -> SUBSET Frame]
  BY <1>5 DEF Behind, TypeInv, TreeType
<1>9. NotesInv'
  <2>1. \A g \in Frame : path[g] # {} => path'[g] # {}
    BY <1>8
  <2>2. \A j \in DOMAIN notes : path'[notes[j]] # {}
    BY <1>1, <1>7, <1>8
  <2>3. \A g \in Frame : path'[g] = {} => closed'[g] = closed[g]
    BY <1>1, <1>8, <2>1 DEF TypeInv, NoteType, TreeType
  <2> QED
    BY <1>2, <2>1, <2>2, <2>3, NotesGrow DEF LogInv
<1>10. ASSUME ~exhausted' PROVE \A h \in frames' : closed'[h] = Held(h)'
  <2>1. ~exhausted /\ f \in frames
    BY <1>1, <1>2, <1>10, FiresActive DEF LogInv, ReturnsAtOnce
  <2>3. \A g \in frames : closed[g] = Held(g)
    BY <2>1 DEF LogInv, HeldInv
  <2>4. log' = Twice(log, a, b)
    BY <1>2, <1>5 DEF Twice
  <2>5. PICK x \in Seq(Frame), y \in Seq(Frame) : x = a /\ y = b /\ Only(x, c) /\ Only(y, f)
    BY <1>6
  <2>6. /\ log' = Twice(log, x, y)
        /\ closed' = [closed EXCEPT ![f] = @ \cup Behind(log, x)]
    BY <1>8, <2>4, <2>5
  <2> QED
    BY <1>2, <1>8, <2>1, <2>3, <2>5, <2>6, HeldAtOnce DEF LogInv
<1> QED
  BY <1>9, <1>10 DEF HeldInv

LEMMA EndsActive ==
  ASSUME TypeInv, CountInv, UnopenedInv, TreeInv, WaitedInv, LogInv,
         NEW t \in Task, pc[t] # "free", Ends(t)
  PROVE  ActiveInv'
<1>1. PICK k \in Nat, notes \in Seq(Frame), why \in Reason :
           \/ Finishes(t, k, notes, why) \/ Returns(t, k, notes, why)
           \/ ReturnsAtOnce(t, k, notes, why) \/ Interrupted(t, k, notes)
  BY EndKinds
<1>2. PICK V \in SUBSET (Live \ {t}), w \in Reason : FiringEnds(t, k, notes, w, V)
  <2>1. {} \in SUBSET (Live \ {t}) /\ Victims(t) \in SUBSET (Live \ {t}) /\ "none" \in Reason
    BY DEF Victims, Reason
  <2> QED
    BY <1>1, <2>1 DEF Finishes, Returns, ReturnsAtOnce, Interrupted
<1>3. \A g \in Frame : HasWork(g)' => HasWork(g)
  BY EndsWork
<1>4. \A u \in Task : Awaiting(u)' => u # t /\ Awaiting(u) /\ childOf'[u] = childOf[u]
  BY <1>2, EndTasks DEF Awaiting, Goes
<1>5. \A g \in Frame : cancelled[g] => cancelled'[g]
  BY <1>1 DEF Finishes, Returns, ReturnsAtOnce, Interrupted, CancelDoomed
<1>6. exhausted => exhausted'
  BY <1>2 DEF FiringEnds, CountSent
<1>7. CASE frames' = frames
  BY <1>3, <1>4, <1>5, <1>6, <1>7, ActiveKept DEF LogInv
<1>8. CASE Returns(t, k, notes, why)
  <2> SUFFICES ASSUME ~exhausted'
               PROVE  /\ \A g \in Frame : HasWork(g)' /\ ~cancelled'[g] => g \in frames'
                      /\ \A u \in Task : Awaiting(u)' /\ ~cancelled'[childOf'[u]]
                                           => childOf'[u] \in frames'
    BY DEF ActiveInv
  <2>1. /\ pc[t] = "childDone" /\ cancel[t] = "none" /\ frames' = frames \ Subtree(childOf[t])
        /\ ~exhausted
    BY <1>6, <1>8 DEF Returns
  <2>2. \A g \in Frame : HasWork(g) /\ childOf[t] \in path[g] => cancelled[g]
    BY <2>1, NothingBelow
  <2>3. ASSUME NEW g \in Frame, HasWork(g)', ~cancelled'[g] PROVE g \in frames'
    <3>1. HasWork(g) /\ ~cancelled[g]
      BY <1>3, <1>5, <2>3
    <3>2. g \in frames
      BY <2>1, <3>1 DEF LogInv, ActiveInv
    <3> QED
      BY <2>1, <2>2, <3>1, <3>2 DEF Subtree, Under
  <2>4. ASSUME NEW u \in Task, Awaiting(u)', ~cancelled'[childOf'[u]] PROVE childOf'[u] \in frames'
    <3>1. PICK d \in Frame : d = childOf[u]
      BY DEF TypeInv, TaskType
    <3>2. PICK h \in Frame : h = frameOf[u]
      BY DEF TypeInv, TaskType
    <3>3. u # t /\ Awaiting(u) /\ childOf'[u] = d /\ ~cancelled[d]
      BY <1>4, <1>5, <2>4, <3>1
    <3>4. d \in frames /\ path[d] = path[h] \cup {d} /\ d # childOf[t]
      BY <2>1, <3>1, <3>2, <3>3 DEF LogInv, ActiveInv, TreeInv, AwaitInv, Awaits, Awaiting
    <3>5. HasWork(h) /\ h \in path[h]
      BY <3>2, <3>3, FiringFrameOpen DEF HasWork, LiveIn, Awaiting, TreeInv, PathInv
    <3>6. ~cancelled[h]
      BY <3>3, <3>4, <3>5 DEF TreeInv, CancelInv
    <3>7. childOf[t] \notin path[d]
      BY <2>2, <3>4, <3>5, <3>6
    <3> QED
      BY <2>1, <3>3, <3>4, <3>7 DEF Subtree, Under
  <2> QED
    BY <2>3, <2>4
<1> QED
  BY <1>1, <1>7, <1>8 DEF Finishes, ReturnsAtOnce, Interrupted

LEMMA EndsLog ==
  ASSUME TypeInv, CountInv, UnopenedInv, TreeInv, WaitedInv, ChainInv, LogInv,
         TypeInv', TreeInv', ChainInv', NEW t \in Task, pc[t] # "free", Ends(t)
  PROVE  LogInv'
<1>1. PICK k \in Nat, notes \in Seq(Frame), why \in Reason :
           \/ Finishes(t, k, notes, why) \/ Returns(t, k, notes, why)
           \/ ReturnsAtOnce(t, k, notes, why) \/ Interrupted(t, k, notes)
  BY EndKinds
<1>2. CASE Finishes(t, k, notes, why)
  BY <1>2, FinishesLog, EndsActive DEF Finishes, LogInv
<1>3. CASE Interrupted(t, k, notes)
  <2>1. \A i \in DOMAIN notes : notes[i] = frameOf[t]
    BY <1>3 DEF Interrupted
  <2> QED
    BY <1>3, <2>1, FinishesLog, EndsActive DEF Interrupted, LogInv
<1>4. CASE Returns(t, k, notes, why) \/ ReturnsAtOnce(t, k, notes, why)
  BY <1>4, ReturnsLog, AtOnceLog, EndsActive DEF LogInv
<1> QED
  BY <1>1, <1>2, <1>3, <1>4

\* A frame opens and is active from then on.
LEMMA OpensLog ==
  ASSUME TypeInv, TreeInv, LogInv, UNCHANGED <<log, own, closed, cancelled>>, exhausted => exhausted',
         NEW c \in Frame, NEW g \in Frame, Opens(c, g), frames' = frames \cup {c},
         \A h \in Frame : h # c /\ HasWork(h)' => HasWork(h),
         \A u \in Task : Awaiting(u)' => childOf'[u] = c \/ (Awaiting(u) /\ childOf'[u] = childOf[u])
  PROVE  LogInv'
<1>1. path \in [Frame -> SUBSET Frame] /\ \A u \in Task : childOf[u] \in Frame
  BY DEF TypeInv, TreeType, TaskType
<1>2. \A h \in Frame : path[h] # {} => path'[h] # {}
  BY <1>1 DEF Opens
<1>3. NotesInv'
  BY <1>2, NotesKept DEF LogInv, TypeInv, NoteType
<1>4. HeldInv'
  <2> SUFFICES ASSUME ~exhausted' PROVE \A h \in frames' : closed'[h] = Held(h)'
    BY DEF HeldInv
  <2>1. \A h \in frames : closed[h] = Held(h)
    BY DEF LogInv, HeldInv
  <2> QED
    BY <2>1, HeldOpens DEF LogInv
<1>5. ActiveInv'
  BY <1>1 DEF LogInv, ActiveInv
<1> QED
  BY <1>3, <1>4, <1>5 DEF LogInv

LEMMA TaskStepLog ==
  ASSUME TypeInv, CountInv, UnopenedInv, TreeInv, WaitedInv, ChainInv, LogInv,
         TypeInv', TreeInv', ChainInv', NEW t \in Task, TaskStep(t)
  PROVE  LogInv'
<1>1. pc[t] # "free" /\ frameOf[t] \in Frame
  BY TaskLeaves DEF TypeInv, TaskType
<1>2. CASE FiringWaits(t) \/ FiringNeverStarts(t)
  <2>1. /\ UNCHANGED <<frames, path, log, own, closed, cancelled, exhausted, childOf>>
        /\ \A u \in Task : Awaiting(u)' => Awaiting(u)
    BY <1>2 DEF FiringWaits, FiringNeverStarts, frameVars, Awaiting, TypeInv, TaskType
  <2>2. \A g \in Frame : HasWork(g)' => HasWork(g)
    BY <1>2, StillWork
  <2>3. NotesInv' /\ HeldInv'
    BY <2>1, NotesKept, HeldKept DEF LogInv, TypeInv, NoteType
  <2>4. ActiveInv'
    BY <2>1, <2>2, ActiveKept DEF LogInv
  <2> QED
    BY <2>3, <2>4 DEF LogInv
<1>3. ASSUME NEW k \in 0 .. MaxFan, NEW S \in SeedTasks, FlowOpens(t, k, S)
      PROVE  LogInv'
  <2>1. PICK c \in Frame : c = NextFrame /\ path[c] = {}
    BY <1>3, NextFrameType DEF FlowOpens
  <2>2. /\ UNCHANGED <<log, own, closed, cancelled>> /\ (exhausted => exhausted')
        /\ frames' = frames \cup {c} /\ path' = [path EXCEPT ![c] = path[frameOf[t]] \cup {c}]
        /\ cancel[t] = "none"
        /\ pc' = [u \in Task |-> IF u = t THEN "child" ELSE IF u \in S THEN "new" ELSE pc[u]]
        /\ childOf' = [childOf EXCEPT ![t] = c]
    BY <1>3, <2>1 DEF FlowOpens, OpenFrame, Steps, CountSent
  <2>3. Opens(c, frameOf[t])
    BY <1>1, <2>1, <2>2, SpawnsUnder
  <2>4. \A h \in Frame : h # c /\ HasWork(h)' => HasWork(h)
    BY <1>3, <2>1, OpensWork
  <2>5. \A u \in Task : Awaiting(u)' => childOf'[u] = c \/ (Awaiting(u) /\ childOf'[u] = childOf[u])
    BY <2>2 DEF Awaiting, TypeInv, TaskType
  <2> QED
    BY <1>1, <2>2, <2>3, <2>4, <2>5, OpensLog
<1>4. ASSUME NEW k \in 1 .. MaxFan, FlowOverspends(t, k)
      PROVE  LogInv'
  <2>1. PICK c \in Frame : c = NextFrame /\ path[c] = {}
    BY <1>4, NextFrameType DEF FlowOverspends
  <2>2. /\ UNCHANGED <<log, own, closed>> /\ exhausted'
        /\ path' = [path EXCEPT ![c] = path[frameOf[t]] \cup {c}]
    BY <1>4, <2>1 DEF FlowOverspends, OpenFrame, CountSent
  <2>3. \A h \in Frame : path[h] # {} => path'[h] # {}
    BY <2>2 DEF TypeInv, TreeType
  <2>4. NotesInv'
    <3>1. \A i \in DOMAIN log : log[i] \in Frame
      BY DEF TypeInv, NoteType
    <3>2. NotesInv /\ UNCHANGED <<log, own, closed>>
      BY <2>2 DEF LogInv
    <3> HIDE <2>1, <2>2
    <3> QED
      BY <2>3, <3>1, <3>2, NotesKept
  <2> QED
    BY <2>2, <2>4 DEF LogInv, HeldInv, ActiveInv
<1> QED
  BY <1>1, <1>2, <1>3, <1>4, EndsLog DEF TaskStep, Ends

LEMMA ReceivesLog ==
  ASSUME TypeInv, CountInv, UnopenedInv, TreeInv, LogInv, NEW f \in Frame, NEW k \in Nat,
         NEW S \in SUBSET (Task \ Live), IsFiniteSet(S), Receives(f, k, S)
  PROVE  LogInv'
<1> DEFINE done == Waiter(f, Room(k) + Cardinality(S))
<1>1. \A u \in done : pc[u] = "child"
  BY DEF Waiter
<1>2. /\ UNCHANGED <<frames, path, log, own, closed, cancelled, childOf>>
      /\ (exhausted => exhausted')
      /\ pc' = [u \in Task |-> IF u \in S THEN "new" ELSE IF u \in done THEN "childDone" ELSE pc[u]]
  BY DEF Receives, Consume, CountSent
<1> HIDE DEF done
<1>3. \A u \in Task : Awaiting(u)' => Awaiting(u)
  BY <1>1, <1>2 DEF Awaiting
<1>4. \A g \in Frame : HasWork(g)' => HasWork(g)
  BY ReceivesWork
<1>5. NotesInv' /\ HeldInv'
  BY <1>2, NotesKept, HeldKept DEF LogInv, TypeInv, NoteType
<1>6. ActiveInv'
  BY <1>2, <1>3, <1>4, ActiveKept DEF LogInv
<1> QED
  BY <1>5, <1>6 DEF LogInv

LEMMA SeedRootLog ==
  ASSUME TypeInv, CountInv, UnopenedInv, TreeInv, LogInv, NEW k \in 0 .. MaxFan,
         NEW S \in SeedTasks, SeedRoot(k, S)
  PROVE  LogInv'
<1> DEFINE new == IF Over(k) THEN {} ELSE S
<1>1. Root \in Frame
  BY Bounds
<1>2. /\ path' = [path EXCEPT ![Root] = {} \cup {Root}] /\ frames' = frames \cup {Root}
      /\ pc' = [t \in Task |-> IF t \in new THEN "new" ELSE pc[t]]
      /\ UNCHANGED <<log, own, closed, cancelled, childOf>> /\ pump = "new"
      /\ (exhausted => exhausted')
  BY DEF SeedRoot, OpenFrame, Spawn, CountSent
<1> HIDE DEF new
<1>3. Opens(Root, Root)
  BY <1>2 DEF UnopenedInv, Opens
<1>4. \A u \in Task : Awaiting(u)' => Awaiting(u) /\ childOf'[u] = childOf[u]
  BY <1>2 DEF Awaiting
<1>5. \A h \in Frame : h # Root /\ HasWork(h)' => HasWork(h)
  BY SeedRootWork
<1> QED
  BY <1>1, <1>2, <1>3, <1>4, <1>5, OpensLog

LEMMA OtherLog ==
  ASSUME TypeInv, CountInv, UnopenedInv, TreeInv, LogInv, TypeInv', TreeInv', ChainInv',
         OtherStep \/ PumpBlocks \/ PumpResumes \/ BindFails \/ PumpStops
         \/ PumpGivesUp \/ PumpInterrupted
  PROVE  LogInv'
<1>1. /\ UNCHANGED <<frames, path, cancelled, closed>> /\ exhausted' = exhausted
      /\ \A u \in Task : pc'[u] # "free" => Goes(u)
  BY OtherStepGoes, MarkSteps
<1>2. \A g \in Frame : HasWork(g)' => HasWork(g)
  BY MarkStepsWork
<1>3. \A u \in Task : Awaiting(u)' => Awaiting(u) /\ childOf'[u] = childOf[u]
  BY <1>1 DEF Awaiting, Goes
<1>4. ActiveInv'
  BY <1>1, <1>2, <1>3, ActiveKept DEF LogInv
<1>5. CASE UNCHANGED <<log, own>>
  BY <1>1, <1>4, <1>5, NotesKept, HeldKept DEF LogInv, TypeInv, NoteType
<1>6. CASE Finalize
  <2>1. Root \in Frame
    BY Bounds
  <2>2. PICK notes \in {<<>>, <<Root>>} :
          /\ Record(notes) /\ log' = log \o notes
          /\ notes # <<>> => Root \in frames
    BY <1>6 DEF Finalize, Record, Unwritten
  <2>3. notes \in Seq(Frame) /\ \A j \in DOMAIN notes : notes[j] = Root
    BY <2>1, OneOnly DEF Only
  <2>4. CASE notes = <<>>
    <3>1. log' = log
      BY <2>2, <2>4, ConcatEmptySeq DEF TypeInv, NoteType
    <3>2. NotesInv'
      <4>1. \A j \in DOMAIN notes : path'[notes[j]] # {}
        BY <2>4
      <4>2. notes \in Seq(Frame) /\ Record(notes) /\ UNCHANGED <<path, closed>> /\ NotesInv
        BY <1>1, <2>2, <2>3 DEF LogInv
      <4> HIDE <2>4
      <4> QED
        BY <4>1, <4>2, NotesGrow
    <3> QED
      BY <1>1, <1>4, <3>1, <3>2, HeldKept DEF LogInv
  <2>5. CASE Root \in frames
    <3>1. path[Root] # {}
      BY <2>5 DEF TreeInv, PathInv
    <3>2. NotesInv'
      BY <1>1, <2>1, <2>2, <2>3, <3>1, NotesGrow DEF LogInv
    <3>3. HeldInv'
      <4> SUFFICES ASSUME ~exhausted' PROVE \A h \in frames' : closed'[h] = Held(h)'
        BY DEF HeldInv
      <4>1. \A g \in frames : closed[g] = Held(g)
        BY <1>1 DEF LogInv, HeldInv
      <4> HIDE <1>6
      <4> QED
        BY <1>1, <2>2, <2>3, <2>5, <4>1, HeldNotes
    <3> QED
      BY <1>4, <3>2, <3>3 DEF LogInv
  <2> QED
    BY <2>2, <2>4, <2>5
<1>7. CASE ~Finalize
  <2>1. UNCHANGED <<log, own>>
    BY <1>7 DEF OtherStep, PumpBlocks, PumpResumes, BindFails, PumpStops, PumpGivesUp,
         PumpInterrupted, CleanupStarts, DeadlineFires, CleanupEnds, IoEnds, CeilingTrips,
         Abort, ClockPasses, CallerCancels, Interrupts, vars, frameVars
  <2> QED
    BY <1>5, <2>1
<1> QED
  BY <1>6, <1>7

LEMMA LogStep ==
  ASSUME TypeInv, CountInv, UnopenedInv, TreeInv, WaitedInv, ChainInv, LogInv,
         TypeInv', TreeInv', ChainInv', [Next]_vars
  PROVE  LogInv'
<1>1. CASE PumpStep
  BY <1>1, PumpKinds, ReceivesLog, SeedRootLog, OtherLog DEF Leaves
<1> QED
  BY <1>1, ThreeKinds, TaskStepLog, OtherLog

\* The counters of an active frame's subtree hold exactly the entries of the
\* run-wide log at and below that frame, each once (engine.py: passed, failed
\* and unhandled counts of Frame, the closed_ counters that _finish_child adds
\* to the parent when it detaches a child, and the run's own lists).
THEOREM CountersHold == Spec => []CountersMatchLog
<1>1. Init => WaitedInv /\ ChainInv /\ LogInv
  <2> SUFFICES ASSUME Init PROVE WaitedInv /\ ChainInv /\ LogInv
    OBVIOUS
  <2>1. WaitedInv /\ ChainInv
    BY DEF Init, WaitedInv, HasWork, Ids, MsgAt, LiveIn, ChainInv
  <2>2. DOMAIN log = {}
    BY DEF Init
  <2>3. NotesInv
    BY <2>2 DEF Init, NotesInv
  <2>4. HeldInv /\ ActiveInv
    BY DEF Init, HeldInv, ActiveInv, HasWork, Ids, MsgAt, LiveIn, Awaiting
  <2> QED
    BY <2>1, <2>3, <2>4 DEF LogInv
<1>2. TypeInv /\ CountInv /\ UnopenedInv /\ TreeInv /\ WaitedInv /\ (TypeInv /\ CountInv)'
      /\ [Next]_vars => WaitedInv'
  BY WaitedStep
<1>3. TypeInv /\ CountInv /\ UnopenedInv /\ TreeInv /\ ChainInv /\ [Next]_vars => ChainInv'
  BY TreeStep, ChainStep
<1>4. TypeInv /\ CountInv /\ UnopenedInv /\ TreeInv /\ WaitedInv /\ ChainInv /\ LogInv
      /\ (TypeInv /\ TreeInv /\ ChainInv)' /\ [Next]_vars => LogInv'
  BY LogStep
<1>5. TypeInv /\ TreeInv /\ ChainInv /\ LogInv => CountersMatchLog
  BY HeldMatches DEF LogInv
<1> QED
  BY <1>1, <1>2, <1>3, <1>4, <1>5, TreeInvariant, PTL DEF Spec
================================================================================
