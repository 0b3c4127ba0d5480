------------------------- MODULE ParallelLoopProofs -------------------------
(***************************************************************************)
(* For a list of any length, any number of workers and any items that do   *)
(* not bind: what the loop emits is complete, and no iteration outlives    *)
(* the firing. The inductive invariant says who answers for an iteration:  *)
(* each that was claimed is in results or errors or is run by one worker,  *)
(* as long as nothing has been cancelled and no worker has failed.         *)
(***************************************************************************)
EXTENDS ParallelLoop, TLAPS

Active(w) == pc[w] \in {"waits", "woken", "closes"}
InFrame(w) == pc[w] \in {"waits", "woken"}
NoFailure == \A w \in Worker : failure[w] = "none"
Calm == NoFailure /\ request = "none"

\* An active worker runs an iteration of its own, which nobody has collected.
HolderInv ==
  /\ \A w \in Worker : Active(w) =>
       /\ at[w] \in Index
       /\ child[at[w]] = "live" <=> pc[w] = "waits"
       /\ child[at[w]] # "none"
       /\ at[w] \in closed <=> pc[w] = "closes"
       /\ at[w] \notin results \cup errors
  /\ \A v, w \in Worker : Active(v) /\ Active(w) /\ at[v] = at[w] => v = w

\* What has been collected was claimed, and its frame was finished.
CollectedInv ==
  /\ \A i \in Index : child[i] # "none" => i < nextIndex
  /\ \A i \in results : child[i] = "passed" /\ i \in closed
  /\ \A i \in errors : i < nextIndex /\ child[i] \in {"none", "failed"}
                       /\ (child[i] = "failed" => i \in closed)
  /\ \A i \in closed : child[i] # "none"
  /\ stop <=> errors # {}

\* While nothing is cancelled or broken, no claimed item is left out, and the
\* first worker leaves only when the list is over or a failure stops the loop.
CalmInv ==
  Calm =>
    /\ \A w \in Worker : ~told[w]
    /\ \A i \in Index : i < nextIndex =>
         i \in results \cup errors \/ \E w \in Worker : Active(w) /\ at[w] = i
    /\ pc[1] = "over" => nextIndex > Last \/ (errors # {} /\ config.stops)

\* A frame that was started was finished, or cancelled, or is waited for.
FrameInv ==
  NoFailure => \A i \in Index : child[i] # "none" =>
    i \in closed \cup cancelled \/ \E w \in Worker : InFrame(w) /\ at[w] = i

OutcomeInv ==
  /\ outcome # "none" => \A w \in Worker : Over(w)
  /\ outcome = "outputs" => Calm
  /\ outcome = "cancelled" => NoFailure

IInv == TypeOK /\ HolderInv /\ CollectedInv /\ CalmInv /\ FrameInv /\ OutcomeInv

-----------------------------------------------------------------------------
(* A free worker claims items. *)

\* The invariant as worker w finds it when it holds no iteration any more: it
\* adds good, bad and done to what is collected and finished.
Ready(w, good, bad, done) ==
  /\ good \in SUBSET Index /\ bad \in SUBSET Index /\ done \in SUBSET Index
  /\ \A v \in Worker \ {w} : Active(v) =>
       at[v] \notin good \cup bad /\ (at[v] \in done <=> pc[v] = "closes")
  /\ \A i \in good : child[i] = "passed" /\ i \in done
  /\ \A i \in bad : i < nextIndex /\ child[i] \in {"none", "failed"}
                    /\ (child[i] = "failed" => i \in done)
  /\ \A i \in done : child[i] # "none"
  /\ Calm => \A i \in Index : i < nextIndex =>
       i \in good \cup bad \/ \E v \in Worker \ {w} : Active(v) /\ at[v] = i
  /\ NoFailure => \A i \in Index : child[i] # "none" =>
       i \in done \cup cancelled \/ \E v \in Worker \ {w} : InFrame(v) /\ at[v] = i

LEMMA LeavingKeeps ==
  ASSUME IInv, outcome = "none", UNCHANGED <<config, cancelled, request, outcome>>,
         NEW w \in Worker, NEW good, NEW bad, Ready(w, good, bad, closed'),
         NEW items \in SUBSET Index, NEW next \in nextIndex..(Last + 1),
         items = nextIndex..(next - 1),
         \A i \in items : i \in config.refused,
         next > Last \/ (bad \cup items # {} /\ config.stops),
         results' = good, errors' = bad \cup items, stop' = (bad \cup items # {}),
         nextIndex' = next, pc' = Set(pc, w, "over"),
         UNCHANGED <<child, at, told, failure>>
  PROVE  IInv'
<1>1. /\ TypeOK /\ TypeOK'
  BY SizesAssumption DEF IInv, TypeOK, Ready, Set
<1>2. \A v \in Worker : pc'[v] = IF v = w THEN "over" ELSE pc[v]
  BY <1>1 DEF TypeOK, Set
<1>3. HolderInv'
  BY <1>1, <1>2 DEF IInv, TypeOK, HolderInv, CollectedInv, Ready, Active, Index
<1>4. CollectedInv'
  <2>1. nextIndex \in Nat /\ next \in Nat /\ nextIndex <= next
    BY <1>1, SizesAssumption DEF TypeOK
  <2>2. \A i \in items : i \in Index /\ nextIndex <= i /\ i < next /\ child[i] = "none"
    BY <1>1, <2>1 DEF IInv, CollectedInv, Index
  <2>3. \A i \in Index : child[i] # "none" => i < next
    BY <1>1, <2>1, SizesAssumption DEF IInv, CollectedInv, Index
  <2>4. \A i \in bad \cup items :
          i < next /\ child[i] \in {"none", "failed"} /\ (child[i] = "failed" => i \in closed')
    BY <1>1, <2>1, <2>2, SizesAssumption DEF Ready, Index
  <2> QED
    BY <2>3, <2>4 DEF CollectedInv, Ready
<1>5. CalmInv'
  BY <1>1, <1>2 DEF IInv, TypeOK, CalmInv, Calm, NoFailure, Ready, Active, Index
<1>6. FrameInv'
  BY <1>1, <1>2 DEF IInv, TypeOK, FrameInv, NoFailure, Ready, InFrame
<1>7. OutcomeInv'
  BY <1>1 DEF OutcomeInv
<1> QED
  BY <1>1, <1>3, <1>4, <1>5, <1>6, <1>7 DEF IInv

LEMMA SeedingKeeps ==
  ASSUME IInv, outcome = "none", UNCHANGED <<config, cancelled, request, outcome>>,
         NEW w \in Worker, ~Over(w), NEW good, NEW bad, Ready(w, good, bad, closed'),
         errors \subseteq bad, bad = {} \/ ~config.stops,
         NEW first \in nextIndex..Last,
         \A i \in nextIndex..(first - 1) : i \in config.refused,
         results' = good, errors' = bad \cup (nextIndex..(first - 1)),
         stop' = (errors' # {}),
         nextIndex' = first + 1,
         child' = Set(child, first, "live"), at' = Set(at, w, first),
         \/ pc' = Set(pc, w, "waits") /\ UNCHANGED <<told, failure>>
         \/ Raises(w, "budget")
  PROVE  IInv'
<1> DEFINE items == nextIndex..(first - 1)
<1>1. TypeOK
  BY DEF IInv
<1>2. /\ nextIndex \in Nat /\ first \in Index /\ nextIndex <= first /\ first <= Last
      /\ \A i \in items : i \in Index /\ nextIndex <= i /\ i < first
  BY <1>1, SizesAssumption DEF TypeOK, Index
<1>3. \A i \in Index : child[i] # "none" => i < nextIndex
  BY DEF IInv, CollectedInv
<1>4. /\ child[first] = "none"
      /\ \A i \in items : child[i] = "none"
  BY <1>2, <1>3
<1>5. \A i \in Index : child'[i] = IF i = first THEN "live" ELSE child[i]
  BY <1>1 DEF TypeOK, Set
<1>6. \A v \in Worker : at'[v] = IF v = w THEN first ELSE at[v]
  BY <1>1 DEF TypeOK, Set
<1>7. \A v \in Worker : v # w => pc'[v] = pc[v]
  BY <1>1 DEF TypeOK, Set, Raises
<1>8. \/ pc'[w] = "waits" /\ failure' = failure
      \/ pc'[w] = "over" /\ failure'[w] = "budget"
  BY <1>1 DEF TypeOK, Set, Raises
<1>9. first \notin good \cup bad \cup items \cup closed'
  BY <1>2, <1>4 DEF Ready
<1>10. TypeOK'
  <2>1. results' \subseteq Index /\ errors' \subseteq Index /\ stop' \in BOOLEAN
        /\ closed' \subseteq Index /\ nextIndex' \in 0..(Last + 1)
    BY <1>2, SizesAssumption DEF Ready, Index
  <2>2. child' \in [Index -> {"none", "live", "passed", "failed"}]
        /\ at' \in [Worker -> Index \cup {Nobody}]
    BY <1>1, <1>2 DEF TypeOK, Set
  <2>3. told' \in [Worker -> BOOLEAN]
    BY <1>1 DEF TypeOK, Raises, Aborts
  <2>4. pc' \in [Worker -> {"new", "waits", "woken", "closes", "over"}]
        /\ failure' \in [Worker -> {"none", "budget", "session", "compact"}]
    BY <1>1 DEF TypeOK, Raises, Set
  <2> QED
    BY <1>1, <2>1, <2>2, <2>3, <2>4 DEF TypeOK
<1>11. HolderInv'
  <2>1. \A v \in Worker : v # w /\ Active(v)' =>
          /\ Active(v)
          /\ at[v] \in Index /\ child[at[v]] # "none" /\ at[v] # first
          /\ at[v] \notin good \cup bad \cup items
    BY <1>4, <1>7 DEF IInv, HolderInv, Ready, Active
  <2>2. ASSUME NEW v \in Worker, v # w, Active(v)'
        PROVE  /\ at'[v] \in Index
               /\ child'[at'[v]] = "live" <=> pc'[v] = "waits"
               /\ child'[at'[v]] # "none"
               /\ at'[v] \in closed' <=> pc'[v] = "closes"
               /\ at'[v] \notin results' \cup errors'
    BY <1>5, <1>6, <1>7, <2>1, <2>2 DEF IInv, HolderInv, Ready
  <2>3. ASSUME Active(w)'
        PROVE  /\ at'[w] \in Index
               /\ child'[at'[w]] = "live" <=> pc'[w] = "waits"
               /\ child'[at'[w]] # "none"
               /\ at'[w] \in closed' <=> pc'[w] = "closes"
               /\ at'[w] \notin results' \cup errors'
    BY <1>2, <1>5, <1>6, <1>8, <1>9, <2>3 DEF Active
  <2>4. ASSUME NEW u \in Worker, NEW v \in Worker, Active(u)', Active(v)', at'[u] = at'[v]
        PROVE  u = v
    BY <1>6, <2>1, <2>4 DEF IInv, HolderInv
  <2> QED
    BY <2>2, <2>3, <2>4 DEF HolderInv
<1>12. CollectedInv'
  <2>1. \A i \in Index : child'[i] # "none" => i < first + 1
    BY <1>2, <1>3, <1>5 DEF Index
  <2>2. \A i \in bad \cup items :
          i < first + 1 /\ child'[i] \in {"none", "failed"} /\ (child'[i] = "failed" => i \in closed')
    BY <1>2, <1>4, <1>5, <1>9 DEF Ready, Index
  <2>3. /\ \A i \in good : child'[i] = "passed" /\ i \in closed'
        /\ \A i \in closed' : child'[i] # "none"
    BY <1>5, <1>9 DEF Ready
  <2> QED
    BY <2>1, <2>2, <2>3 DEF CollectedInv
<1>13. CalmInv'
  <2> SUFFICES ASSUME Calm'
               PROVE  /\ \A v \in Worker : ~told'[v]
                      /\ \A i \in Index : i < first + 1 =>
                           i \in results' \cup errors' \/ \E v \in Worker : Active(v)' /\ at'[v] = i
                      /\ pc'[1] # "over"
    BY DEF CalmInv
  <2>1. pc'[w] = "waits" /\ failure' = failure /\ told' = told /\ Calm
    <3>1. ~Raises(w, "budget")
      BY <1>1 DEF Calm, NoFailure, Raises, Set, TypeOK
    <3> QED
      BY <1>8, <3>1 DEF Calm, NoFailure
  <2>2. \A v \in Worker : ~told'[v]
    BY <2>1 DEF IInv, CalmInv
  <2>3. ASSUME NEW i \in Index, i < first + 1
        PROVE  i \in results' \cup errors' \/ \E v \in Worker : Active(v)' /\ at'[v] = i
    <3>1. CASE i = first
      BY <1>6, <2>1, <3>1 DEF Active
    <3>2. CASE nextIndex <= i /\ i # first
      BY <1>2, <2>3, <3>2 DEF Index
    <3>3. CASE i < nextIndex
      BY <1>6, <1>7, <2>1, <3>3 DEF Ready, Active
    <3> QED
      BY <1>2, <3>1, <3>2, <3>3 DEF Index
  <2>4. pc'[1] # "over"
    <3>1. 1 \in Worker
      BY SizesAssumption DEF Worker
    <3>2. CASE w = 1
      BY <2>1, <3>2
    <3>3. CASE w # 1
      BY <1>2, <1>7, <2>1, <3>1, <3>3, SizesAssumption DEF IInv, CalmInv
    <3> QED
      BY <3>2, <3>3
  <2> QED
    BY <2>2, <2>3, <2>4
<1>14. FrameInv'
  <2> SUFFICES ASSUME NoFailure', NEW i \in Index, child'[i] # "none"
               PROVE  i \in closed' \cup cancelled' \/ \E v \in Worker : InFrame(v)' /\ at'[v] = i
    BY DEF FrameInv
  <2>1. pc'[w] = "waits" /\ NoFailure
    BY <1>8 DEF NoFailure
  <2>2. CASE i = first
    BY <1>6, <2>1, <2>2 DEF InFrame
  <2>3. CASE i # first
    BY <1>5, <1>6, <1>7, <2>1, <2>3 DEF Ready, InFrame
  <2> QED
    BY <2>2, <2>3
<1>15. OutcomeInv'
  BY DEF OutcomeInv
<1> QED
  BY <1>10, <1>11, <1>12, <1>13, <1>14, <1>15 DEF IInv

LEMMA ProceedsKeeps ==
  ASSUME IInv, outcome = "none", UNCHANGED <<config, cancelled, request, outcome>>,
         NEW w \in Worker, ~Over(w), NEW good, NEW bad, Ready(w, good, bad, closed'),
         errors \subseteq bad, Proceeds(w, good, bad, bad # {})
  PROVE  IInv'
<1>1. nextIndex \in 0..(Last + 1)
  BY DEF IInv, TypeOK
<1>2. CASE /\ nextIndex > Last \/ (bad # {} /\ config.stops)
           /\ results' = good /\ errors' = bad /\ stop' = (bad # {})
           /\ pc' = Set(pc, w, "over")
           /\ UNCHANGED <<child, at, told, failure, nextIndex>>
  BY <1>1, <1>2, LeavingKeeps, SizesAssumption
<1>3. CASE /\ config.stops /\ nextIndex \in config.refused /\ ~(nextIndex > Last)
           /\ results' = good /\ errors' = bad \cup {nextIndex}
           /\ stop' = (bad # {} \/ {nextIndex} # {})
           /\ pc' = Set(pc, w, "over")
           /\ UNCHANGED <<child, at, told, failure>>
           /\ nextIndex' = nextIndex + 1
  <2> DEFINE next == nextIndex + 1
             items == {nextIndex}
  <2>1. /\ next \in nextIndex..(Last + 1)
        /\ items = nextIndex..(next - 1) /\ items \in SUBSET Index
        /\ \A i \in items : i \in config.refused
        /\ bad \cup items # {} /\ stop' = (bad \cup items # {})
    BY <1>1, <1>3, SizesAssumption DEF Index
  <2> QED
    BY <1>3, <2>1, LeavingKeeps
<1>4. CASE /\ ~(nextIndex > Last) /\ nextIndex..Last \subseteq config.refused
           /\ results' = good /\ errors' = bad \cup (nextIndex..Last)
           /\ stop' = (bad # {} \/ nextIndex..Last # {})
           /\ pc' = Set(pc, w, "over")
           /\ UNCHANGED <<child, at, told, failure>>
           /\ nextIndex' = Last + 1
  <2> DEFINE next == Last + 1
             items == nextIndex..Last
  <2>1. /\ next \in nextIndex..(Last + 1) /\ next > Last
        /\ items = nextIndex..(next - 1) /\ items \in SUBSET Index
        /\ \A i \in items : i \in config.refused
        /\ stop' = (bad \cup items # {})
    BY <1>1, <1>4, SizesAssumption DEF Index
  <2> QED
    BY <1>4, <2>1, LeavingKeeps
<1>5. ASSUME NEW first \in (nextIndex..Last) \ config.refused,
             ~(bad # {} /\ config.stops),
             nextIndex..(first - 1) \subseteq config.refused,
             results' = good, errors' = bad \cup (nextIndex..(first - 1)),
             stop' = (bad # {} \/ nextIndex..(first - 1) # {}),
             nextIndex' = first + 1,
             child' = Set(child, first, "live"), at' = Set(at, w, first),
             \/ pc' = Set(pc, w, "waits") /\ UNCHANGED <<told, failure>>
             \/ Raises(w, "budget")
      PROVE  IInv'
  BY <1>1, <1>5, SeedingKeeps, SizesAssumption
<1> QED
  BY <1>2, <1>3, <1>4, <1>5 DEF Proceeds

LEMMA CollectKeeps ==
  ASSUME IInv, UNCHANGED <<config, cancelled, request, outcome>>,
         NEW w \in Worker, pc[w] \in {"woken", "closes"},
         closed' = closed \cup {at[w]}, Collect(w, at[w])
  PROVE  IInv'
<1> DEFINE i == at[w]
           good == IF child[i] = "passed" THEN results \cup {i} ELSE results
           bad == IF child[i] = "passed" THEN errors ELSE errors \cup {i}
<1>1. TypeOK /\ HolderInv /\ CollectedInv
  BY DEF IInv
<1>2. /\ Active(w) /\ ~Over(w)
      /\ i \in Index /\ child[i] \in {"passed", "failed"} /\ i < nextIndex
      /\ \A v \in Worker : v # w /\ Active(v) => at[v] # i
  BY <1>1 DEF TypeOK, HolderInv, CollectedInv, Active, Over
<1>3. outcome = "none"
  BY <1>2 DEF IInv, OutcomeInv
<1>4. Ready(w, good, bad, closed')
  <2>1. good \in SUBSET Index /\ bad \in SUBSET Index /\ closed' \in SUBSET Index
    BY <1>1, <1>2 DEF TypeOK
  <2>2. \A v \in Worker \ {w} : Active(v) =>
          at[v] \notin good \cup bad /\ (at[v] \in closed' <=> pc[v] = "closes")
    BY <1>1, <1>2 DEF HolderInv
  <2>3. /\ \A j \in good : child[j] = "passed" /\ j \in closed'
        /\ \A j \in bad : j < nextIndex /\ child[j] \in {"none", "failed"}
                          /\ (child[j] = "failed" => j \in closed')
        /\ \A j \in closed' : child[j] # "none"
    BY <1>1, <1>2 DEF CollectedInv
  <2>4. Calm => \A j \in Index : j < nextIndex =>
          j \in good \cup bad \/ \E v \in Worker \ {w} : Active(v) /\ at[v] = j
    BY DEF IInv, CalmInv
  <2>5. NoFailure => \A j \in Index : child[j] # "none" =>
          j \in closed' \cup cancelled \/ \E v \in Worker \ {w} : InFrame(v) /\ at[v] = j
    BY DEF IInv, FrameInv
  <2> QED
    BY <2>1, <2>2, <2>3, <2>4, <2>5 DEF Ready
<1>5. Proceeds(w, good, bad, bad # {})
  <2>1. CASE child[i] = "passed"
    <3>1. stop = (bad # {})
      BY <1>1, <2>1 DEF TypeOK, CollectedInv
    <3> QED
      BY <2>1, <3>1 DEF Collect
  <2>2. CASE child[i] # "passed"
    <3>1. (bad # {}) = TRUE
      BY <2>2
    <3> QED
      BY <2>2, <3>1 DEF Collect
  <2> QED
    BY <2>1, <2>2
<1>6. errors \subseteq bad
  OBVIOUS
<1> HIDE DEF good, bad
<1> QED
  BY <1>2, <1>3, <1>4, <1>5, <1>6, ProceedsKeeps

\* A worker leaves, and the frame it waited in is cancelled or it has failed.
LEMMA OverKeeps ==
  ASSUME IInv, UNCHANGED <<config, nextIndex, stop, results, errors, child, closed, at,
                           request, outcome>>,
         NEW w \in Worker, ~Over(w), pc' = Set(pc, w, "over"), told' \in [Worker -> BOOLEAN],
         cancelled' \in SUBSET Index, cancelled \subseteq cancelled',
         failure' \in [Worker -> {"none", "budget", "session", "compact"}],
         \A v \in Worker : v # w => failure'[v] = failure[v],
         failure'[w] # "none" \/ (request # "none" /\ (InFrame(w) => at[w] \in cancelled')
                                  /\ failure' = failure)
  PROVE  IInv'
<1>1. TypeOK /\ TypeOK'
  BY DEF IInv, TypeOK, Set
<1>2. \A v \in Worker : pc'[v] = IF v = w THEN "over" ELSE pc[v]
  BY <1>1 DEF TypeOK, Set
<1>3. HolderInv'
  BY <1>2 DEF IInv, HolderInv, Active
<1>4. CollectedInv'
  BY DEF IInv, CollectedInv
<1>5. CalmInv'
  BY DEF CalmInv, Calm, NoFailure
<1>6. FrameInv'
  BY <1>2 DEF IInv, FrameInv, NoFailure, InFrame
<1>7. OutcomeInv'
  BY DEF IInv, OutcomeInv, Over
<1> QED
  BY <1>1, <1>3, <1>4, <1>5, <1>6, <1>7 DEF IInv

LEMMA RaisesKeeps ==
  ASSUME IInv, UNCHANGED <<config, iterVars, child, cancelled, closed, at, request, outcome>>,
         NEW w \in Worker, ~Over(w), NEW why \in {"budget", "session", "compact"},
         Raises(w, why)
  PROVE  IInv'
<1>1. TypeOK
  BY DEF IInv
<1>2. failure' \in [Worker -> {"none", "budget", "session", "compact"}]
      /\ failure'[w] # "none" /\ \A v \in Worker : v # w => failure'[v] = failure[v]
  BY <1>1 DEF TypeOK, Raises, Set
<1>3. told' \in [Worker -> BOOLEAN]
  BY <1>1 DEF TypeOK, Raises, Aborts
<1>4. pc' = Set(pc, w, "over")
  BY DEF Raises
<1> QED
  BY <1>1, <1>2, <1>3, <1>4, OverKeeps DEF TypeOK, iterVars

-----------------------------------------------------------------------------
(* The actions. *)

LEMMA BeginKeeps == ASSUME IInv, NEW w \in Worker, Begin(w) PROVE IInv'
<1>1. TypeOK /\ HolderInv /\ CollectedInv
  BY DEF IInv
<1>2. pc[w] = "new" /\ ~Over(w) /\ ~Active(w) /\ ~InFrame(w) /\ closed' = closed
  BY DEF Begin, Over, Active, InFrame
<1>3. outcome = "none"
  BY <1>2 DEF IInv, OutcomeInv
<1>4. Ready(w, results, errors, closed')
  <2>1. \A v \in Worker : Active(v) =>
          at[v] \notin results \cup errors /\ (at[v] \in closed' <=> pc[v] = "closes")
    BY <1>1, <1>2 DEF HolderInv
  <2>2. Calm => \A j \in Index : j < nextIndex =>
          j \in results \cup errors \/ \E v \in Worker \ {w} : Active(v) /\ at[v] = j
    BY <1>2 DEF IInv, CalmInv
  <2>3. NoFailure => \A j \in Index : child[j] # "none" =>
          j \in closed' \cup cancelled \/ \E v \in Worker \ {w} : InFrame(v) /\ at[v] = j
    BY <1>2 DEF IInv, FrameInv
  <2> QED
    BY <1>1, <1>2, <2>1, <2>2, <2>3 DEF Ready, TypeOK, CollectedInv
<1>5. stop = (errors # {})
  BY <1>1 DEF TypeOK, CollectedInv
<1> QED
  BY <1>2, <1>3, <1>4, <1>5, ProceedsKeeps DEF Begin

LEMMA GoesQuietKeeps == ASSUME IInv, NEW w \in Worker, GoesQuiet(w) PROVE IInv'
<1> DEFINE i == at[w]
<1>1. TypeOK /\ HolderInv /\ CollectedInv
  BY DEF IInv
<1>2. PICK verdict \in {"passed", "failed"} : child' = Set(child, i, verdict)
  BY DEF GoesQuiet
<1>3. /\ pc[w] = "waits" /\ pc' = Set(pc, w, "woken")
      /\ UNCHANGED <<config, nextIndex, stop, results, errors, cancelled, closed, at, told,
                     failure, request, outcome>>
  BY DEF GoesQuiet, iterVars
<1>4. /\ i \in Index /\ child[i] = "live"
      /\ i \notin closed \cup results \cup errors
      /\ \A v \in Worker : v # w /\ Active(v) => at[v] # i
  BY <1>1, <1>3 DEF HolderInv, Active
<1>5. /\ \A j \in Index : child'[j] = IF j = i THEN verdict ELSE child[j]
      /\ \A v \in Worker : pc'[v] = IF v = w THEN "woken" ELSE pc[v]
  BY <1>1, <1>2, <1>3, <1>4 DEF TypeOK, Set
<1>6. TypeOK'
  BY <1>1, <1>2, <1>3, <1>4 DEF TypeOK, Set
<1>7. HolderInv'
  <2>1. \A v \in Worker : Active(v)' => Active(v)
    BY <1>3, <1>5 DEF Active
  <2>2. ASSUME NEW v \in Worker, Active(v)'
        PROVE  /\ at[v] \in Index
               /\ child'[at[v]] = "live" <=> pc'[v] = "waits"
               /\ child'[at[v]] # "none"
               /\ at[v] \in closed <=> pc'[v] = "closes"
               /\ at[v] \notin results \cup errors
    BY <1>1, <1>3, <1>4, <1>5, <2>1, <2>2 DEF HolderInv
  <2> QED
    BY <1>1, <1>3, <2>1, <2>2 DEF HolderInv
<1>8. CollectedInv'
  BY <1>1, <1>3, <1>4, <1>5 DEF CollectedInv, TypeOK
<1>9. CalmInv'
  <2>1. \A v \in Worker : Active(v)' <=> Active(v)
    BY <1>3, <1>5 DEF Active
  <2>2. pc'[1] = "over" => pc[1] = "over"
    BY <1>3, <1>5, SizesAssumption DEF Worker
  <2> QED
    BY <1>3, <2>1, <2>2 DEF IInv, CalmInv, Calm, NoFailure
<1>10. FrameInv'
  <2>1. \A v \in Worker : InFrame(v)' <=> InFrame(v)
    BY <1>3, <1>5 DEF InFrame
  <2> QED
    BY <1>3, <1>4, <1>5, <2>1 DEF IInv, FrameInv, NoFailure
<1>11. OutcomeInv'
  BY <1>3, <1>5 DEF IInv, OutcomeInv, Over, Calm, NoFailure
<1> QED
  BY <1>6, <1>7, <1>8, <1>9, <1>10, <1>11 DEF IInv

LEMMA FinishKeeps == ASSUME IInv, NEW w \in Worker, Finish(w) PROVE IInv'
<1> DEFINE i == at[w]
<1>1. TypeOK /\ HolderInv /\ CollectedInv
  BY DEF IInv
<1>2. pc[w] = "woken" /\ ~Over(w) /\ Active(w)
      /\ UNCHANGED <<config, cancelled, request, outcome>>
  BY DEF Finish, Over, Active
<1>3. /\ i \in Index /\ child[i] \in {"passed", "failed"}
      /\ i \notin results \cup errors
      /\ \A v \in Worker : v # w /\ Active(v) => at[v] # i
  BY <1>1, <1>2 DEF HolderInv, TypeOK
<1>4. CASE i \in cancelled
  BY <1>2, <1>4, RaisesKeeps DEF Finish
<1>5. CASE i \notin cancelled /\ config.fresh
  <2>1. /\ closed' = closed \cup {i} /\ pc' = Set(pc, w, "closes")
        /\ UNCHANGED <<nextIndex, stop, results, errors, child, at, told, failure>>
    BY <1>5 DEF Finish, iterVars
  <2>2. \A v \in Worker : pc'[v] = IF v = w THEN "closes" ELSE pc[v]
    BY <1>1, <2>1 DEF TypeOK, Set
  <2>3. TypeOK'
    BY <1>1, <1>2, <1>3, <2>1 DEF TypeOK, Set
  <2>4. HolderInv'
    BY <1>1, <1>2, <1>3, <2>1, <2>2 DEF HolderInv, Active
  <2>5. CollectedInv'
    BY <1>1, <1>3, <2>1 DEF CollectedInv
  <2>6. CalmInv'
    <3>1. \A v \in Worker : Active(v)' <=> Active(v)
      BY <1>2, <2>2 DEF Active
    <3>2. pc'[1] = "over" => pc[1] = "over"
      BY <2>2, SizesAssumption DEF Worker
    <3> QED
      BY <1>2, <2>1, <3>1, <3>2 DEF IInv, CalmInv, Calm, NoFailure
  <2>7. FrameInv'
    BY <1>2, <2>1, <2>2 DEF IInv, FrameInv, NoFailure, InFrame
  <2>8. OutcomeInv'
    BY <1>2, <2>1, <2>2 DEF IInv, OutcomeInv, Over, Calm, NoFailure
  <2> QED
    BY <2>3, <2>4, <2>5, <2>6, <2>7, <2>8 DEF IInv
<1>6. CASE i \notin cancelled /\ ~config.fresh
  <2>1. closed' = closed \cup {i} /\ Collect(w, i)
    BY <1>6 DEF Finish
  <2> QED
    BY <1>2, <2>1, CollectKeeps
<1> QED
  BY <1>4, <1>5, <1>6

LEMMA SessionClosedKeeps == ASSUME IInv, NEW w \in Worker, SessionClosed(w) PROVE IInv'
<1>1. pc[w] = "closes" /\ ~Over(w)
      /\ UNCHANGED <<config, cancelled, closed, request, outcome>>
  BY DEF SessionClosed, Over
<1>2. CASE Collect(w, at[w])
  <2>1. closed' = closed \cup {at[w]}
    BY <1>1 DEF IInv, HolderInv, Active
  <2> QED
    BY <1>1, <1>2, <2>1, CollectKeeps
<1>3. CASE Raises(w, "session") /\ UNCHANGED <<iterVars, child, at>>
  BY <1>1, <1>3, RaisesKeeps
<1> QED
  BY <1>2, <1>3 DEF SessionClosed

LEMMA UnwindKeeps == ASSUME IInv, NEW w \in Worker, Unwind(w) PROVE IInv'
<1>1. TypeOK /\ HolderInv
  BY DEF IInv
<1>2. /\ told[w] /\ ~Over(w) /\ pc' = Set(pc, w, "over") /\ told' \in [Worker -> BOOLEAN]
      /\ UNCHANGED <<config, nextIndex, stop, results, errors, child, closed, at, failure,
                     request, outcome>>
  BY <1>1 DEF Unwind, iterVars, TypeOK, Set
<1>3. /\ cancelled' \in SUBSET Index /\ cancelled \subseteq cancelled'
      /\ InFrame(w) => at[w] \in cancelled'
  BY <1>1 DEF Unwind, CancelFrames, TypeOK, HolderInv, Active, InFrame
<1>4. CASE request # "none"
  BY <1>1, <1>2, <1>3, <1>4, OverKeeps DEF TypeOK
<1>5. CASE request = "none"
  <2>1. ~NoFailure
    BY <1>2, <1>5 DEF IInv, CalmInv, Calm
  <2>2. \A v \in Worker : pc'[v] = IF v = w THEN "over" ELSE pc[v]
    BY <1>1, <1>2 DEF TypeOK, Set
  <2>3. TypeOK'
    BY <1>1, <1>2, <1>3 DEF TypeOK, Set
  <2>4. HolderInv'
    BY <1>1, <1>2, <2>2 DEF HolderInv, Active
  <2>5. CollectedInv'
    BY <1>2 DEF IInv, CollectedInv
  <2>6. CalmInv' /\ FrameInv'
    BY <1>2, <2>1 DEF CalmInv, FrameInv, Calm, NoFailure
  <2>7. OutcomeInv'
    BY <1>2 DEF IInv, OutcomeInv, Over
  <2> QED
    BY <2>3, <2>4, <2>5, <2>6, <2>7 DEF IInv
<1> QED
  BY <1>4, <1>5

LEMMA RequestedKeeps ==
  ASSUME IInv, Requested, cancelled' \in SUBSET Index, cancelled \subseteq cancelled',
         UNCHANGED <<config, iterVars, child, closed, pc, at, failure, outcome>>
  PROVE  IInv'
<1>1. TypeOK
  BY DEF IInv
<1>2. /\ request' = "asked" /\ outcome = "none" /\ told' \in [Worker -> BOOLEAN]
      /\ UNCHANGED <<config, nextIndex, stop, results, errors, child, closed, pc, at, failure,
                     outcome>>
  BY <1>1 DEF Requested, iterVars, TypeOK, Set
<1>3. TypeOK'
  BY <1>1, <1>2 DEF TypeOK
<1>4. HolderInv' /\ CollectedInv'
  BY <1>2 DEF IInv, HolderInv, CollectedInv, Active
<1>5. CalmInv'
  BY <1>2 DEF CalmInv, Calm
<1>6. FrameInv'
  BY <1>2 DEF IInv, FrameInv, NoFailure, InFrame
<1>7. OutcomeInv'
  BY <1>2 DEF OutcomeInv
<1> QED
  BY <1>3, <1>4, <1>5, <1>6, <1>7 DEF IInv

LEMMA DeliverKeeps == ASSUME IInv, Deliver PROVE IInv'
<1>1. TypeOK
  BY DEF IInv
<1>2. /\ request = "asked" /\ request' = "delivered" /\ told' \in [Worker -> BOOLEAN]
      /\ UNCHANGED <<config, nextIndex, stop, results, errors, child, cancelled, closed, pc, at,
                     failure, outcome>>
  BY <1>1 DEF Deliver, Aborts, iterVars, frameVars, TypeOK
<1>3. TypeOK'
  BY <1>1, <1>2 DEF TypeOK
<1>4. HolderInv' /\ CollectedInv' /\ FrameInv'
  BY <1>2 DEF IInv, HolderInv, CollectedInv, FrameInv, Active, InFrame, NoFailure
<1>5. CalmInv' /\ OutcomeInv'
  BY <1>2 DEF IInv, CalmInv, OutcomeInv, Calm, NoFailure, Over
<1> QED
  BY <1>3, <1>4, <1>5 DEF IInv

LEMMA EndsKeeps ==
  ASSUME IInv, NEW how \in {"outputs", "cancelled", "budget", "internal"}, Ends(how),
         how = "outputs" => Calm, how = "cancelled" => NoFailure
  PROVE  IInv'
<1>1. /\ outcome' = how /\ (\A w \in Worker : Over(w))
      /\ UNCHANGED <<config, nextIndex, stop, results, errors, child, cancelled, closed, pc, at,
                     told, failure, request>>
  BY DEF Ends, iterVars, frameVars, taskVars
<1>2. TypeOK'
  BY <1>1 DEF IInv, TypeOK
<1>3. HolderInv' /\ CollectedInv' /\ FrameInv'
  BY <1>1 DEF IInv, HolderInv, CollectedInv, FrameInv, Active, InFrame, NoFailure
<1>4. CalmInv' /\ OutcomeInv'
  BY <1>1 DEF IInv, CalmInv, OutcomeInv, Calm, NoFailure, Over, Active
<1> QED
  BY <1>2, <1>3, <1>4 DEF IInv

LEMMA FailedOrNot == NoFailure <=> Failed = {}
BY DEF NoFailure, Failed

LEMMA InitHolds == Init => IInv
<1> SUFFICES ASSUME Init PROVE IInv
  OBVIOUS
<1>1. 1 \in Worker /\ 1 \in Workers(config) /\ 1 <= Last + 1
  BY SizesAssumption DEF Worker, Workers
<1>2. pc[1] = "new"
  BY <1>1 DEF Init
<1>3. /\ nextIndex = 0 /\ stop = FALSE /\ results = {} /\ errors = {}
      /\ child = [i \in Index |-> "none"] /\ cancelled = {} /\ closed = {}
      /\ at = [w \in Worker |-> Nobody] /\ told = [w \in Worker |-> FALSE]
      /\ failure = [w \in Worker |-> "none"]
      /\ request = "none" /\ outcome = "none"
      /\ \A w \in Worker : pc[w] \in {"new", "over"}
  BY DEF Init
<1>4. TypeOK
  <2>1. config \in [parallel : BOOLEAN, stops : BOOLEAN, fresh : BOOLEAN, refused : SUBSET Index]
    BY DEF Init
  <2>2. pc \in [Worker -> {"new", "waits", "woken", "closes", "over"}]
    BY DEF Init
  <2>3. nextIndex \in 0..(Last + 1)
    BY <1>3, SizesAssumption
  <2> QED
    BY <1>3, <2>1, <2>2, <2>3 DEF TypeOK
<1>5. HolderInv
  BY <1>3 DEF HolderInv, Active
<1>6. CollectedInv
  BY <1>3 DEF CollectedInv
<1>7. CalmInv
  BY <1>2, <1>3 DEF CalmInv, Index
<1>8. FrameInv /\ OutcomeInv
  BY <1>3 DEF FrameInv, OutcomeInv
<1> QED
  BY <1>4, <1>5, <1>6, <1>7, <1>8 DEF IInv

LEMMA StepKeeps == IInv /\ [Next]_vars => IInv'
<1> SUFFICES ASSUME IInv, [Next]_vars PROVE IInv'
  OBVIOUS
<1>1. ASSUME NEW w \in Worker, Steps(w) \/ GoesQuiet(w) PROVE IInv'
  BY <1>1, BeginKeeps, GoesQuietKeeps, FinishKeeps, SessionClosedKeeps, UnwindKeeps DEF Steps
<1>2. CASE CancelFiring
  <2>1. cancelled' = cancelled /\ UNCHANGED <<config, iterVars, child, closed, pc, at, failure, outcome>>
    BY <1>2 DEF CancelFiring, frameVars
  <2> QED
    BY <1>2, <2>1, RequestedKeeps DEF CancelFiring, IInv, TypeOK
<1>3. CASE CancelSubtree
  <2>1. cancelled' \in SUBSET Index /\ cancelled \subseteq cancelled'
    BY <1>3 DEF CancelSubtree, CancelFrames, IInv, TypeOK
  <2> QED
    BY <1>3, <2>1, RequestedKeeps DEF CancelSubtree
<1>4. CASE Firing
  <2>1. CASE Deliver
    BY <2>1, DeliverKeeps
  <2>2. CASE Emit
    BY <2>2, EndsKeeps, FailedOrNot DEF Emit, Calm
  <2>3. CASE Breaks
    BY <2>3, EndsKeeps DEF Breaks
  <2>4. CASE OutOfBudget
    BY <2>4, EndsKeeps DEF OutOfBudget
  <2>5. CASE IsCancelled
    BY <2>5, EndsKeeps, FailedOrNot DEF IsCancelled
  <2> QED
    BY <1>4, <2>1, <2>2, <2>3, <2>4, <2>5 DEF Firing
<1>5. CASE UNCHANGED vars
  BY <1>5 DEF vars, iterVars, frameVars, taskVars, IInv, TypeOK, HolderInv, CollectedInv,
              CalmInv, FrameInv, OutcomeInv, Active, InFrame, Calm, NoFailure, Over
<1> QED
  BY <1>1, <1>2, <1>3, <1>4, <1>5 DEF Next

-----------------------------------------------------------------------------
(* The theorems. *)

LEMMA InvariantAlways == Spec => []IInv
<1>1. Init => IInv
  BY InitHolds
<1>2. IInv /\ [Next]_vars => IInv'
  BY StepKeeps
<1> QED
  BY <1>1, <1>2, PTL DEF Spec

LEMMA Complete == IInv => OutputsAreComplete
<1> SUFFICES ASSUME IInv, outcome = "outputs"
             PROVE  /\ results = {i \in Index : child[i] = "passed"}
                    /\ errors = (0..(nextIndex - 1)) \ results
                    /\ (nextIndex <= Last => errors # {} /\ config.stops)
                    /\ closed = {i \in Index : child[i] # "none"}
  BY DEF OutputsAreComplete
<1>1. TypeOK /\ CollectedInv /\ Calm
  BY DEF IInv, OutcomeInv
<1>2. \A w \in Worker : ~Active(w) /\ pc[w] = "over"
  BY DEF IInv, OutcomeInv, Over, Active
<1>3. \A i \in Index : i < nextIndex => i \in results \cup errors
  BY <1>1, <1>2 DEF IInv, CalmInv
<1>4. results \subseteq Index /\ errors \subseteq Index /\ closed \subseteq Index
      /\ nextIndex \in 0..(Last + 1)
  BY <1>1 DEF TypeOK
<1>5. results = {i \in Index : child[i] = "passed"}
  BY <1>1, <1>3, <1>4 DEF CollectedInv
<1>6. errors = (0..(nextIndex - 1)) \ results
  <2>1. \A i \in 0..(nextIndex - 1) : i \in Index /\ i < nextIndex
    BY <1>4, SizesAssumption DEF Index
  <2>2. \A i \in errors : i \in 0..(nextIndex - 1) /\ i \notin results
    BY <1>1, <1>4, SizesAssumption DEF CollectedInv, Index
  <2> QED
    BY <1>3, <2>1, <2>2
<1>7. nextIndex <= Last => errors # {} /\ config.stops
  <2>1. pc[1] = "over"
    BY <1>2, SizesAssumption DEF Worker
  <2> QED
    BY <1>1, <1>4, <2>1, SizesAssumption DEF IInv, CalmInv
<1>8. closed = {i \in Index : child[i] # "none"}
  BY <1>1, <1>3, <1>4 DEF CollectedInv, TypeOK
<1> QED
  BY <1>5, <1>6, <1>7, <1>8

LEMMA Nothing == IInv => NothingOutlives
<1> SUFFICES ASSUME IInv, outcome \in {"outputs", "cancelled"}, NEW i \in Index, child[i] # "none"
             PROVE  i \in closed \cup cancelled
  BY DEF NothingOutlives
<1>1. NoFailure /\ \A w \in Worker : ~InFrame(w)
  BY DEF IInv, OutcomeInv, Calm, Over, InFrame
<1> QED
  BY <1>1 DEF IInv, FrameInv

\* Whatever the order in which the workers claim and finish items, the loop
\* emits results and errors that account for every iteration it started
\* (FlowRun._run_loop).
THEOREM CompleteAlways == Spec => []OutputsAreComplete
BY InvariantAlways, Complete, PTL

\* A loop that has emitted or was cancelled has no iteration left that is
\* neither finished nor cancelled (FlowRun._run_child, asyncio.TaskGroup).
THEOREM NothingOutlivesAlways == Spec => []NothingOutlives
BY InvariantAlways, Nothing, PTL
=============================================================================
