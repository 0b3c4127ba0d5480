------------------------------ MODULE RunContract ------------------------------
(***************************************************************************)
(* What a run promises to whoever started it, without frames, tasks or      *)
(* queues: a run has work outstanding or not, it stops pumping once, and    *)
(* how it stopped decides which states it may report.                       *)
(***************************************************************************)
CONSTANT Stopped,   \* the states reported by a run that was stopped early
         Settled    \* the states reported by a run that ran dry

VARIABLES busy,     \* a message is queued or a firing is unfinished
          phase,    \* new, pumping, quiet (ran dry) or halted (stopped early)
          outcome   \* the reported state, "none" until the run is finalized

TypeOK ==
  /\ busy \in BOOLEAN
  /\ phase \in {"new", "pumping", "quiet", "halted"}
  /\ outcome \in {"none"} \cup Stopped \cup Settled

Init ==
  /\ busy = FALSE
  /\ phase = "new"
  /\ outcome = "none"

\* Sources are seeded; a run may also stop right here.
Start ==
  /\ phase = "new"
  /\ \/ phase' = "pumping" /\ busy' = TRUE
     \/ phase' = "quiet" /\ busy' = FALSE
     \/ phase' = "halted" /\ busy' \in BOOLEAN
  /\ UNCHANGED outcome

\* Work may go on as long as there is some; it is never born from nothing.
Work ==
  /\ busy
  /\ busy' \in BOOLEAN
  /\ UNCHANGED <<phase, outcome>>

DeclareQuiet ==
  /\ phase = "pumping"
  /\ ~busy
  /\ phase' = "quiet"
  /\ UNCHANGED <<busy, outcome>>

\* An abort, a deadline, an exhausted budget, a cancellation.
Halt ==
  /\ phase = "pumping"
  /\ phase' = "halted"
  /\ UNCHANGED <<busy, outcome>>

Report ==
  /\ outcome = "none"
  /\ \/ phase = "quiet" /\ outcome' \in Settled
     \/ phase = "halted" /\ outcome' \in Stopped
  /\ UNCHANGED <<busy, phase>>

Next == Start \/ Work \/ DeclareQuiet \/ Halt \/ Report

vars == <<busy, phase, outcome>>

Spec == Init /\ [][Next]_vars
================================================================================
