----------------------------- MODULE LiveContract -----------------------------
(* What a viewer of a run is promised, without leases, queues or a registry:
   the records of the run's log from the first one on, each once and in order,
   and a normal close only when it has all of them.  A viewer may be cut off at
   any time; then it knows that it has been. *)
EXTENDS Naturals, Sequences

CONSTANTS Run, Conn

VARIABLES length, ended, of, got, verdict

vars == <<length, ended, of, got, verdict>>

Init ==
  /\ length = [r \in Run |-> 0]
  /\ ended = {}
  /\ of = [c \in Conn |-> 0]
  /\ got = [c \in Conn |-> <<>>]
  /\ verdict = [c \in Conn |-> "none"]

Grow(r) ==
  /\ r \notin ended
  /\ length' = [length EXCEPT ![r] = @ + 1]
  /\ UNCHANGED <<ended, of, got, verdict>>

End(r) ==
  /\ ended' = ended \union {r}
  /\ UNCHANGED <<length, of, got, verdict>>

Open(c, r) ==
  /\ verdict[c] = "none"
  /\ verdict' = [verdict EXCEPT ![c] = "open"]
  /\ of' = [of EXCEPT ![c] = r]
  /\ UNCHANGED <<length, ended, got>>

Receive(c) ==
  /\ verdict[c] = "open"
  /\ Len(got[c]) < length[of[c]]
  /\ got' = [got EXCEPT ![c] = Append(@, Len(@) + 1)]
  /\ verdict' \in {verdict, [verdict EXCEPT ![c] = "complete"]}
  /\ verdict'[c] = "complete" => of[c] \in ended /\ Len(got[c]) + 1 = length[of[c]]
  /\ UNCHANGED <<length, ended, of>>

Complete(c) ==
  /\ verdict[c] = "open"
  /\ of[c] \in ended
  /\ Len(got[c]) = length[of[c]]
  /\ verdict' = [verdict EXCEPT ![c] = "complete"]
  /\ UNCHANGED <<length, ended, of, got>>

Cut(c) ==
  /\ verdict[c] = "open"
  /\ verdict' = [verdict EXCEPT ![c] = "cut"]
  /\ UNCHANGED <<length, ended, of, got>>

Next ==
  \/ \E r \in Run : Grow(r) \/ End(r)
  \/ \E c \in Conn : Receive(c) \/ Complete(c) \/ Cut(c)
  \/ \E c \in Conn, r \in Run : Open(c, r)

Spec == Init /\ [][Next]_vars
================================================================================
