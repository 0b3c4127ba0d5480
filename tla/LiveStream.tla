------------------------------ MODULE LiveStream ------------------------------
(* How the server shows runs to viewers (server/runs.py, and the WebSocket
   handler of server/app.py).  A run appends records to its log file and offers
   each to the bounded queues of its subscribers.  A viewer first reads the file
   up to a cutoff taken when it subscribed and then its queue; when the queue
   overflows it goes back to the file.  A filesystem lease keeps the log from
   being deleted while it is read, and a registry keeps the runs that can be
   asked for.

   An action is what one task does between two awaits.  A connection awaits a
   send, an item of its queue, or the sending of a close frame.  Runs are
   numbered in the order they are started. *)
EXTENDS Integers, Sequences, FiniteSets

CONSTANTS
  NumRuns,        \* runs the server starts
  Conn,           \* WebSocket connections, each an attempt of some viewer
  MaxSeq,         \* bound: records of one run
  QueueLimit,     \* SUBSCRIBER_QUEUE_LIMIT
  ReaderLimit,    \* SUBSCRIBERS_PER_RUN_LIMIT
  FinishedKept    \* FINISHED_KEPT

ASSUME LiveAssumption ==
  /\ NumRuns \in Nat /\ MaxSeq \in Nat /\ FinishedKept \in Nat
  /\ QueueLimit \in Nat \ {0}
  /\ ReaderLimit \in Nat \ {0}
  /\ IsFiniteSet(Conn)

Run == 1 .. NumRuns

VARIABLES
  phase,        \* phase[r]: "new", "running" or "finished"
  seq,          \* seq[r]: the last record in the log, and ActiveRun.last_seq
  registry,     \* keys of RunManager._runs
  onDisk,       \* runs whose log file is there
  leases,       \* leases[r]: reader markers of r in the history directory
  deferred,     \* deferred[r]: how many of them a timer of the server holds
  reserved,     \* reserved[r]: ActiveRun.resync_until is in the future
  readers,      \* readers[r]: ActiveRun.replay_readers
  subscribed,   \* connections whose subscriber is in ActiveRun.subscribers
  queue,        \* queue[c]: the items of its subscriber's queue
  stage,        \* stage[c]: what the connection awaits, or how it ended
  runOf,        \* runOf[c]: the run it shows, 0 before it is accepted
  source,       \* source[c]: the part of the handler that sends
  sending,      \* sending[c]: the record in its pending send
  last,         \* last[c]: last_sent
  through,      \* through[c]: through_seq
  got           \* got[c]: the records its viewer has received

runVars == <<phase, seq, registry, onDisk>>
leaseVars == <<leases, deferred, reserved, readers>>
placeVars == <<subscribed, queue>>
connVars == <<stage, runOf, source, sending, last, through, got>>
vars == <<runVars, leaseVars, placeVars, connVars>>

Record(n) == [kind |-> "record", seq |-> n]
END == [kind |-> "end", seq |-> 0]
RESYNC == [kind |-> "resync", seq |-> 0]
Item == {Record(n) : n \in 1 .. MaxSeq} \union {END, RESYNC}

(* "sending": send_text; "taking": queue.get; "slow" and "refused": the close
   frame, before the finally clause.  The other stages are final. *)
Open == {"sending", "taking", "slow", "refused"}
Source == {"none", "replay", "prefix", "queue"}

Finished(r) == phase[r] = "finished"
Subscribers(r) == {c \in subscribed : runOf[c] = r}
FullLate(r) ==                                 \* mutant: one too many
  Cardinality(Subscribers(r)) + readers[r] > ReaderLimit
Full(r) == Cardinality(Subscribers(r)) + readers[r] >= ReaderLimit

Init ==
  /\ phase = [r \in Run |-> "new"]
  /\ seq = [r \in Run |-> 0]
  /\ registry = {} /\ onDisk = {} /\ subscribed = {}
  /\ leases = [r \in Run |-> 0]
  /\ deferred = [r \in Run |-> 0]
  /\ reserved = [r \in Run |-> FALSE]
  /\ readers = [r \in Run |-> 0]
  /\ queue = [c \in Conn |-> <<>>]
  /\ stage = [c \in Conn |-> "away"]
  /\ runOf = [c \in Conn |-> 0]
  /\ source = [c \in Conn |-> "none"]
  /\ sending = [c \in Conn |-> 0]
  /\ last = [c \in Conn |-> 0]
  /\ through = [c \in Conn |-> 0]
  /\ got = [c \in Conn |-> <<>>]

--------------------------------------------------------------------------------
(* RunSubscriber.offer.  An overflowed queue holds the one signal until its
   handler takes it, and the handler replaces the queue in that very step. *)
OfferNewest(q, item) ==                        \* mutant: the oldest item makes room
  IF Len(q) < QueueLimit THEN Append(q, item) ELSE Append(Tail(q), item)
Offer(q, item) ==
  IF q = <<RESYNC>> THEN q
  ELSE IF Len(q) < QueueLimit THEN Append(q, item)
  ELSE <<RESYNC>>

(* The queue that resubscribe makes. *)
FreshQueueEndless(r) == <<>>                   \* mutant: the end was swallowed
FreshQueue(r) == IF Finished(r) THEN Offer(<<>>, END) ELSE <<>>

OfferAll(r, item) ==
  [c \in Conn |-> IF c \in Subscribers(r) THEN Offer(queue[c], item) ELSE queue[c]]

(* Runs that _trim may forget, and those that retention may delete: an ended
   run whose history nobody has a lease on. *)
IdleUnpromised ==                              \* mutant: reservations are ignored
  {r \in Run : Finished(r) /\ Subscribers(r) = {} /\ readers[r] = 0}
Idle == {r \in Run : Finished(r) /\ Subscribers(r) = {} /\ readers[r] = 0 /\ ~reserved[r]}
Expendable == {r \in Run : Finished(r) /\ leases[r] = 0}

(* _trim keeps the newest idle runs. *)
TrimmedLate(runs, idle) ==                     \* mutant: one idle run too many
  {r \in runs : r \in idle => Cardinality({s \in runs \intersect idle : s > r}) <= FinishedKept}
Trimmed(runs, idle) ==
  {r \in runs : r \in idle => Cardinality({s \in runs \intersect idle : s > r}) < FinishedKept}

(* Retention deletes some expendable histories, this server forgets them, and
   _trim follows.  Which ones is up to the directory: any number of them. *)
Tidies ==
  \E gone \in SUBSET (onDisk \intersect Expendable') :
    /\ onDisk' = onDisk \ gone
    /\ registry' = Trimmed(registry \ gone, Idle')

(* RunManager.start: the log exists before the run is registered. *)
Start(r) ==
  /\ phase[r] = "new"
  /\ \A s \in Run : s < r => phase[s] # "new"
  /\ phase' = [phase EXCEPT ![r] = "running"]
  /\ registry' = registry \union {r}
  /\ onDisk' = onDisk \union {r}
  /\ UNCHANGED <<seq, leaseVars, placeVars, connVars>>

(* EventStream.emit: the file first, then the live sink, without an await. *)
Emit(r) ==
  /\ phase[r] = "running"
  /\ seq[r] < MaxSeq
  /\ seq' = [seq EXCEPT ![r] = @ + 1]
  /\ queue' = OfferAll(r, Record(seq[r] + 1))
  /\ UNCHANGED <<phase, registry, onDisk, leaseVars, subscribed, connVars>>

(* The end of RunManager._drive, once execute() has returned or raised. *)
Finish(r) ==
  /\ phase[r] = "running"
  /\ phase' = [phase EXCEPT ![r] = "finished"]
  /\ queue' = OfferAll(r, END)
  /\ UNCHANGED <<seq, leaseVars, subscribed, connVars>>
  /\ Tidies

(* A history page or another run's replay in this server gives its lease back,
   and retention follows. *)
TidiesUp == UNCHANGED <<phase, seq, leaseVars, placeVars, connVars>> /\ Tidies

(* Another process applies retention to the same directory. *)
RetainedElsewhere ==
  /\ \E gone \in SUBSET (onDisk \intersect Expendable) \ {{}} : onDisk' = onDisk \ gone
  /\ UNCHANGED <<phase, seq, registry, leaseVars, placeVars, connVars>>

--------------------------------------------------------------------------------
(* The handler takes its lease right after it has found the run registered, and
   then its place; nothing is awaited until the first send. *)
Accepted(c, r) ==
  /\ stage[c] = "away"
  /\ r \in registry /\ r \in onDisk
  /\ runOf' = [runOf EXCEPT ![c] = r]
  /\ leases' = [leases EXCEPT ![r] = @ + 1]
  /\ UNCHANGED <<runVars, deferred, reserved, queue, last, got>>

(* _send_history_range begins: the first record after `from`, if there is one
   up to the cutoff. *)
Reads(c, from, cutoff, part) ==
  /\ source' = [source EXCEPT ![c] = part]
  /\ through' = [through EXCEPT ![c] = cutoff]
  /\ stage' = [stage EXCEPT ![c] = IF from < cutoff THEN "sending" ELSE "taking"]
  /\ sending' = [sending EXCEPT ![c] = IF from < cutoff THEN from + 1 ELSE @]

Subscribes(c, r) ==
  /\ Accepted(c, r) /\ ~Finished(r) /\ ~Full(r)
  /\ subscribed' = subscribed \union {c}
  /\ Reads(c, 0, seq[r], "prefix")
  /\ UNCHANGED readers

Replays(c, r) ==
  /\ Accepted(c, r) /\ Finished(r) /\ ~Full(r)
  /\ seq[r] > 0
  /\ readers' = [readers EXCEPT ![r] = @ + 1]
  /\ Reads(c, 0, seq[r], "replay")
  /\ UNCHANGED subscribed

(* The log of a run that ended before its first record has no envelope. *)
ReplaysNothing(c, r) ==
  /\ Accepted(c, r) /\ Finished(r) /\ ~Full(r)
  /\ seq[r] = 0
  /\ readers' = [readers EXCEPT ![r] = @ + 1]
  /\ source' = [source EXCEPT ![c] = "replay"]
  /\ stage' = [stage EXCEPT ![c] = "refused"]
  /\ UNCHANGED <<subscribed, sending, through>>

IsRefused(c, r) ==
  /\ Accepted(c, r) /\ Full(r)
  /\ stage' = [stage EXCEPT ![c] = "refused"]
  /\ UNCHANGED <<readers, subscribed, source, sending, through>>

--------------------------------------------------------------------------------
(* The finally clause: the pin or the subscription, and then the lease unless
   a timer has it. *)
Leaves(c, end) ==
  /\ stage' = [stage EXCEPT ![c] = end]
  /\ subscribed' = subscribed \ {c}
  /\ queue' = [queue EXCEPT ![c] = <<>>]
  /\ readers' = IF source[c] = "replay"
                THEN [readers EXCEPT ![runOf[c]] = IF @ > 0 THEN @ - 1 ELSE 0]
                ELSE readers

GivesLeaseBack(r) ==
  /\ leases' = [leases EXCEPT ![r] = @ - 1]
  /\ Tidies

Ends(c, end) ==
  /\ Leaves(c, end)
  /\ UNCHANGED <<phase, seq, deferred, reserved, runOf>>
  /\ GivesLeaseBack(runOf[c])

Received(c) ==
  /\ got' = [got EXCEPT ![c] = Append(@, sending[c])]
  /\ last' = [last EXCEPT ![c] = sending[c]]

(* A send returned in time, and the range or the queue goes on. *)
SendsOn(c) ==
  /\ stage[c] = "sending"
  /\ source[c] = "queue" \/ source[c] = "prefix" \/ sending[c] < through[c]
  /\ Received(c)
  /\ IF source[c] = "queue"
     THEN stage' = [stage EXCEPT ![c] = "taking"] /\ UNCHANGED <<source, through, sending>>
     ELSE Reads(c, sending[c], through[c], source[c])
  /\ UNCHANGED <<runVars, leaseVars, placeVars, runOf>>

(* The last record of a finished run: the handler closes with 1000. *)
ReplayEnds(c) ==
  /\ stage[c] = "sending"
  /\ source[c] = "replay" /\ sending[c] >= through[c]
  /\ Received(c)
  /\ UNCHANGED <<source, sending, through>>
  /\ Ends(c, "complete")

(* An item of the queue.  Numbers up to last_sent are passed over. *)
TakesRecord(c) ==
  /\ stage[c] = "taking"
  /\ queue[c] # <<>> /\ Head(queue[c]).kind = "record"
  /\ queue' = [queue EXCEPT ![c] = Tail(@)]
  /\ IF Head(queue[c]).seq > last[c]
     THEN /\ stage' = [stage EXCEPT ![c] = "sending"]
          /\ source' = [source EXCEPT ![c] = "queue"]
          /\ sending' = [sending EXCEPT ![c] = Head(queue[c]).seq]
     ELSE UNCHANGED <<stage, source, sending>>
  /\ UNCHANGED <<runVars, leaseVars, subscribed, runOf, last, through, got>>

TakesEnd(c) ==
  /\ stage[c] = "taking"
  /\ queue[c] # <<>> /\ Head(queue[c]) = END
  /\ Ends(c, "complete")
  /\ UNCHANGED <<source, sending, last, through, got>>

(* resubscribe: a new queue and a new cutoff, and the end of a run that has
   ended, which the overflowed queue did not take any more. *)
TakesResync(c) ==
  /\ stage[c] = "taking"
  /\ queue[c] # <<>> /\ Head(queue[c]) = RESYNC
  /\ queue' = [queue EXCEPT ![c] = FreshQueue(runOf[c])]
  /\ subscribed' = subscribed \union {c}
  /\ Reads(c, last[c], seq[runOf[c]], "prefix")
  /\ UNCHANGED <<runVars, leaseVars, runOf, last, got>>

(* A send took longer than its ceiling; the viewer may have the record or not.
   The run is held for a reconnection and the lease passes to a timer. *)
SendTimesOut(c) ==
  /\ stage[c] = "sending"
  /\ \E delivered \in BOOLEAN :
       got' = [got EXCEPT ![c] = IF delivered THEN Append(@, sending[c]) ELSE @]
  /\ stage' = [stage EXCEPT ![c] = "slow"]
  /\ reserved' = [reserved EXCEPT ![runOf[c]] = TRUE]
  /\ deferred' = [deferred EXCEPT ![runOf[c]] = @ + 1]
  /\ UNCHANGED <<runVars, leases, readers, placeVars, runOf, source, sending, last, through>>

(* The close frame of a slow connection is out, or given up. *)
SlowLeavesTwice(c) ==                          \* mutant: the finally clause forgets the timer
  /\ stage[c] = "slow"
  /\ Ends(c, "cut")
  /\ UNCHANGED <<source, sending, last, through, got>>
SlowLeaves(c) ==
  /\ stage[c] = "slow"
  /\ Leaves(c, "cut")
  /\ UNCHANGED <<runVars, leases, deferred, reserved, runOf, source, sending, last, through, got>>

(* So is that of a refused one. *)
RefusedLeaves(c) ==
  /\ stage[c] = "refused"
  /\ Ends(c, "cut")
  /\ UNCHANGED <<source, sending, last, through, got>>

(* The viewer has gone, or the handler was cancelled: an exception out of an
   await of the try block. *)
IsCutOff(c) ==
  /\ stage[c] \in {"sending", "taking"}
  /\ Ends(c, "cut")
  /\ UNCHANGED <<source, sending, last, through, got>>

(* Time passes, and a deferred release fires.  Each timer was set with the
   reservation it belongs to, so the last one fires after all have lapsed; both
   wait RESYNC_LEASE_S, five times the ceiling of the close frame. *)
Closing(r) == {c \in Conn : stage[c] = "slow" /\ runOf[c] = r}

ReservationLapses(r) ==
  /\ reserved[r] /\ Closing(r) = {}
  /\ reserved' = [reserved EXCEPT ![r] = FALSE]
  /\ UNCHANGED <<runVars, leases, deferred, readers, placeVars, connVars>>

TimerReleases(r) ==
  /\ deferred[r] > Cardinality(Closing(r))
  /\ deferred[r] = 1 => ~reserved[r]
  /\ deferred' = [deferred EXCEPT ![r] = @ - 1]
  /\ UNCHANGED <<phase, seq, reserved, readers, placeVars, connVars>>
  /\ GivesLeaseBack(r)

--------------------------------------------------------------------------------
Connects(c) == \E r \in Run : Subscribes(c, r) \/ Replays(c, r) \/ ReplaysNothing(c, r) \/ IsRefused(c, r)

Goes(c) ==
  \/ SendsOn(c) \/ ReplayEnds(c) \/ SendTimesOut(c)
  \/ TakesRecord(c) \/ TakesEnd(c) \/ TakesResync(c)
  \/ SlowLeaves(c) \/ RefusedLeaves(c)

Next ==
  \/ \E r \in Run : Start(r) \/ Emit(r) \/ Finish(r) \/ ReservationLapses(r) \/ TimerReleases(r)
  \/ \E c \in Conn : Connects(c) \/ Goes(c) \/ IsCutOff(c)
  \/ TidiesUp \/ RetainedElsewhere

Spec == Init /\ [][Next]_vars

(* Sends and close frames have ceilings, the event loop runs what is ready,
   timers fire, and a run ends (RunCore!Terminates). *)
Fairness ==
  /\ \A r \in Run : WF_vars(Finish(r)) /\ WF_vars(ReservationLapses(r)) /\ WF_vars(TimerReleases(r))
  /\ \A c \in Conn : WF_vars(Goes(c))

FairSpec == Spec /\ Fairness

--------------------------------------------------------------------------------
(* Types; the bounded queue of a subscriber never exceeds its limit. *)
TypeOK ==
  /\ phase \in [Run -> {"new", "running", "finished"}]
  /\ seq \in [Run -> 0 .. MaxSeq]
  /\ registry \subseteq Run /\ onDisk \subseteq Run /\ subscribed \subseteq Conn
  /\ leases \in [Run -> Nat] /\ deferred \in [Run -> Nat] /\ readers \in [Run -> Nat]
  /\ reserved \in [Run -> BOOLEAN]
  /\ queue \in [Conn -> Seq(Item)]
  /\ \A c \in Conn : Len(queue[c]) <= QueueLimit
  /\ stage \in [Conn -> Open \union {"away", "complete", "cut"}]
  /\ runOf \in [Conn -> 0 .. NumRuns]
  /\ source \in [Conn -> Source]
  /\ sending \in [Conn -> 0 .. MaxSeq]
  /\ last \in [Conn -> 0 .. MaxSeq]
  /\ through \in [Conn -> 0 .. MaxSeq]
  /\ got \in [Conn -> Seq(1 .. MaxSeq)]

(* Wherever the handler is, file range, queue, overflow, resync, a viewer has
   the records 1, 2, 3 ... of the log, each once and in order, and it is closed
   normally only when the run has ended and it has them all. *)
Verdict(c) ==
  IF stage[c] = "away" THEN "none" ELSE IF stage[c] \in Open THEN "open" ELSE stage[c]

Contract == INSTANCE LiveContract WITH
  length <- seq, ended <- {r \in Run : Finished(r)}, of <- runOf,
  verdict <- [c \in Conn |-> Verdict(c)]

DeliversTheLog == Contract!Spec

(* The lease markers of a run are those of its connections and of the timers:
   none is dropped under a reader and none is left behind to keep a history
   for ever.  So the log is there for whoever reads it. *)
HasLease(c, r) == stage[c] \in Open \ {"slow"} /\ runOf[c] = r

LeasesAreExact ==
  \A r \in Run :
    /\ leases[r] = Cardinality({c \in Conn : HasLease(c, r)}) + deferred[r]
    /\ leases[r] > 0 => r \in onDisk

(* A viewer that was told to come back (close code 4410) finds the run
   registered and its log on disk for as long as the server promised. *)
ResyncIsPossible == \A r \in Run : reserved[r] => r \in registry /\ r \in onDisk

(* The places taken at a run are its live subscribers and its replays, also
   while they close, and never more than the limit. *)
PlacesAreExact ==
  \A r \in Run :
    /\ readers[r] = Cardinality({c \in Conn : stage[c] \in Open /\ source[c] = "replay" /\ runOf[c] = r})
    /\ Subscribers(r) = {c \in Conn : stage[c] \in Open /\ source[c] \in {"prefix", "queue"} /\ runOf[c] = r}
    /\ Cardinality(Subscribers(r)) + readers[r] <= ReaderLimit

(* The registry has every running run, and of the finished ones that nobody
   uses or was promised no more than FINISHED_KEPT. *)
RegistryIsBounded ==
  /\ {r \in Run : phase[r] = "running"} \subseteq registry
  /\ Cardinality({r \in registry \intersect Idle : deferred[r] = 0}) <= FinishedKept

(* A connection never hangs: the end of the run reaches it although its queue
   may overflow at any moment, and the lease it had is given back. *)
ViewersAreReleased ==
  /\ \A c \in Conn : stage[c] \in Open ~> stage[c] \in {"complete", "cut"}
  /\ \A r \in Run : leases[r] > 0 ~> leases[r] = 0
================================================================================
