--------------------------- MODULE LiveStreamProofs ---------------------------
(* The results about LiveStream, for any number of runs, connections and records
   and any of its limits, in three parts:
     - what a viewer receives is the log (LiveStream implements LiveContract);
     - leases, places and reservations are exact;
     - the registry has every running run and few others.
   Each part uses the invariant of the part before it. *)
EXTENDS LiveStream, TLAPS, SequenceTheorems, FiniteSetTheorems, WellFoundedInduction

--------------------------------------------------------------------------------
(* Part 1.  What a viewer receives is the log. *)

Sent == {Record(n) : n \in Nat} \union {END, RESYNC}

(* The part of TypeOK that delivery depends on. *)
SeamTypes ==
  /\ phase \in [Run -> {"new", "running", "finished"}]
  /\ seq \in [Run -> Nat]
  /\ subscribed \subseteq Conn
  /\ queue \in [Conn -> Seq(Sent)]
  /\ stage \in [Conn -> Open \union {"away", "complete", "cut"}]
  /\ runOf \in [Conn -> Nat]
  /\ source \in [Conn -> Source]
  /\ sending \in [Conn -> Nat]
  /\ last \in [Conn -> Nat]
  /\ through \in [Conn -> Nat]
  /\ got \in [Conn -> Seq(Nat)]

(* The queue of a subscriber that has, or is about to have, the records up to
   `base` of a log that ends at `top`: every later record and nothing else, or
   the signal that it is none of them any more.  `ends` is 1 when the end of the
   run has been offered, and 0 before. *)
QueueFrom(q, base, top, ends) ==
  /\ base <= top
  /\ \/ q = <<RESYNC>>
     \/ /\ Len(q) = (top - base) + ends
        /\ \A i \in 1 .. (top - base) : q[i] = Record(base + i)
        /\ ends = 1 => q[Len(q)] = END

Ended(r) == IF Finished(r) THEN 1 ELSE 0

Base(c) == IF source[c] = "prefix" THEN through[c] ELSE sending[c]

(* A connection between the file and its queue. *)
Seam(c) ==
  /\ stage[c] = "away" =>
       got[c] = <<>> /\ last[c] = 0 /\ queue[c] = <<>> /\ c \notin subscribed
  /\ stage[c] \in Open => runOf[c] \in Run
  /\ stage[c] \in {"sending", "taking"} =>
       /\ Len(got[c]) = last[c]
       /\ source[c] # "none"
       /\ source[c] # "replay" => c \in subscribed
  /\ stage[c] = "sending" =>
       /\ sending[c] = last[c] + 1
       /\ sending[c] <= seq[runOf[c]]
       /\ source[c] # "queue" => sending[c] <= through[c] /\ through[c] <= seq[runOf[c]]
       /\ source[c] = "replay" => Finished(runOf[c]) /\ through[c] = seq[runOf[c]]
       /\ source[c] # "replay" =>
            QueueFrom(queue[c], Base(c), seq[runOf[c]], Ended(runOf[c]))
  /\ stage[c] = "taking" =>
       /\ source[c] # "replay"
       /\ QueueFrom(queue[c], last[c], seq[runOf[c]], Ended(runOf[c]))

SeamInv == SeamTypes /\ \A c \in Conn : Seam(c)

--------------------------------------------------------------------------------
(* Items can be told apart. *)
LEMMA Items ==
  /\ END # RESYNC
  /\ \A n \in Nat : /\ Record(n) # END /\ Record(n) # RESYNC
                    /\ Record(n).kind = "record" /\ Record(n).seq = n
                    /\ Record(n) \in Sent
  /\ END \in Sent /\ RESYNC \in Sent
  /\ END.kind # "record" /\ RESYNC.kind # "record"
  BY DEF Record, END, RESYNC, Sent

(* A record appended to the log arrives behind the others, or the queue turns
   into the signal. *)
LEMMA OffersRecord ==
  ASSUME NEW q \in Seq(Sent), NEW base \in Nat, NEW top \in Nat,
         QueueFrom(q, base, top, 0)
  PROVE  /\ QueueFrom(Offer(q, Record(top + 1)), base, top + 1, 0)
         /\ Offer(q, Record(top + 1)) \in Seq(Sent)
<1>1. Record(top + 1) \in Sent /\ RESYNC \in Sent
  BY Items
<1> HIDE DEF Record, RESYNC, Sent, END
<1>2. Offer(q, Record(top + 1)) \in Seq(Sent)
  BY <1>1 DEF Offer
<1>3. CASE q = <<RESYNC>> \/ ~(Len(q) < QueueLimit)
  BY <1>2, <1>3 DEF Offer, QueueFrom
<1>4. CASE q # <<RESYNC>> /\ Len(q) < QueueLimit
  <2> DEFINE p == Append(q, Record(top + 1))
  <2>1. Offer(q, Record(top + 1)) = p
    BY <1>4 DEF Offer
  <2>2. base <= top /\ Len(q) = top - base /\ \A i \in 1 .. (top - base) : q[i] = Record(base + i)
    BY <1>4 DEF QueueFrom
  <2>3. Len(p) = (top + 1) - base
    BY <1>1, <2>2
  <2>4. \A i \in 1 .. ((top + 1) - base) : p[i] = Record(base + i)
    <3> TAKE i \in 1 .. ((top + 1) - base)
    <3>1. CASE i <= Len(q)
      <4>1. p[i] = q[i]
        BY <1>1, <2>2, <3>1
      <4> QED BY <2>2, <3>1, <4>1
    <3>2. CASE i = Len(q) + 1
      <4>1. p[i] = Record(top + 1)
        BY <1>1, <3>2
      <4>2. base + i = top + 1
        BY <2>2, <3>2
      <4> QED BY <4>1, <4>2
    <3> QED BY <2>2, <3>1, <3>2
  <2> HIDE DEF p
  <2> QED BY <1>2, <2>1, <2>2, <2>3, <2>4 DEF QueueFrom
<1> QED BY <1>2, <1>3, <1>4

(* So does the end of the run. *)
LEMMA OffersEnd ==
  ASSUME NEW q \in Seq(Sent), NEW base \in Nat, NEW top \in Nat,
         QueueFrom(q, base, top, 0)
  PROVE  /\ QueueFrom(Offer(q, END), base, top, 1)
         /\ Offer(q, END) \in Seq(Sent)
<1>1. END \in Sent /\ RESYNC \in Sent
  BY Items
<1> HIDE DEF Record, RESYNC, Sent, END
<1>2. Offer(q, END) \in Seq(Sent)
  BY <1>1 DEF Offer
<1>3. CASE q = <<RESYNC>> \/ ~(Len(q) < QueueLimit)
  BY <1>2, <1>3 DEF Offer, QueueFrom
<1>4. CASE q # <<RESYNC>> /\ Len(q) < QueueLimit
  <2> DEFINE p == Append(q, END)
  <2>1. Offer(q, END) = p
    BY <1>4 DEF Offer
  <2>2. base <= top /\ Len(q) = top - base /\ \A i \in 1 .. (top - base) : q[i] = Record(base + i)
    BY <1>4 DEF QueueFrom
  <2>3. Len(p) = (top - base) + 1 /\ p[Len(p)] = END
    BY <1>1, <2>2
  <2>4. \A i \in 1 .. (top - base) : p[i] = Record(base + i)
    BY <1>1, <2>2
  <2> HIDE DEF p
  <2> QED BY <1>2, <2>1, <2>2, <2>3, <2>4 DEF QueueFrom
<1> QED BY <1>2, <1>3, <1>4

(* The first record of a queue is the next one, and the rest goes on from it. *)
LEMMA TakesNext ==
  ASSUME NEW q \in Seq(Sent), NEW base \in Nat, NEW top \in Nat, NEW ends \in {0, 1},
         QueueFrom(q, base, top, ends), q # <<>>, Head(q).kind = "record"
  PROVE  /\ Head(q).seq = base + 1 /\ base + 1 <= top
         /\ QueueFrom(Tail(q), base + 1, top, ends)
<1>1. Head(q) # END /\ Head(q) # RESYNC
  BY Items
<1>2. \A n \in Nat : Record(n).seq = n
  BY Items
<1> HIDE DEF Record, RESYNC, Sent, END
<1>3. q # <<RESYNC>>
  BY <1>1
<1>4. Head(q) = q[1] /\ Len(q) > 0
  OBVIOUS
<1>5. base <= top /\ Len(q) = (top - base) + ends
      /\ (ends = 1 => q[Len(q)] = END)
  BY <1>3 DEF QueueFrom
<1>6. \A i \in 1 .. (top - base) : q[i] = Record(base + i)
  BY <1>3 DEF QueueFrom
<1>7. top - base > 0
  BY <1>1, <1>4, <1>5
<1>8. q[1] = Record(base + 1)
  BY <1>6, <1>7
<1>9. Len(Tail(q)) = Len(q) - 1 /\ \A i \in 1 .. Len(q) - 1 : Tail(q)[i] = q[i + 1]
  BY <1>4
<1>10. \A i \in 1 .. (top - (base + 1)) : Tail(q)[i] = Record((base + 1) + i)
  <2> TAKE i \in 1 .. (top - (base + 1))
  <2>1. Tail(q)[i] = q[i + 1]
    BY <1>5, <1>9
  <2>2. q[i + 1] = Record(base + (i + 1))
    BY <1>6, <1>7
  <2>3. base + (i + 1) = (base + 1) + i
    OBVIOUS
  <2> QED BY <2>1, <2>2, <2>3
<1>11. ends = 1 => Tail(q)[Len(Tail(q))] = END
  BY <1>5, <1>7, <1>9
<1>12. Len(Tail(q)) = (top - (base + 1)) + ends
  BY <1>5, <1>9
<1>13. Head(q).seq = base + 1
  BY <1>2, <1>4, <1>8
<1> QED BY <1>7, <1>10, <1>11, <1>12, <1>13, SMTT(30) DEF QueueFrom

(* The end is first only when the run has ended and nothing is left. *)
LEMMA TakesLast ==
  ASSUME NEW q \in Seq(Sent), NEW base \in Nat, NEW top \in Nat, NEW ends \in {0, 1},
         QueueFrom(q, base, top, ends), q # <<>>, Head(q) = END
  PROVE  ends = 1 /\ base = top
<1>1. END # RESYNC /\ \A n \in Nat : Record(n) # END
  BY Items
<1> HIDE DEF Record, RESYNC, Sent, END
<1>2. q # <<RESYNC>>
  BY <1>1
<1>3. Head(q) = q[1] /\ Len(q) > 0
  OBVIOUS
<1>4. base <= top /\ Len(q) = (top - base) + ends
  BY <1>2 DEF QueueFrom
<1>5. \A i \in 1 .. (top - base) : q[i] = Record(base + i)
  BY <1>2 DEF QueueFrom
<1>6. CASE base < top
  BY <1>1, <1>3, <1>5, <1>6
<1>7. CASE base = top
  BY <1>3, <1>4, <1>7
<1> QED BY <1>4, <1>6, <1>7

(* An empty queue, with the end behind it once the run has ended, carries on
   from the cutoff at which it is made. *)
LEMMA StartsHere ==
  ASSUME NEW top \in Nat
  PROVE  /\ QueueFrom(<<>>, top, top, 0)
         /\ QueueFrom(Offer(<<>>, END), top, top, 1)
         /\ Offer(<<>>, END) \in Seq(Sent)
<1>1. QueueFrom(<<>>, top, top, 0)
  BY DEF QueueFrom
<1>2. <<>> \in Seq(Sent)
  OBVIOUS
<1> QED BY <1>1, <1>2, OffersEnd
--------------------------------------------------------------------------------
(* What the seam of one connection depends on. *)
LEMMA SeamFrame ==
  ASSUME NEW c \in Conn, Seam(c),
         stage'[c] = stage[c], runOf'[c] = runOf[c], source'[c] = source[c],
         sending'[c] = sending[c], last'[c] = last[c], through'[c] = through[c],
         got'[c] = got[c], queue'[c] = queue[c], c \in subscribed' <=> c \in subscribed,
         seq' = seq, \A s \in Run : Finished(s)' <=> Finished(s)
  PROVE  Seam(c)'
<1>1. Base(c)' = Base(c)
  BY DEF Base
<1>2. \A s \in Run : Ended(s)' = Ended(s)
  BY DEF Ended
<1> QED BY <1>1, <1>2 DEF Seam, Open

(* A connection that is closed, or is closing, has no seam any more. *)
LEMMA SeamOver ==
  ASSUME NEW c \in Conn, stage'[c] \in {"slow", "refused", "complete", "cut"},
         stage'[c] \in Open => runOf'[c] \in Run
  PROVE  Seam(c)'
  BY DEF Seam

LEMMA SeamInit == Init => SeamInv
<1> SUFFICES ASSUME Init PROVE SeamInv
  OBVIOUS
<1>1. SeamTypes
  BY DEF Init, SeamTypes, Open, Source
<1>2. \A c \in Conn : Seam(c)
  BY DEF Init, Seam, Open
<1> QED BY <1>1, <1>2 DEF SeamInv

(* The clause that ends a handler. *)
LEMMA SeamEnds ==
  ASSUME SeamInv, NEW c \in Conn, NEW end \in {"complete", "cut"}, stage[c] \in Open,
         Leaves(c, end), seq' = seq, phase' = phase, runOf' = runOf,
         UNCHANGED <<source, sending, through>>,
         last' \in [Conn -> Nat], got' \in [Conn -> Seq(Nat)],
         \A d \in Conn \ {c} : last'[d] = last[d] /\ got'[d] = got[d]
  PROVE  SeamInv'
<1>1. SeamTypes /\ \A d \in Conn : Seam(d)
  BY DEF SeamInv
<1>2. <<>> \in Seq(Sent)
  OBVIOUS
<1>3. SeamTypes'
  BY <1>1, <1>2 DEF SeamTypes, Leaves
<1>4. ASSUME NEW d \in Conn, d # c PROVE Seam(d)'
  <2>1. /\ stage'[d] = stage[d] /\ queue'[d] = queue[d]
        /\ d \in subscribed' <=> d \in subscribed
    BY <1>1, <1>4 DEF SeamTypes, Leaves
  <2>2. Seam(d)
    BY <1>1
  <2>3. \A s \in Run : Finished(s)' <=> Finished(s)
    BY DEF Finished
  <2> QED BY <1>4, <2>1, <2>2, <2>3, SeamFrame
<1>5. Seam(c)'
  <2>1. stage'[c] = end
    BY <1>1 DEF SeamTypes, Leaves
  <2>2. end \notin Open
    BY DEF Open
  <2> QED BY <2>1, <2>2, SeamOver
<1> QED BY <1>3, <1>4, <1>5 DEF SeamInv

(* Records and the end of a run, seen by every connection. *)
LEMMA SeamEmit ==
  ASSUME SeamInv, NEW r \in Run, Emit(r)
  PROVE  SeamInv'
<1>1. SeamTypes /\ \A d \in Conn : Seam(d)
  BY DEF SeamInv
<1>2. /\ phase' = phase /\ phase[r] = "running" /\ seq' = [seq EXCEPT ![r] = @ + 1]
      /\ queue' = OfferAll(r, Record(seq[r] + 1))
      /\ UNCHANGED <<subscribed, stage, runOf, source, sending, last, through, got>>
  BY DEF Emit, connVars
<1>3. seq \in [Run -> Nat] /\ seq' \in [Run -> Nat] /\ seq[r] \in Nat
  BY <1>1, <1>2 DEF SeamTypes
<1>4. \A d \in Conn : queue'[d] = IF d \in Subscribers(r)
                                   THEN Offer(queue[d], Record(seq[r] + 1)) ELSE queue[d]
  BY <1>2 DEF OfferAll
<1>5. \A d \in Conn : queue[d] \in Seq(Sent)
  BY <1>1 DEF SeamTypes
<1>6. Record(seq[r] + 1) \in Sent /\ RESYNC \in Sent
  BY <1>3, Items
<1>7. \A d \in Conn : queue'[d] \in Seq(Sent)
  <2> TAKE d \in Conn
  <2> HIDE DEF Record, RESYNC, Sent
  <2>1. Offer(queue[d], Record(seq[r] + 1)) \in Seq(Sent)
    BY <1>5, <1>6 DEF Offer
  <2> QED BY <1>4, <1>5, <2>1
<1>8. queue' \in [Conn -> Seq(Sent)]
  BY <1>2, <1>7 DEF OfferAll
<1>9. SeamTypes'
  BY <1>1, <1>2, <1>3, <1>8 DEF SeamTypes
<1>10. ASSUME NEW d \in Conn PROVE Seam(d)'
  <2>1. Seam(d)
    BY <1>1
  <2>2. CASE runOf[d] # r \/ stage[d] \notin Open
    <3>1. seq'[runOf[d]] = seq[runOf[d]] \/ stage[d] \notin Open
      BY <1>3, <1>2, <2>1, <2>2 DEF Seam
    <3>2. d \in Subscribers(r) => stage[d] # "away" /\ stage[d] \notin Open
      BY <2>1, <2>2 DEF Subscribers, Seam
    <3>3. queue'[d] = queue[d] \/ (stage[d] # "away" /\ stage[d] \notin Open)
      BY <1>4, <3>2
    <3> QED BY <1>2, <2>1, <3>1, <3>3 DEF Seam, Finished, Ended, Base, Open
  <2>3. CASE runOf[d] = r /\ stage[d] \in Open
    <3>1. seq'[runOf[d]] = seq[r] + 1 /\ Ended(runOf[d]) = 0 /\ Ended(runOf[d])' = 0
          /\ ~Finished(runOf[d])
      BY <1>2, <1>3, <2>3 DEF Finished, Ended
    <3>2. d \in subscribed => d \in Subscribers(r)
      BY <2>3 DEF Subscribers
    <3>3. ASSUME NEW base \in Nat, d \in subscribed, QueueFrom(queue[d], base, seq[r], 0)
          PROVE  QueueFrom(queue'[d], base, seq[r] + 1, 0)
      <4>1. QueueFrom(Offer(queue[d], Record(seq[r] + 1)), base, seq[r] + 1, 0)
        BY <1>3, <1>5, <3>3, OffersRecord
      <4> QED BY <1>4, <3>2, <3>3, <4>1
    <3>4. last[d] \in Nat /\ sending[d] \in Nat /\ through[d] \in Nat /\ Base(d) \in Nat
          /\ source[d] \in Source /\ Base(d)' = Base(d)
      BY <1>1, <1>2 DEF SeamTypes, Base
    <3>5. CASE stage[d] = "sending"
      <4>1. source[d] # "replay"
        BY <2>1, <2>3, <3>1, <3>5 DEF Seam
      <4>2. QueueFrom(queue[d], Base(d), seq[r], 0)
        BY <2>1, <2>3, <3>1, <3>5, <4>1 DEF Seam
      <4>3. QueueFrom(queue'[d], Base(d), seq[r] + 1, 0)
        BY <2>1, <3>3, <3>4, <3>5, <4>1, <4>2 DEF Seam
      <4>4. /\ Len(got[d]) = last[d] /\ source[d] # "none" /\ d \in subscribed
            /\ sending[d] = last[d] + 1 /\ sending[d] <= seq[r]
            /\ source[d] # "queue" => sending[d] <= through[d] /\ through[d] <= seq[r]
        BY <2>1, <2>3, <3>5, <4>1 DEF Seam
      <4>5. sending[d] <= seq[r] + 1 /\ (source[d] # "queue" => through[d] <= seq[r] + 1)
        BY <1>3, <3>4, <4>4
      <4> HIDE DEF QueueFrom, Base
      <4> QED BY <1>2, <2>3, <3>1, <3>4, <3>5, <4>1, <4>3, <4>4, <4>5 DEF Seam
    <3>6. CASE stage[d] = "taking"
      <4>1. source[d] # "replay" /\ QueueFrom(queue[d], last[d], seq[r], 0)
        BY <2>1, <2>3, <3>1, <3>6 DEF Seam
      <4>2. QueueFrom(queue'[d], last[d], seq[r] + 1, 0)
        BY <2>1, <3>3, <3>4, <3>6, <4>1 DEF Seam
      <4>3. Len(got[d]) = last[d] /\ source[d] # "none" /\ d \in subscribed
        BY <2>1, <3>6, <4>1 DEF Seam
      <4> HIDE DEF QueueFrom
      <4> QED BY <1>2, <2>3, <3>1, <3>6, <4>1, <4>2, <4>3 DEF Seam
    <3>7. CASE stage[d] \notin {"sending", "taking"}
      BY <1>2, <2>3, <3>7 DEF Seam, Open
    <3> QED BY <3>5, <3>6, <3>7
  <2> QED BY <2>2, <2>3
<1> QED BY <1>9, <1>10 DEF SeamInv

LEMMA SeamFinish ==
  ASSUME SeamInv, NEW r \in Run, Finish(r)
  PROVE  SeamInv'
<1>1. SeamTypes /\ \A d \in Conn : Seam(d)
  BY DEF SeamInv
<1>2. /\ seq' = seq /\ phase[r] = "running" /\ phase' = [phase EXCEPT ![r] = "finished"]
      /\ queue' = OfferAll(r, END)
      /\ UNCHANGED <<subscribed, stage, runOf, source, sending, last, through, got>>
  BY DEF Finish, connVars
<1>3. phase' \in [Run -> {"new", "running", "finished"}] /\ seq[r] \in Nat
  BY <1>1, <1>2 DEF SeamTypes
<1>4. \A d \in Conn : queue'[d] = IF d \in Subscribers(r)
                                   THEN Offer(queue[d], END) ELSE queue[d]
  BY <1>2 DEF OfferAll
<1>5. \A d \in Conn : queue[d] \in Seq(Sent)
  BY <1>1 DEF SeamTypes
<1>6. END \in Sent /\ RESYNC \in Sent
  BY Items
<1>7. \A d \in Conn : queue'[d] \in Seq(Sent)
  <2> TAKE d \in Conn
  <2> HIDE DEF END, RESYNC, Sent
  <2>1. Offer(queue[d], END) \in Seq(Sent)
    BY <1>5, <1>6 DEF Offer
  <2> QED BY <1>4, <1>5, <2>1
<1>8. queue' \in [Conn -> Seq(Sent)]
  BY <1>2, <1>7 DEF OfferAll
<1>9. SeamTypes'
  BY <1>1, <1>2, <1>3, <1>8 DEF SeamTypes
<1>10. ASSUME NEW d \in Conn PROVE Seam(d)'
  <2>1. Seam(d)
    BY <1>1
  <2>2. CASE runOf[d] # r \/ stage[d] \notin Open
    <3>1. phase'[runOf[d]] = phase[runOf[d]] \/ stage[d] \notin Open
      BY <1>1, <1>2, <2>1, <2>2 DEF Seam, SeamTypes
    <3>2. d \in Subscribers(r) => stage[d] # "away" /\ stage[d] \notin Open
      BY <2>1, <2>2 DEF Subscribers, Seam
    <3>3. queue'[d] = queue[d] \/ (stage[d] # "away" /\ stage[d] \notin Open)
      BY <1>4, <3>2
    <3> QED BY <1>2, <2>1, <3>1, <3>3 DEF Seam, Finished, Ended, Base, Open
  <2>3. CASE runOf[d] = r /\ stage[d] \in Open
    <3>1. Ended(runOf[d]) = 0 /\ Ended(runOf[d])' = 1 /\ ~Finished(runOf[d])
      BY <1>1, <1>2, <2>3 DEF Finished, Ended, SeamTypes
    <3>2. d \in subscribed => d \in Subscribers(r)
      BY <2>3 DEF Subscribers
    <3>3. ASSUME NEW base \in Nat, d \in subscribed, QueueFrom(queue[d], base, seq[r], 0)
          PROVE  QueueFrom(queue'[d], base, seq[r], 1)
      <4>1. QueueFrom(Offer(queue[d], END), base, seq[r], 1)
        BY <1>3, <1>5, <3>3, OffersEnd
      <4> QED BY <1>4, <3>2, <3>3, <4>1
    <3>4. last[d] \in Nat /\ Base(d) \in Nat /\ Base(d)' = Base(d)
      BY <1>1, <1>2 DEF SeamTypes, Base
    <3>5. CASE stage[d] = "sending"
      <4>1. source[d] # "replay"
        BY <2>1, <2>3, <3>1, <3>5 DEF Seam
      <4>2. QueueFrom(queue[d], Base(d), seq[r], 0)
        BY <2>1, <2>3, <3>1, <3>5, <4>1 DEF Seam
      <4>3. QueueFrom(queue'[d], Base(d), seq[r], 1)
        BY <2>1, <3>3, <3>4, <3>5, <4>1, <4>2 DEF Seam
      <4>4. /\ Len(got[d]) = last[d] /\ source[d] # "none" /\ d \in subscribed
            /\ sending[d] = last[d] + 1 /\ sending[d] <= seq[r]
            /\ source[d] # "queue" => sending[d] <= through[d] /\ through[d] <= seq[r]
        BY <2>1, <2>3, <3>5, <4>1 DEF Seam
      <4> HIDE DEF QueueFrom, Base
      <4> QED BY <1>2, <2>3, <3>1, <3>4, <3>5, <4>1, <4>3, <4>4 DEF Seam
    <3>6. CASE stage[d] = "taking"
      <4>1. source[d] # "replay" /\ QueueFrom(queue[d], last[d], seq[r], 0)
        BY <2>1, <2>3, <3>1, <3>6 DEF Seam
      <4>2. QueueFrom(queue'[d], last[d], seq[r], 1)
        BY <2>1, <3>3, <3>4, <3>6, <4>1 DEF Seam
      <4>3. Len(got[d]) = last[d] /\ source[d] # "none" /\ d \in subscribed
        BY <2>1, <3>6, <4>1 DEF Seam
      <4> HIDE DEF QueueFrom
      <4> QED BY <1>2, <2>3, <3>1, <3>6, <4>1, <4>2, <4>3 DEF Seam
    <3>7. CASE stage[d] \notin {"sending", "taking"}
      BY <1>2, <2>3, <3>7 DEF Seam, Open
    <3> QED BY <3>5, <3>6, <3>7
  <2> QED BY <2>2, <2>3
<1> QED BY <1>9, <1>10 DEF SeamInv

(* A step of one connection leaves the others where they are. *)
Apart(c) ==
  \A d \in Conn \ {c} :
    /\ stage'[d] = stage[d] /\ runOf'[d] = runOf[d] /\ source'[d] = source[d]
    /\ sending'[d] = sending[d] /\ last'[d] = last[d] /\ through'[d] = through[d]
    /\ got'[d] = got[d] /\ queue'[d] = queue[d] /\ (d \in subscribed' <=> d \in subscribed)

LEMMA SeamStep ==
  ASSUME SeamInv, NEW c \in Conn, seq' = seq, phase' = phase, SeamTypes', Apart(c), Seam(c)'
  PROVE  SeamInv'
<1>1. \A s \in Run : Finished(s)' <=> Finished(s)
  BY DEF Finished
<1>2. ASSUME NEW d \in Conn, d # c PROVE Seam(d)'
  <2>1. Seam(d)
    BY DEF SeamInv
  <2>2. /\ stage'[d] = stage[d] /\ runOf'[d] = runOf[d] /\ source'[d] = source[d]
        /\ sending'[d] = sending[d] /\ last'[d] = last[d] /\ through'[d] = through[d]
        /\ got'[d] = got[d] /\ queue'[d] = queue[d] /\ (d \in subscribed' <=> d \in subscribed)
    BY <1>2 DEF Apart
  <2> QED BY <1>1, <2>1, <2>2, SeamFrame
<1> QED BY <1>2 DEF SeamInv

LEMMA SeamServer ==
  ASSUME SeamInv, seq' = seq, UNCHANGED <<placeVars, connVars>>,
         phase' \in [Run -> {"new", "running", "finished"}],
         \A s \in Run : Finished(s)' <=> Finished(s)
  PROVE  SeamInv'
<1>1. SeamTypes /\ \A d \in Conn : Seam(d)
  BY DEF SeamInv
<1>2. SeamTypes'
  BY <1>1 DEF SeamTypes, placeVars, connVars
<1>3. ASSUME NEW d \in Conn PROVE Seam(d)'
  <2>1. Seam(d)
    BY <1>1
  <2> QED BY <2>1, SeamFrame DEF placeVars, connVars
<1> QED BY <1>2, <1>3 DEF SeamInv

LEMMA SeamAccepts ==
  ASSUME SeamInv, NEW c \in Conn, NEW r \in Run,
         Subscribes(c, r) \/ Replays(c, r) \/ ReplaysNothing(c, r) \/ IsRefused(c, r)
  PROVE  SeamInv'
<1>1. SeamTypes /\ Seam(c)
  BY DEF SeamInv
<1>2. /\ stage[c] = "away" /\ runOf' = [runOf EXCEPT ![c] = r]
      /\ UNCHANGED <<phase, seq, queue, last, got>>
  BY DEF Subscribes, Replays, ReplaysNothing, IsRefused, Accepted, runVars
<1>3. /\ Len(got[c]) = last[c] /\ last[c] = 0 /\ queue[c] = <<>> /\ c \notin subscribed
  BY <1>1, <1>2 DEF Seam
<1>4. r \in Nat /\ seq[r] \in Nat
  BY <1>1, LiveAssumption DEF SeamTypes, Run
<1>5. CASE Subscribes(c, r)
  <2>1. /\ subscribed' = subscribed \union {c} /\ ~Finished(r)
        /\ source' = [source EXCEPT ![c] = "prefix"]
        /\ through' = [through EXCEPT ![c] = seq[r]]
        /\ stage' = [stage EXCEPT ![c] = IF 0 < seq[r] THEN "sending" ELSE "taking"]
        /\ sending' = [sending EXCEPT ![c] = IF 0 < seq[r] THEN 1 ELSE @]
    BY <1>5 DEF Subscribes, Reads
  <2>2. SeamTypes'
    BY <1>1, <1>2, <1>4, <2>1 DEF SeamTypes, Source, Open
  <2>3. Apart(c)
    BY <1>1, <1>2, <2>1 DEF Apart, SeamTypes
  <2>4. QueueFrom(queue'[c], seq[r], seq[r], 0)
    BY <1>2, <1>3, <1>4, StartsHere
  <2>5. Ended(r)' = 0
    BY <1>2, <2>1 DEF Ended, Finished
  <2>6. /\ source'[c] = "prefix" /\ through'[c] = seq[r] /\ runOf'[c] = r /\ Base(c)' = seq[r]
        /\ stage'[c] = IF 0 < seq[r] THEN "sending" ELSE "taking"
        /\ 0 < seq[r] => sending'[c] = 1
        /\ c \in subscribed'
    BY <1>1, <1>2, <2>1 DEF SeamTypes, Base
  <2>7. Seam(c)'
    <3> HIDE DEF QueueFrom, Base, Ended
    <3>1. CASE 0 < seq[r]
      BY <1>2, <1>3, <1>4, <2>4, <2>5, <2>6, <3>1 DEF Seam
    <3>2. CASE seq[r] = 0
      BY <1>2, <1>3, <1>4, <2>4, <2>5, <2>6, <3>2 DEF Seam
    <3> QED BY <1>4, <3>1, <3>2
  <2> QED BY <1>2, <2>2, <2>3, <2>7, SeamStep
<1>6. CASE Replays(c, r)
  <2>1. /\ subscribed' = subscribed /\ Finished(r) /\ seq[r] > 0
        /\ source' = [source EXCEPT ![c] = "replay"]
        /\ through' = [through EXCEPT ![c] = seq[r]]
        /\ stage' = [stage EXCEPT ![c] = "sending"]
        /\ sending' = [sending EXCEPT ![c] = 1]
    <3>1. seq[r] > 0 /\ 0 < seq[r]
      BY <1>4, <1>6 DEF Replays
    <3> QED BY <1>6, <3>1 DEF Replays, Reads
  <2>2. SeamTypes'
    BY <1>1, <1>2, <1>4, <2>1 DEF SeamTypes, Source, Open
  <2>3. Apart(c)
    BY <1>1, <1>2, <2>1 DEF Apart, SeamTypes
  <2>4. Finished(r)'
    BY <1>2, <2>1 DEF Finished
  <2>5. /\ source'[c] = "replay" /\ through'[c] = seq[r] /\ runOf'[c] = r
        /\ stage'[c] = "sending" /\ sending'[c] = 1
    BY <1>1, <1>2, <2>1 DEF SeamTypes
  <2>6. Seam(c)'
    BY <1>2, <1>3, <1>4, <2>1, <2>4, <2>5 DEF Seam
  <2> QED BY <1>2, <2>2, <2>3, <2>6, SeamStep
<1>7. CASE ReplaysNothing(c, r) \/ IsRefused(c, r)
  <2>1. /\ subscribed' = subscribed /\ UNCHANGED <<sending, through>>
        /\ source' \in {source, [source EXCEPT ![c] = "replay"]}
        /\ stage' = [stage EXCEPT ![c] = "refused"]
    BY <1>7 DEF ReplaysNothing, IsRefused
  <2>2. SeamTypes'
    BY <1>1, <1>2, <1>4, <2>1 DEF SeamTypes, Source, Open
  <2>3. Apart(c)
    BY <1>1, <1>2, <2>1 DEF Apart, SeamTypes
  <2>4. stage'[c] = "refused" /\ runOf'[c] = r
    BY <1>1, <1>2, <2>1 DEF SeamTypes
  <2>5. Seam(c)'
    BY <2>4, SeamOver
  <2> QED BY <1>2, <2>2, <2>3, <2>5, SeamStep
<1> QED BY <1>5, <1>6, <1>7

LEMMA SeamSends ==
  ASSUME SeamInv, NEW c \in Conn, SendsOn(c),
         NEW r \in Run, r = runOf[c], NEW n \in Nat, n = sending[c]
  PROVE  SeamInv'
<1>1. SeamTypes /\ Seam(c)
  BY DEF SeamInv
<1>2. /\ stage[c] = "sending" /\ UNCHANGED <<phase, seq, queue, subscribed, runOf>>
      /\ got' = [got EXCEPT ![c] = Append(@, n)] /\ last' = [last EXCEPT ![c] = n]
  BY DEF SendsOn, Received, runVars, placeVars
<1>3. /\ n \in Nat /\ last[c] \in Nat /\ through[c] \in Nat /\ got[c] \in Seq(Nat)
      /\ source[c] \in Source
  BY <1>1 DEF SeamTypes
<1>4. /\ Len(got[c]) = last[c] /\ n = last[c] + 1 /\ r \in Run /\ n <= seq[r]
      /\ source[c] # "none"
      /\ source[c] # "queue" => n <= through[c] /\ through[c] <= seq[r]
      /\ source[c] = "replay" => Finished(r) /\ through[c] = seq[r]
      /\ source[c] # "replay" => c \in subscribed /\ QueueFrom(queue[c], Base(c), seq[r], Ended(r))
  BY <1>1, <1>2 DEF Seam, Open
<1>5. seq[r] \in Nat
  BY <1>1, <1>4 DEF SeamTypes
<1>6. /\ got' \in [Conn -> Seq(Nat)] /\ last' \in [Conn -> Nat]
      /\ Len(got'[c]) = n /\ last'[c] = n
  BY <1>1, <1>2, <1>3, <1>4 DEF SeamTypes
<1>7. Ended(r)' = Ended(r) /\ (Finished(r)' <=> Finished(r)) /\ runOf'[c] = r
  BY <1>2 DEF Ended, Finished
<1>8. CASE source[c] = "queue"
  <2>1. stage' = [stage EXCEPT ![c] = "taking"] /\ UNCHANGED <<source, through, sending>>
    BY <1>8 DEF SendsOn
  <2>2. SeamTypes'
    BY <1>1, <1>2, <1>6, <2>1 DEF SeamTypes, Open
  <2>3. Apart(c)
    BY <1>1, <1>2, <2>1 DEF Apart, SeamTypes
  <2>4. QueueFrom(queue'[c], n, seq'[r], Ended(r)')
    BY <1>2, <1>4, <1>7, <1>8 DEF Base
  <2>5. stage'[c] = "taking" /\ source'[c] = "queue" /\ c \in subscribed'
    BY <1>1, <1>2, <1>4, <1>8, <2>1 DEF SeamTypes
  <2>6. Seam(c)'
    <3> HIDE DEF QueueFrom, Ended
    <3> QED BY <1>4, <1>6, <1>7, <2>4, <2>5 DEF Seam
  <2> QED BY <1>2, <2>2, <2>3, <2>6, SeamStep
<1>9. CASE source[c] # "queue"
  <2>1. /\ source' = [source EXCEPT ![c] = source[c]]
        /\ through' = [through EXCEPT ![c] = through[c]]
        /\ stage' = [stage EXCEPT ![c] = IF n < through[c] THEN "sending" ELSE "taking"]
        /\ sending' = [sending EXCEPT ![c] = IF n < through[c] THEN n + 1 ELSE @]
        /\ source[c] = "prefix" \/ n < through[c]
    BY <1>9 DEF SendsOn, Reads
  <2>2. SeamTypes'
    BY <1>1, <1>2, <1>3, <1>6, <2>1 DEF SeamTypes, Open
  <2>3. Apart(c)
    BY <1>1, <1>2, <2>1 DEF Apart, SeamTypes
  <2>4. source'[c] = source[c] /\ through'[c] = through[c]
    BY <1>1, <2>1 DEF SeamTypes
  <2>5. source[c] \in {"prefix", "replay"}
    BY <1>3, <1>4, <1>9 DEF Source
  <2>6. CASE n < through[c]
    <3>1. stage'[c] = "sending" /\ sending'[c] = n + 1
      BY <1>1, <2>1, <2>6 DEF SeamTypes
    <3>2. source[c] = "prefix" => QueueFrom(queue'[c], Base(c)', seq'[r], Ended(r)')
      BY <1>2, <1>4, <1>7, <2>4 DEF Base
    <3>3. n + 1 <= through[c] /\ n + 1 <= seq[r]
      BY <1>3, <1>4, <1>5, <1>9, <2>6
    <3>4. Seam(c)'
      <4> HIDE DEF QueueFrom, Ended, Base
      <4> QED BY <1>2, <1>4, <1>6, <1>7, <1>9, <2>4, <2>5, <3>1, <3>2, <3>3 DEF Seam
    <3> QED BY <1>2, <2>2, <2>3, <3>4, SeamStep
  <2>7. CASE ~(n < through[c])
    <3>1. stage'[c] = "taking" /\ source[c] = "prefix" /\ n = through[c]
      BY <1>1, <1>3, <1>4, <1>9, <2>1, <2>7 DEF SeamTypes
    <3>2. QueueFrom(queue'[c], n, seq'[r], Ended(r)')
      BY <1>2, <1>4, <1>7, <3>1 DEF Base
    <3>3. Seam(c)'
      <4> HIDE DEF QueueFrom, Ended
      <4> QED BY <1>2, <1>4, <1>6, <1>7, <2>4, <3>1, <3>2 DEF Seam
    <3> QED BY <1>2, <2>2, <2>3, <3>3, SeamStep
  <2> QED BY <2>6, <2>7
<1> QED BY <1>8, <1>9

LEMMA SeamTakesRecord ==
  ASSUME SeamInv, NEW c \in Conn, TakesRecord(c), NEW r \in Run, r = runOf[c]
  PROVE  SeamInv'
<1>1. SeamTypes /\ Seam(c)
  BY DEF SeamInv
<1>2. /\ stage[c] = "taking" /\ UNCHANGED <<phase, seq, subscribed, runOf, last, through, got>>
      /\ queue[c] # <<>> /\ Head(queue[c]).kind = "record"
      /\ queue' = [queue EXCEPT ![c] = Tail(@)]
  BY DEF TakesRecord, runVars
<1>3. last[c] \in Nat /\ seq[r] \in Nat /\ queue[c] \in Seq(Sent) /\ source[c] \in Source
  BY <1>1 DEF SeamTypes
<1>4. /\ Len(got[c]) = last[c] /\ source[c] # "none" /\ source[c] # "replay"
      /\ c \in subscribed /\ QueueFrom(queue[c], last[c], seq[r], Ended(r))
  BY <1>1, <1>2 DEF Seam
<1>5. /\ Head(queue[c]).seq = last[c] + 1 /\ last[c] + 1 <= seq[r]
      /\ QueueFrom(Tail(queue[c]), last[c] + 1, seq[r], Ended(r))
  <2>1. Ended(r) \in {0, 1}
    BY DEF Ended
  <2> HIDE DEF QueueFrom, Ended
  <2> QED BY <1>2, <1>3, <1>4, <2>1, TakesNext, SMTT(30)
<1>6. /\ stage' = [stage EXCEPT ![c] = "sending"]
      /\ source' = [source EXCEPT ![c] = "queue"]
      /\ sending' = [sending EXCEPT ![c] = last[c] + 1]
  BY <1>3, <1>5 DEF TakesRecord
<1>7. Tail(queue[c]) \in Seq(Sent)
  BY <1>2, <1>3
<1>8. SeamTypes'
  BY <1>1, <1>2, <1>3, <1>6, <1>7, SMTT(30) DEF SeamTypes, Source, Open
<1>9. Apart(c)
  BY <1>1, <1>2, <1>6 DEF Apart, SeamTypes
<1>10. /\ stage'[c] = "sending" /\ source'[c] = "queue" /\ sending'[c] = last[c] + 1
       /\ queue'[c] = Tail(queue[c]) /\ Base(c)' = last[c] + 1 /\ Ended(r)' = Ended(r)
  BY <1>1, <1>2, <1>6 DEF SeamTypes, Base, Ended, Finished
<1>11. Seam(c)'
  <2> HIDE DEF QueueFrom, Ended, Base
  <2> QED BY <1>2, <1>4, <1>5, <1>10 DEF Seam
<1> QED BY <1>2, <1>8, <1>9, <1>11, SeamStep

LEMMA SeamTakesResync ==
  ASSUME SeamInv, NEW c \in Conn, TakesResync(c), NEW r \in Run, r = runOf[c]
  PROVE  SeamInv'
<1>1. SeamTypes /\ Seam(c)
  BY DEF SeamInv
<1>2. /\ stage[c] = "taking" /\ UNCHANGED <<phase, seq, runOf, last, got>>
      /\ subscribed' = subscribed \union {c}
      /\ queue' = [queue EXCEPT ![c] = IF Finished(r) THEN Offer(<<>>, END) ELSE <<>>]
      /\ source' = [source EXCEPT ![c] = "prefix"]
      /\ through' = [through EXCEPT ![c] = seq[r]]
      /\ stage' = [stage EXCEPT ![c] = IF last[c] < seq[r] THEN "sending" ELSE "taking"]
      /\ sending' = [sending EXCEPT ![c] = IF last[c] < seq[r] THEN last[c] + 1 ELSE @]
  BY DEF TakesResync, FreshQueue, Reads, runVars
<1>3. last[c] \in Nat /\ seq[r] \in Nat /\ sending[c] \in Nat
  BY <1>1 DEF SeamTypes
<1>4. Len(got[c]) = last[c] /\ last[c] <= seq[r]
  BY <1>1, <1>2 DEF Seam, QueueFrom
<1>5. /\ QueueFrom(<<>>, seq[r], seq[r], 0)
      /\ QueueFrom(Offer(<<>>, END), seq[r], seq[r], 1)
      /\ Offer(<<>>, END) \in Seq(Sent) /\ <<>> \in Seq(Sent)
  BY <1>3, StartsHere
<1>6. queue'[c] \in Seq(Sent) /\ QueueFrom(queue'[c], seq[r], seq[r], Ended(r))
  <2> HIDE DEF QueueFrom, Offer, END
  <2>1. queue'[c] = IF Finished(r) THEN Offer(<<>>, END) ELSE <<>>
    BY <1>1, <1>2 DEF SeamTypes
  <2> QED BY <1>5, <2>1 DEF Ended
<1>7. SeamTypes'
  <2>1. queue' \in [Conn -> Seq(Sent)]
    <3> DEFINE q == IF Finished(r) THEN Offer(<<>>, END) ELSE <<>>
    <3>1. q \in Seq(Sent)
      BY <1>5
    <3>2. queue' = [queue EXCEPT ![c] = q]
      BY <1>2
    <3> HIDE DEF q
    <3> QED BY <1>1, <3>1, <3>2 DEF SeamTypes
  <2>2. /\ source' \in [Conn -> Source] /\ stage' \in [Conn -> Open \union {"away", "complete", "cut"}]
        /\ through' \in [Conn -> Nat] /\ sending' \in [Conn -> Nat]
    BY <1>1, <1>2, <1>3 DEF SeamTypes, Source, Open
  <2> QED BY <1>1, <1>2, <2>1, <2>2 DEF SeamTypes
<1>8. Apart(c)
  BY <1>1, <1>2 DEF Apart, SeamTypes
<1>9. /\ source'[c] = "prefix" /\ through'[c] = seq[r] /\ Base(c)' = seq[r] /\ Ended(r)' = Ended(r)
      /\ stage'[c] = IF last[c] < seq[r] THEN "sending" ELSE "taking"
      /\ last[c] < seq[r] => sending'[c] = last[c] + 1
      /\ c \in subscribed'
  BY <1>1, <1>2 DEF SeamTypes, Base, Ended, Finished
<1>10. Seam(c)'
  <2> HIDE DEF QueueFrom, Ended, Base
  <2>1. CASE last[c] < seq[r]
    BY <1>2, <1>3, <1>4, <1>6, <1>9, <2>1 DEF Seam
  <2>2. CASE last[c] = seq[r]
    BY <1>2, <1>3, <1>4, <1>6, <1>9, <2>2 DEF Seam
  <2> QED BY <1>3, <1>4, <2>1, <2>2
<1> QED BY <1>2, <1>7, <1>8, <1>10, SeamStep

LEMMA SeamTimesOut ==
  ASSUME SeamInv, NEW c \in Conn, SendTimesOut(c)
  PROVE  SeamInv'
<1>1. SeamTypes /\ Seam(c)
  BY DEF SeamInv
<1>2. /\ stage[c] = "sending" /\ stage' = [stage EXCEPT ![c] = "slow"]
      /\ UNCHANGED <<phase, seq, queue, subscribed, runOf, source, sending, last, through>>
  BY DEF SendTimesOut, runVars, placeVars
<1>3. PICK delivered \in BOOLEAN :
        got' = [got EXCEPT ![c] = IF delivered THEN Append(@, sending[c]) ELSE @]
  BY DEF SendTimesOut
<1>4. got' \in [Conn -> Seq(Nat)]
  BY <1>1, <1>3 DEF SeamTypes
<1>5. SeamTypes'
  BY <1>1, <1>2, <1>4 DEF SeamTypes, Open
<1>6. Apart(c)
  BY <1>1, <1>2, <1>3 DEF Apart, SeamTypes
<1>7. stage'[c] = "slow" /\ runOf'[c] \in Run
  BY <1>1, <1>2 DEF SeamTypes, Seam, Open
<1>8. Seam(c)'
  BY <1>7, SeamOver
<1> QED BY <1>2, <1>5, <1>6, <1>8, SeamStep

(* The four ways to reach the clause that ends a handler. *)
LEMMA SeamLeaves ==
  ASSUME SeamInv, NEW c \in Conn,
         ReplayEnds(c) \/ TakesEnd(c) \/ SlowLeaves(c) \/ RefusedLeaves(c) \/ IsCutOff(c)
  PROVE  SeamInv'
<1>1. SeamTypes /\ Seam(c)
  BY DEF SeamInv
<1>2. CASE ReplayEnds(c)
  <2>1. /\ stage[c] \in Open /\ Leaves(c, "complete") /\ UNCHANGED <<phase, seq, runOf>>
        /\ UNCHANGED <<source, sending, through>> /\ Received(c)
    BY <1>2 DEF ReplayEnds, Ends, Open
  <2>2. last' \in [Conn -> Nat] /\ got' \in [Conn -> Seq(Nat)]
    BY <1>1, <2>1 DEF SeamTypes, Received
  <2>3. \A d \in Conn \ {c} : last'[d] = last[d] /\ got'[d] = got[d]
    BY <1>1, <2>1 DEF SeamTypes, Received
  <2> QED BY <2>1, <2>2, <2>3, SeamEnds
<1>3. CASE ~ReplayEnds(c)
  <2>1. PICK end \in {"complete", "cut"} :
          /\ stage[c] \in Open /\ Leaves(c, end) /\ UNCHANGED <<phase, seq, runOf>>
          /\ UNCHANGED <<source, sending, last, through, got>>
    BY <1>3 DEF TakesEnd, SlowLeaves, RefusedLeaves, IsCutOff, Ends, Open, runVars
  <2>2. last' \in [Conn -> Nat] /\ got' \in [Conn -> Seq(Nat)]
    BY <1>1, <2>1 DEF SeamTypes
  <2>3. \A d \in Conn \ {c} : last'[d] = last[d] /\ got'[d] = got[d]
    BY <2>1
  <2> QED BY <2>1, <2>2, <2>3, SeamEnds
<1> QED BY <1>2, <1>3

LEMMA SeamNext == SeamInv /\ [Next]_vars => SeamInv'
<1> SUFFICES ASSUME SeamInv, [Next]_vars PROVE SeamInv'
  OBVIOUS
<1>1. SeamTypes /\ \A d \in Conn : Seam(d)
  BY DEF SeamInv
<1>2. ASSUME NEW r \in Run, Start(r) PROVE SeamInv'
  <2>1. /\ phase[r] = "new" /\ phase' = [phase EXCEPT ![r] = "running"]
        /\ seq' = seq /\ UNCHANGED <<placeVars, connVars>>
    BY <1>2 DEF Start
  <2>2. phase' \in [Run -> {"new", "running", "finished"}]
    BY <1>1, <2>1 DEF SeamTypes
  <2>3. \A s \in Run : Finished(s)' <=> Finished(s)
    BY <1>1, <2>1 DEF SeamTypes, Finished
  <2> QED BY <2>1, <2>2, <2>3, SeamServer
<1>3. ASSUME UNCHANGED <<phase, seq, placeVars, connVars>> PROVE SeamInv'
  <2>1. \A s \in Run : Finished(s)' <=> Finished(s)
    BY <1>3 DEF Finished
  <2>2. phase' \in [Run -> {"new", "running", "finished"}]
    BY <1>1, <1>3 DEF SeamTypes
  <2> QED BY <1>3, <2>1, <2>2, SeamServer
<1>4. ASSUME NEW r \in Run, ReservationLapses(r) \/ TimerReleases(r) PROVE SeamInv'
  BY <1>3, <1>4 DEF ReservationLapses, TimerReleases, runVars
<1>5. CASE TidiesUp \/ RetainedElsewhere \/ UNCHANGED vars
  BY <1>3, <1>5 DEF TidiesUp, RetainedElsewhere, vars, runVars
<1>6. ASSUME NEW c \in Conn, Connects(c) PROVE SeamInv'
  BY <1>6, SeamAccepts DEF Connects
<1>7. ASSUME NEW c \in Conn, Goes(c) \/ IsCutOff(c) PROVE SeamInv'
  <2>1. CASE stage[c] \in Open
    <3>1. runOf[c] \in Run /\ sending[c] \in Nat
      BY <1>1, <2>1 DEF Seam, SeamTypes
    <3> QED BY <1>7, <3>1, SeamSends, SeamTakesRecord, SeamTakesResync, SeamTimesOut,
               SeamLeaves DEF Goes
  <2>2. CASE stage[c] \notin Open
    BY <1>7, <2>2 DEF Goes, SendsOn, ReplayEnds, SendTimesOut, TakesRecord, TakesEnd,
                      TakesResync, SlowLeaves, RefusedLeaves, IsCutOff, Open
  <2> QED BY <2>1, <2>2
<1> QED BY <1>2, <1>4, <1>5, <1>6, <1>7, SeamEmit, SeamFinish DEF Next

LEMMA SeamAlways == Spec => []SeamInv
  BY SeamInit, SeamNext, PTL DEF Spec
--------------------------------------------------------------------------------
(* The refinement: what the contract's variables are, and which of its steps an
   action is. *)
EndedRuns == {r \in Run : Finished(r)}
Verdicts == [c \in Conn |-> Verdict(c)]

LEMMA ContractInit == Init => Contract!Init
<1> SUFFICES ASSUME Init PROVE Contract!Init
  OBVIOUS
<1>1. {r \in Run : Finished(r)} = {}
  BY DEF Init, Finished
<1>2. [c \in Conn |-> Verdict(c)] = [c \in Conn |-> "none"]
  BY DEF Init, Verdict
<1> QED BY <1>1, <1>2 DEF Init, Contract!Init

LEMMA SameRuns ==
  ASSUME phase' = phase
  PROVE  EndedRuns' = EndedRuns
  BY DEF EndedRuns, Finished

LEMMA SameVerdicts ==
  ASSUME \A c \in Conn : stage'[c] = stage[c] \/ (stage[c] \in Open /\ stage'[c] \in Open)
  PROVE  Verdicts' = Verdicts
  BY DEF Verdicts, Verdict, Open

LEMMA NewVerdict ==
  ASSUME SeamTypes, NEW c \in Conn, NEW end, stage' = [stage EXCEPT ![c] = end]
  PROVE  /\ Verdicts' = [Verdicts EXCEPT ![c] =
                           IF end = "away" THEN "none" ELSE IF end \in Open THEN "open" ELSE end]
         /\ Verdicts[c] = Verdict(c)
<1>1. stage'[c] = end /\ \A d \in Conn \ {c} : stage'[d] = stage[d]
  BY DEF SeamTypes
<1>2. \A d \in Conn : Verdict(d)' = IF d = c
        THEN IF end = "away" THEN "none" ELSE IF end \in Open THEN "open" ELSE end
        ELSE Verdict(d)
  BY <1>1 DEF Verdict
<1> QED BY <1>2 DEF Verdicts

(* A step that the contract does not see. *)
LEMMA Unseen ==
  ASSUME seq' = seq, runOf' = runOf, got' = got, EndedRuns' = EndedRuns, Verdicts' = Verdicts
  PROVE  UNCHANGED Contract!vars
  BY DEF Contract!vars, EndedRuns, Verdicts

LEMMA Receives ==
  ASSUME SeamInv, NEW c \in Conn, stage[c] = "sending", stage'[c] \in Open,
         \A d \in Conn \ {c} : stage'[d] = stage[d],
         UNCHANGED <<phase, seq, runOf>>,
         got' = [got EXCEPT ![c] = Append(@, sending[c])]
  PROVE  Contract!Receive(c)
<1>1. SeamTypes /\ Seam(c)
  BY DEF SeamInv
<1>2. stage[c] \in Open
  BY DEF Open
<1>3. Verdicts' = Verdicts /\ Verdicts[c] = "open"
  BY <1>2, SameVerdicts DEF Verdicts, Verdict, Open
<1>4. EndedRuns' = EndedRuns
  BY SameRuns
<1>5. sending[c] = Len(got[c]) + 1 /\ sending[c] <= seq[runOf[c]]
  BY <1>1 DEF Seam
<1>6. seq[runOf[c]] \in Nat /\ Len(got[c]) \in Nat
  BY <1>1, <1>2 DEF Seam, SeamTypes
<1>7. Len(got[c]) < seq[runOf[c]] /\ got' = [got EXCEPT ![c] = Append(@, Len(@) + 1)]
  BY <1>5, <1>6
<1>8. Verdicts'[c] # "complete"
  BY <1>3
<1> QED BY <1>3, <1>4, <1>7, <1>8 DEF Contract!Receive, EndedRuns, Verdicts

LEMMA ContractNext == SeamInv /\ [Next]_vars => [Contract!Next]_Contract!vars
<1> SUFFICES ASSUME SeamInv, [Next]_vars
             PROVE  Contract!Next \/ UNCHANGED Contract!vars
  OBVIOUS
<1>1. SeamTypes /\ \A d \in Conn : Seam(d)
  BY DEF SeamInv
<1>2. ASSUME NEW r \in Run, Start(r) PROVE UNCHANGED Contract!vars
  <2>1. UNCHANGED <<seq, runOf, got, stage>> /\ \A s \in Run : Finished(s)' <=> Finished(s)
    BY <1>1, <1>2 DEF Start, connVars, SeamTypes, Finished
  <2>2. EndedRuns' = EndedRuns
    BY <2>1 DEF EndedRuns
  <2> QED BY <2>1, <2>2, SameVerdicts, Unseen
<1>3. ASSUME NEW r \in Run, Emit(r) PROVE Contract!Next
  <2>1. UNCHANGED <<phase, runOf, got, stage>> /\ seq' = [seq EXCEPT ![r] = @ + 1] /\ ~Finished(r)
    BY <1>3 DEF Emit, connVars, Finished
  <2>2. EndedRuns' = EndedRuns /\ Verdicts' = Verdicts /\ r \notin EndedRuns
    BY <2>1, SameRuns, SameVerdicts DEF EndedRuns
  <2>3. Contract!Grow(r)
    BY <2>1, <2>2 DEF Contract!Grow, EndedRuns, Verdicts
  <2> QED BY <2>3 DEF Contract!Next
<1>4. ASSUME NEW r \in Run, Finish(r) PROVE Contract!Next
  <2>1. UNCHANGED <<seq, runOf, got, stage>> /\ phase' = [phase EXCEPT ![r] = "finished"]
    BY <1>4 DEF Finish, connVars
  <2>2. EndedRuns' = EndedRuns \union {r} /\ Verdicts' = Verdicts
    BY <1>1, <2>1, SameVerdicts DEF EndedRuns, Finished, SeamTypes
  <2>3. Contract!End(r)
    BY <2>1, <2>2 DEF Contract!End, EndedRuns, Verdicts
  <2> QED BY <2>3 DEF Contract!Next
<1>5. ASSUME UNCHANGED <<phase, seq, connVars>> PROVE UNCHANGED Contract!vars
  BY <1>5, SameRuns, SameVerdicts, Unseen DEF connVars
<1>6. ASSUME NEW r \in Run, ReservationLapses(r) \/ TimerReleases(r)
      PROVE  UNCHANGED Contract!vars
  BY <1>5, <1>6 DEF ReservationLapses, TimerReleases, runVars
<1>7. CASE TidiesUp \/ RetainedElsewhere \/ UNCHANGED vars
  BY <1>5, <1>7 DEF TidiesUp, RetainedElsewhere, vars, runVars
<1>8. ASSUME NEW c \in Conn, Connects(c) PROVE Contract!Next
  <2>1. PICK r \in Run : Subscribes(c, r) \/ Replays(c, r) \/ ReplaysNothing(c, r) \/ IsRefused(c, r)
    BY <1>8 DEF Connects
  <2>2. /\ stage[c] = "away" /\ runOf' = [runOf EXCEPT ![c] = r]
        /\ UNCHANGED <<phase, seq, got>>
    BY <2>1 DEF Subscribes, Replays, ReplaysNothing, IsRefused, Accepted, runVars
  <2>3. PICK next \in Open : stage' = [stage EXCEPT ![c] = next]
    BY <2>1 DEF Subscribes, Replays, ReplaysNothing, IsRefused, Reads, Open
  <2>4. next # "away"
    BY DEF Open
  <2>5. Verdicts' = [Verdicts EXCEPT ![c] = "open"] /\ Verdicts[c] = "none"
    BY <1>1, <2>2, <2>3, <2>4, NewVerdict DEF Verdict
  <2>6. EndedRuns' = EndedRuns
    BY <2>2, SameRuns
  <2>7. Contract!Open(c, r)
    BY <2>2, <2>5, <2>6 DEF Contract!Open, EndedRuns, Verdicts
  <2> QED BY <2>7 DEF Contract!Next
<1>9. ASSUME NEW c \in Conn, SendsOn(c) PROVE Contract!Next
  <2>1. /\ stage[c] = "sending" /\ UNCHANGED <<phase, seq, runOf>>
        /\ got' = [got EXCEPT ![c] = Append(@, sending[c])]
    BY <1>9 DEF SendsOn, Received, runVars
  <2>2. PICK next \in {"sending", "taking"} : stage' = [stage EXCEPT ![c] = next]
    BY <1>9 DEF SendsOn, Reads
  <2>3. stage'[c] \in Open /\ \A d \in Conn \ {c} : stage'[d] = stage[d]
    BY <1>1, <2>2 DEF SeamTypes, Open
  <2>4. Contract!Receive(c)
    BY <2>1, <2>3, Receives
  <2> QED BY <2>4 DEF Contract!Next
<1>10. ASSUME NEW c \in Conn, ReplayEnds(c) PROVE Contract!Next
  <2>1. /\ stage[c] = "sending" /\ source[c] = "replay" /\ sending[c] >= through[c]
        /\ UNCHANGED <<phase, seq, runOf>>
        /\ stage' = [stage EXCEPT ![c] = "complete"]
        /\ got' = [got EXCEPT ![c] = Append(@, sending[c])]
    BY <1>10 DEF ReplayEnds, Ends, Leaves, Received
  <2>2. stage[c] \in Open
    BY <2>1 DEF Open
  <2>3. Verdicts' = [Verdicts EXCEPT ![c] = "complete"] /\ Verdicts[c] = "open"
    BY <1>1, <2>1, <2>2, NewVerdict DEF Verdict, Open
  <2>4. EndedRuns' = EndedRuns
    BY <2>1, SameRuns
  <2>5. /\ sending[c] = Len(got[c]) + 1 /\ sending[c] <= seq[runOf[c]]
        /\ Finished(runOf[c]) /\ through[c] = seq[runOf[c]] /\ runOf[c] \in Run
    BY <1>1, <2>1, <2>2 DEF Seam
  <2>6. seq[runOf[c]] \in Nat /\ Len(got[c]) \in Nat /\ sending[c] \in Nat
    BY <1>1, <2>5 DEF SeamTypes
  <2>7. /\ Len(got[c]) < seq[runOf[c]] /\ Len(got[c]) + 1 = seq[runOf[c]]
        /\ got' = [got EXCEPT ![c] = Append(@, Len(@) + 1)]
        /\ runOf[c] \in EndedRuns
    BY <2>1, <2>5, <2>6 DEF EndedRuns
  <2>8. Contract!Receive(c)
    BY <2>1, <2>3, <2>4, <2>7 DEF Contract!Receive, EndedRuns, Verdicts
  <2> QED BY <2>8 DEF Contract!Next
<1>11. ASSUME NEW c \in Conn, TakesEnd(c) PROVE Contract!Next
  <2>1. /\ stage[c] = "taking" /\ queue[c] # <<>> /\ Head(queue[c]) = END
        /\ UNCHANGED <<phase, seq, runOf, got>>
        /\ stage' = [stage EXCEPT ![c] = "complete"]
    BY <1>11 DEF TakesEnd, Ends, Leaves
  <2>2. stage[c] \in Open
    BY <2>1 DEF Open
  <2>3. Verdicts' = [Verdicts EXCEPT ![c] = "complete"] /\ Verdicts[c] = "open"
    BY <1>1, <2>1, <2>2, NewVerdict DEF Verdict, Open
  <2>4. EndedRuns' = EndedRuns
    BY <2>1, SameRuns
  <2>5. /\ Len(got[c]) = last[c] /\ runOf[c] \in Run
        /\ QueueFrom(queue[c], last[c], seq[runOf[c]], Ended(runOf[c]))
    BY <1>1, <2>1, <2>2 DEF Seam
  <2>6. last[c] \in Nat /\ seq[runOf[c]] \in Nat /\ queue[c] \in Seq(Sent) /\ Ended(runOf[c]) \in {0, 1}
    BY <1>1, <2>5 DEF SeamTypes, Ended
  <2>7. Ended(runOf[c]) = 1 /\ last[c] = seq[runOf[c]]
    <3> HIDE DEF QueueFrom, Ended, END
    <3> QED BY <2>1, <2>5, <2>6, TakesLast
  <2>8. runOf[c] \in EndedRuns /\ Len(got[c]) = seq[runOf[c]]
    BY <2>5, <2>7 DEF EndedRuns, Ended
  <2>9. Contract!Complete(c)
    BY <2>1, <2>3, <2>4, <2>8 DEF Contract!Complete, EndedRuns, Verdicts
  <2> QED BY <2>9 DEF Contract!Next
<1>12. ASSUME NEW c \in Conn, TakesRecord(c) \/ TakesResync(c) PROVE UNCHANGED Contract!vars
  <2>1. UNCHANGED <<phase, seq, runOf, got>> /\ stage[c] = "taking"
    BY <1>12 DEF TakesRecord, TakesResync, runVars
  <2>2. PICK next \in {"sending", "taking"} :
          stage' = [stage EXCEPT ![c] = next] \/ (next = "taking" /\ stage' = stage)
    BY <1>12 DEF TakesRecord, TakesResync, Reads
  <2>3. \A d \in Conn : stage'[d] = stage[d] \/ (stage[d] \in Open /\ stage'[d] \in Open)
    BY <1>1, <2>1, <2>2 DEF SeamTypes, Open
  <2> QED BY <2>1, <2>3, SameRuns, SameVerdicts, Unseen
<1>13. ASSUME NEW c \in Conn, SendTimesOut(c) PROVE Contract!Next \/ UNCHANGED Contract!vars
  <2>1. /\ stage[c] = "sending" /\ stage' = [stage EXCEPT ![c] = "slow"]
        /\ UNCHANGED <<phase, seq, runOf>>
    BY <1>13 DEF SendTimesOut, runVars
  <2>2. stage'[c] \in Open /\ stage[c] \in Open /\ \A d \in Conn \ {c} : stage'[d] = stage[d]
    BY <1>1, <2>1 DEF SeamTypes, Open
  <2>3. PICK delivered \in BOOLEAN :
          got' = [got EXCEPT ![c] = IF delivered THEN Append(@, sending[c]) ELSE @]
    BY <1>13 DEF SendTimesOut
  <2>4. CASE delivered
    <3>1. Contract!Receive(c)
      BY <2>1, <2>2, <2>3, <2>4, Receives
    <3> QED BY <3>1 DEF Contract!Next
  <2>5. CASE ~delivered
    <3>1. got' = got
      BY <1>1, <2>3, <2>5 DEF SeamTypes
    <3> QED BY <2>1, <2>2, <3>1, SameRuns, SameVerdicts, Unseen
  <2> QED BY <2>3, <2>4, <2>5
<1>14. ASSUME NEW c \in Conn, SlowLeaves(c) \/ RefusedLeaves(c) \/ IsCutOff(c) PROVE Contract!Next
  <2>1. /\ stage[c] \in Open /\ UNCHANGED <<phase, seq, runOf, got>>
        /\ stage' = [stage EXCEPT ![c] = "cut"]
    BY <1>14 DEF SlowLeaves, RefusedLeaves, IsCutOff, Ends, Leaves, Open, runVars
  <2>2. Verdicts' = [Verdicts EXCEPT ![c] = "cut"] /\ Verdicts[c] = "open"
    BY <1>1, <2>1, NewVerdict DEF Verdict, Open
  <2>3. EndedRuns' = EndedRuns
    BY <2>1, SameRuns
  <2>4. Contract!Cut(c)
    BY <2>1, <2>2, <2>3 DEF Contract!Cut, EndedRuns, Verdicts
  <2> QED BY <2>4 DEF Contract!Next
<1> QED BY <1>2, <1>3, <1>4, <1>6, <1>7, <1>8, <1>9, <1>10, <1>11, <1>12, <1>13, <1>14 DEF Next, Goes

(* For any number of runs, connections and records and any limit of the queues:
   every viewer receives a prefix of its run's log, each record once and in
   order, and is closed normally only when the run has ended and it has all. *)
THEOREM DeliversAlways == Spec => DeliversTheLog
<1>1. Spec => Contract!Init
  BY ContractInit DEF Spec
<1>2. SeamInv /\ [Next]_vars => [Contract!Next]_Contract!vars
  BY ContractNext
<1> QED BY <1>1, <1>2, SeamAlways, PTL DEF Spec, DeliversTheLog, Contract!Spec

--------------------------------------------------------------------------------
(* Part 2.  Leases, places and reservations are exact: a history is never
   deleted under a reader, a lease is never left behind, and a viewer that was
   told to come back can. *)

Holders(r) == {c \in Conn : HasLease(c, r)}
Pinned(r) == {c \in Conn : stage[c] \in Open /\ source[c] = "replay" /\ runOf[c] = r}
Attached(r) ==
  {c \in Conn : stage[c] \in Open /\ source[c] \in {"prefix", "queue"} /\ runOf[c] = r}
Busy(r) == {c \in Conn : stage[c] \in {"sending", "taking"} /\ runOf[c] = r}

LeaseTypes ==
  /\ registry \subseteq Run /\ onDisk \subseteq Run
  /\ leases \in [Run -> Nat] /\ deferred \in [Run -> Nat] /\ readers \in [Run -> Nat]
  /\ reserved \in [Run -> BOOLEAN]

(* What the handler has done to ActiveRun.subscribers. *)
Place(c) ==
  /\ c \in subscribed <=> (stage[c] \in Open /\ source[c] \in {"prefix", "queue"})
  /\ stage[c] = "away" => source[c] = "none"
  /\ stage[c] = "refused" => source[c] \in {"none", "replay"}
  /\ stage[c] \in {"sending", "taking", "slow"} => source[c] # "none"

Books(r) ==
  /\ leases[r] = Cardinality(Holders(r)) + deferred[r]
  /\ readers[r] = Cardinality(Pinned(r))
  /\ Cardinality(Attached(r)) + readers[r] <= ReaderLimit

Held(r) ==
  /\ leases[r] > 0 => r \in onDisk
  /\ reserved[r] => deferred[r] > 0
  /\ reserved[r] \/ Busy(r) # {} => r \in registry

BookInv == LeaseTypes /\ (\A c \in Conn : Place(c)) /\ \A r \in Run : Books(r)
LeaseInv == BookInv /\ \A r \in Run : Held(r)

--------------------------------------------------------------------------------
(* A set of connections of which one enters or leaves. *)
In(c, S) == IF c \in S THEN 1 ELSE 0

LEMMA Counted ==
  ASSUME NEW S \in SUBSET Conn, NEW T \in SUBSET Conn, NEW c \in Conn, T \ {c} = S \ {c}
  PROVE  /\ Cardinality(S) \in Nat /\ Cardinality(T) \in Nat
         /\ Cardinality(T) = Cardinality(S) + In(c, T) - In(c, S)
         /\ Cardinality(S) >= In(c, S)
<1>1. IsFiniteSet(Conn)
  BY LiveAssumption
<1>2. IsFiniteSet(S) /\ IsFiniteSet(T)
  BY <1>1, FS_Subset
<1>3. Cardinality(S) \in Nat /\ Cardinality(T) \in Nat
  BY <1>2, FS_CardinalityType
<1>4. CASE c \in S /\ c \in T
  <2>1. S = T
    BY <1>4
  <2>2. Cardinality(S) # 0
    BY <1>2, <1>4, FS_EmptySet
  <2> QED BY <1>3, <1>4, <2>1, <2>2 DEF In
<1>5. CASE c \notin S /\ c \notin T
  <2>1. S = T
    BY <1>5
  <2> QED BY <1>3, <1>5, <2>1 DEF In
<1>6. CASE c \in S /\ c \notin T
  <2>1. S = T \union {c}
    BY <1>6
  <2>2. Cardinality(S) = Cardinality(T) + 1
    BY <1>2, <1>6, <2>1, FS_AddElement
  <2> QED BY <1>3, <1>6, <2>2 DEF In
<1>7. CASE c \notin S /\ c \in T
  <2>1. T = S \union {c}
    BY <1>7
  <2>2. Cardinality(T) = Cardinality(S) + 1
    BY <1>2, <1>7, <2>1, FS_AddElement
  <2> QED BY <1>3, <1>7, <2>2 DEF In
<1> QED BY <1>4, <1>5, <1>6, <1>7

LEMMA Counts ==
  ASSUME NEW r \in Run
  PROVE  /\ Cardinality(Holders(r)) \in Nat /\ Cardinality(Pinned(r)) \in Nat
         /\ Cardinality(Attached(r)) \in Nat
         /\ Holders(r) # {} => Cardinality(Holders(r)) > 0
         /\ Pinned(r) # {} => Cardinality(Pinned(r)) > 0
<1>1. IsFiniteSet(Holders(r)) /\ IsFiniteSet(Pinned(r)) /\ IsFiniteSet(Attached(r))
  BY LiveAssumption, FS_Subset DEF Holders, Pinned, Attached
<1>2. /\ Cardinality(Holders(r)) \in Nat /\ Cardinality(Pinned(r)) \in Nat
      /\ Cardinality(Attached(r)) \in Nat
  BY <1>1, FS_CardinalityType
<1>3. /\ Holders(r) # {} => Cardinality(Holders(r)) # 0
      /\ Pinned(r) # {} => Cardinality(Pinned(r)) # 0
  BY <1>1, FS_EmptySet
<1> QED BY <1>2, <1>3

(* What a step of one connection does to the counts of a run. *)
LEMMA Moved ==
  ASSUME NEW c \in Conn, Apart(c), NEW r \in Run
  PROVE  /\ Cardinality(Holders(r))' = Cardinality(Holders(r)) + In(c, Holders(r)') - In(c, Holders(r))
         /\ Cardinality(Pinned(r))' = Cardinality(Pinned(r)) + In(c, Pinned(r)') - In(c, Pinned(r))
         /\ Cardinality(Attached(r))' = Cardinality(Attached(r)) + In(c, Attached(r)') - In(c, Attached(r))
         /\ Cardinality(Holders(r)) >= In(c, Holders(r))
         /\ Cardinality(Pinned(r)) >= In(c, Pinned(r))
<1>1. /\ Holders(r)' \ {c} = Holders(r) \ {c}
      /\ Pinned(r)' \ {c} = Pinned(r) \ {c}
      /\ Attached(r)' \ {c} = Attached(r) \ {c}
  BY DEF Apart, Holders, Pinned, Attached, HasLease
<1>2. /\ Holders(r) \in SUBSET Conn /\ Holders(r)' \in SUBSET Conn
      /\ Pinned(r) \in SUBSET Conn /\ Pinned(r)' \in SUBSET Conn
      /\ Attached(r) \in SUBSET Conn /\ Attached(r)' \in SUBSET Conn
  BY DEF Holders, Pinned, Attached
<1>3. /\ Cardinality(Holders(r)') = Cardinality(Holders(r)) + In(c, Holders(r)') - In(c, Holders(r))
      /\ Cardinality(Holders(r)) >= In(c, Holders(r))
  BY <1>1, <1>2, Counted
<1>4. /\ Cardinality(Pinned(r)') = Cardinality(Pinned(r)) + In(c, Pinned(r)') - In(c, Pinned(r))
      /\ Cardinality(Pinned(r)) >= In(c, Pinned(r))
  BY <1>1, <1>2, Counted
<1>5. Cardinality(Attached(r)') = Cardinality(Attached(r)) + In(c, Attached(r)') - In(c, Attached(r))
  BY <1>1, <1>2, Counted
<1> QED BY <1>3, <1>4, <1>5

LEMMA PlacesApart ==
  ASSUME NEW c \in Conn, Apart(c), \A d \in Conn : Place(d), Place(c)'
  PROVE  \A d \in Conn : Place(d)'
<1>1. ASSUME NEW d \in Conn, d # c PROVE Place(d)'
  <2>1. Place(d)
    OBVIOUS
  <2>2. stage'[d] = stage[d] /\ source'[d] = source[d] /\ (d \in subscribed' <=> d \in subscribed)
    BY <1>1 DEF Apart
  <2> QED BY <2>1, <2>2 DEF Place
<1> QED BY <1>1

(* The subscribers of a run are the connections that are placed there. *)
LEMMA SubscribersAre ==
  ASSUME subscribed \subseteq Conn, \A c \in Conn : Place(c), NEW r \in Run
  PROVE  Subscribers(r) = Attached(r)
  BY DEF Place, Subscribers, Attached

LEMMA BooksInit == Init => LeaseInv
<1> SUFFICES ASSUME Init PROVE LeaseInv
  OBVIOUS
<1>1. LeaseTypes
  BY DEF Init, LeaseTypes
<1>2. \A c \in Conn : Place(c)
  BY DEF Init, Place, Open
<1>3. ASSUME NEW r \in Run PROVE Books(r) /\ Held(r)
  <2>1. Holders(r) = {} /\ Pinned(r) = {} /\ Attached(r) = {} /\ Busy(r) = {}
    BY DEF Init, Holders, Pinned, Attached, Busy, HasLease, Open
  <2>2. Cardinality({}) = 0
    BY FS_EmptySet
  <2>3. leases[r] = 0 /\ readers[r] = 0 /\ deferred[r] = 0 /\ ~reserved[r]
    BY DEF Init
  <2> QED BY <2>1, <2>2, <2>3, LiveAssumption DEF Books, Held
<1> QED BY <1>1, <1>2, <1>3 DEF LeaseInv, BookInv

--------------------------------------------------------------------------------
LEMMA BooksAccepts ==
  ASSUME SeamTypes, BookInv, NEW c \in Conn, NEW r \in Run,
         Subscribes(c, r) \/ Replays(c, r) \/ ReplaysNothing(c, r) \/ IsRefused(c, r)
  PROVE  BookInv' /\ Apart(c) /\ stage[c] = "away" /\ runOf'[c] = r
<1>1. LeaseTypes /\ (\A d \in Conn : Place(d)) /\ \A s \in Run : Books(s)
  BY DEF BookInv
<1>2. /\ stage[c] = "away" /\ runOf' = [runOf EXCEPT ![c] = r]
      /\ leases' = [leases EXCEPT ![r] = @ + 1]
      /\ UNCHANGED <<phase, seq, queue, last, got, registry, onDisk, deferred, reserved>>
  BY DEF Subscribes, Replays, ReplaysNothing, IsRefused, Accepted, runVars
<1>3. PICK next \in {"sending", "taking", "refused"}, part \in {"none", "replay", "prefix"} :
        /\ stage' = [stage EXCEPT ![c] = next]
        /\ source' = [source EXCEPT ![c] = part]
        /\ subscribed' = IF part = "prefix" THEN subscribed \union {c} ELSE subscribed
        /\ readers' = IF part = "replay" THEN [readers EXCEPT ![r] = @ + 1] ELSE readers
        /\ next = "refused" => part \in {"none", "replay"}
        /\ next # "refused" => part \in {"prefix", "replay"}
        /\ part # "none" => ~Full(r)
        /\ \A d \in Conn \ {c} : sending'[d] = sending[d] /\ through'[d] = through[d]
  <2>1. source[c] = "none" /\ source = [source EXCEPT ![c] = source[c]]
    BY <1>1, <1>2 DEF Place, SeamTypes
  <2>2. CASE Subscribes(c, r)
    <3>1. \A d \in Conn \ {c} : sending'[d] = sending[d] /\ through'[d] = through[d]
      BY <2>2 DEF Subscribes, Reads, SeamTypes
    <3>2. PICK next \in {"sending", "taking"} : stage' = [stage EXCEPT ![c] = next]
      BY <2>2 DEF Subscribes, Reads
    <3> WITNESS next \in {"sending", "taking", "refused"}, "prefix" \in {"none", "replay", "prefix"}
    <3> QED BY <2>2, <3>1, <3>2 DEF Subscribes, Reads
  <2>3. CASE Replays(c, r)
    <3>1. \A d \in Conn \ {c} : sending'[d] = sending[d] /\ through'[d] = through[d]
      BY <2>3 DEF Replays, Reads, SeamTypes
    <3>2. PICK next \in {"sending", "taking"} : stage' = [stage EXCEPT ![c] = next]
      BY <2>3 DEF Replays, Reads
    <3> WITNESS next \in {"sending", "taking", "refused"}, "replay" \in {"none", "replay", "prefix"}
    <3> QED BY <2>3, <3>1, <3>2 DEF Replays, Reads
  <2>4. CASE ReplaysNothing(c, r)
    <3> WITNESS "refused" \in {"sending", "taking", "refused"}, "replay" \in {"none", "replay", "prefix"}
    <3> QED BY <2>4 DEF ReplaysNothing
  <2>5. CASE IsRefused(c, r)
    <3> WITNESS "refused" \in {"sending", "taking", "refused"}, "none" \in {"none", "replay", "prefix"}
    <3> QED BY <2>1, <2>5 DEF IsRefused
  <2> QED BY <2>2, <2>3, <2>4, <2>5
<1>4. /\ stage'[c] = next /\ source'[c] = part /\ runOf'[c] = r
      /\ \A d \in Conn \ {c} : stage'[d] = stage[d] /\ source'[d] = source[d] /\ runOf'[d] = runOf[d]
  BY <1>2, <1>3 DEF SeamTypes
<1>5. Apart(c)
  BY <1>2, <1>3, <1>4 DEF Apart
<1>6. LeaseTypes'
  BY <1>1, <1>2, <1>3 DEF LeaseTypes
<1>7. Place(c)'
  <2>1. c \notin subscribed
    BY <1>1, <1>2 DEF Place, Open
  <2> QED BY <1>3, <1>4, <2>1 DEF Place, Open, Source
<1>8. \A d \in Conn : Place(d)'
  BY <1>1, <1>5, <1>7, PlacesApart
<1>9. ASSUME NEW s \in Run PROVE Books(s)'
  <2>1. In(c, Holders(s)) = 0 /\ In(c, Pinned(s)) = 0 /\ In(c, Attached(s)) = 0
    BY <1>2 DEF In, Holders, Pinned, Attached, HasLease, Open
  <2>2. In(c, Holders(s)') = IF s = r THEN 1 ELSE 0
    BY <1>3, <1>4 DEF In, Holders, HasLease, Open
  <2>3. In(c, Pinned(s)') = IF s = r /\ part = "replay" THEN 1 ELSE 0
    BY <1>3, <1>4 DEF In, Pinned, Open
  <2>4. In(c, Attached(s)') = IF s = r /\ part = "prefix" THEN 1 ELSE 0
    BY <1>3, <1>4 DEF In, Attached, Open
  <2>5. Subscribers(r) = Attached(r)
    BY <1>1, SubscribersAre DEF SeamTypes
  <2>6. Books(s)
    BY <1>1
  <2> DEFINE h == Cardinality(Holders(s))
             p == Cardinality(Pinned(s))
             a == Cardinality(Attached(s))
  <2>7. h \in Nat /\ p \in Nat /\ a \in Nat
    BY Counts
  <2>8. h' = h + (IF s = r THEN 1 ELSE 0)
    BY <1>5, <2>1, <2>2, <2>7, Moved
  <2>9. p' = p + (IF s = r /\ part = "replay" THEN 1 ELSE 0)
    BY <1>5, <2>1, <2>3, <2>7, Moved
  <2>10. a' = a + (IF s = r /\ part = "prefix" THEN 1 ELSE 0)
    BY <1>5, <2>1, <2>4, <2>7, Moved
  <2>11. /\ leases[s] = h + deferred[s] /\ readers[s] = p /\ a + p <= ReaderLimit
         /\ s = r /\ part # "none" => a + p < ReaderLimit
    BY <1>3, <2>5, <2>6, <2>7, LiveAssumption DEF Books, Full
  <2>12. /\ leases'[s] = leases[s] + (IF s = r THEN 1 ELSE 0) /\ deferred'[s] = deferred[s]
         /\ readers'[s] = readers[s] + (IF s = r /\ part = "replay" THEN 1 ELSE 0)
    BY <1>1, <1>2, <1>3 DEF LeaseTypes
  <2>13. deferred[s] \in Nat /\ ReaderLimit \in Nat
    BY <1>1, LiveAssumption DEF LeaseTypes
  <2>14. Cardinality(Holders(s))' = h' /\ Cardinality(Pinned(s))' = p' /\ Cardinality(Attached(s))' = a'
    OBVIOUS
  <2> HIDE DEF h, p, a
  <2>15. leases'[s] = h' + deferred'[s] /\ readers'[s] = p'
    BY <2>7, <2>8, <2>9, <2>11, <2>12, <2>13
  <2>16. a' + readers'[s] <= ReaderLimit
    BY <2>7, <2>9, <2>10, <2>11, <2>13, <2>15
  <2> QED BY <2>14, <2>15, <2>16 DEF Books
<1> QED BY <1>2, <1>4, <1>5, <1>6, <1>8, <1>9 DEF BookInv

(* A connection goes on: its lease and its place stay. *)
LEMMA BooksGoOn ==
  ASSUME SeamTypes, BookInv, NEW c \in Conn, SendsOn(c) \/ TakesRecord(c) \/ TakesResync(c),
         Seam(c)
  PROVE  BookInv' /\ Apart(c) /\ stage[c] \in {"sending", "taking"} /\ runOf' = runOf
<1>1. LeaseTypes /\ (\A d \in Conn : Place(d)) /\ \A s \in Run : Books(s)
  BY DEF BookInv
<1>2. /\ stage[c] \in {"sending", "taking"} /\ runOf' = runOf
      /\ UNCHANGED <<registry, onDisk, leases, deferred, reserved, readers>>
      /\ subscribed' \in {subscribed, subscribed \union {c}}
      /\ \A d \in Conn \ {c} : queue'[d] = queue[d] /\ last'[d] = last[d] /\ got'[d] = got[d]
  BY DEF SendsOn, TakesRecord, TakesResync, Received, runVars, leaseVars, placeVars, SeamTypes
<1>3. /\ stage'[c] \in {"sending", "taking"}
      /\ source'[c] # "none"
      /\ source'[c] = "replay" <=> source[c] = "replay"
      /\ source[c] # "replay" => c \in subscribed
      /\ c \in subscribed' <=> c \in subscribed
      /\ source[c] # "none"
  <2>1. /\ source[c] # "none" /\ (source[c] # "replay" => c \in subscribed)
        /\ stage[c] = "taking" => source[c] # "replay"
    BY <1>2 DEF Seam
  <2>2. CASE SendsOn(c)
    BY <2>1, <2>2 DEF SendsOn, Reads, SeamTypes, placeVars
  <2>3. CASE TakesRecord(c)
    BY <2>1, <2>3 DEF TakesRecord, SeamTypes
  <2>4. CASE TakesResync(c)
    BY <2>1, <2>4 DEF TakesResync, Reads, SeamTypes
  <2> QED BY <2>2, <2>3, <2>4
<1>4. source'[c] \in Source /\ source[c] \in Source
  <2>1. CASE SendsOn(c)
    BY <2>1 DEF SendsOn, Reads, SeamTypes
  <2>2. CASE TakesRecord(c)
    BY <2>2 DEF TakesRecord, SeamTypes, Source
  <2>3. CASE TakesResync(c)
    BY <2>3 DEF TakesResync, Reads, SeamTypes, Source
  <2> QED BY <2>1, <2>2, <2>3 DEF SeamTypes
<1>5. \A d \in Conn \ {c} : /\ stage'[d] = stage[d] /\ source'[d] = source[d]
                            /\ sending'[d] = sending[d] /\ through'[d] = through[d]
  <2>1. CASE SendsOn(c)
    BY <2>1 DEF SendsOn, Reads, SeamTypes
  <2>2. CASE TakesRecord(c)
    BY <2>2 DEF TakesRecord, SeamTypes
  <2>3. CASE TakesResync(c)
    BY <2>3 DEF TakesResync, Reads, SeamTypes
  <2> QED BY <2>1, <2>2, <2>3
<1>6. Apart(c)
  BY <1>2, <1>5 DEF Apart
<1>7. Place(c)'
  BY <1>1, <1>2, <1>3, <1>4 DEF Place, Open, Source
<1>8. \A d \in Conn : Place(d)'
  BY <1>1, <1>6, <1>7, PlacesApart
<1>9. ASSUME NEW s \in Run PROVE Books(s)'
  <2>1. Holders(s)' = Holders(s) /\ Pinned(s)' = Pinned(s) /\ Attached(s)' = Attached(s)
    BY <1>2, <1>3, <1>4, <1>5 DEF Holders, Pinned, Attached, HasLease, Open, Source
  <2> QED BY <1>1, <1>2, <2>1 DEF Books
<1> QED BY <1>1, <1>2, <1>6, <1>8, <1>9 DEF BookInv, LeaseTypes

LEMMA BooksTimeOut ==
  ASSUME SeamTypes, BookInv, NEW c \in Conn, SendTimesOut(c), Seam(c),
         NEW r \in Run, r = runOf[c]
  PROVE  BookInv' /\ stage[c] = "sending" /\ runOf' = runOf
<1>1. LeaseTypes /\ (\A d \in Conn : Place(d)) /\ \A s \in Run : Books(s)
  BY DEF BookInv
<1>2. /\ stage[c] = "sending" /\ stage' = [stage EXCEPT ![c] = "slow"]
      /\ reserved' = [reserved EXCEPT ![r] = TRUE]
      /\ deferred' = [deferred EXCEPT ![r] = @ + 1]
      /\ UNCHANGED <<registry, onDisk, leases, readers, subscribed, queue>>
      /\ UNCHANGED <<runOf, source, sending, last, through>>
  BY DEF SendTimesOut, runVars, placeVars
<1>3. \A d \in Conn \ {c} : got'[d] = got[d]
  BY DEF SendTimesOut, SeamTypes
<1>4. stage'[c] = "slow" /\ \A d \in Conn \ {c} : stage'[d] = stage[d]
  BY <1>2 DEF SeamTypes
<1>5. Apart(c)
  BY <1>2, <1>3, <1>4 DEF Apart
<1>6. LeaseTypes'
  BY <1>1, <1>2 DEF LeaseTypes
<1>7. Place(c)'
  BY <1>1, <1>2, <1>4 DEF Place, Open
<1>8. \A d \in Conn : Place(d)'
  BY <1>1, <1>5, <1>7, PlacesApart
<1>9. ASSUME NEW s \in Run PROVE Books(s)'
  <2>1. Pinned(s)' = Pinned(s) /\ Attached(s)' = Attached(s)
    BY <1>2, <1>4 DEF Pinned, Attached, Open
  <2>2. In(c, Holders(s)) = (IF s = r THEN 1 ELSE 0) /\ In(c, Holders(s)') = 0
    BY <1>2, <1>4 DEF In, Holders, HasLease, Open
  <2> DEFINE h == Cardinality(Holders(s))
  <2>3. h \in Nat
    BY Counts
  <2>4. h' = h - (IF s = r THEN 1 ELSE 0)
    BY <1>5, <2>2, <2>3, Moved
  <2>5. /\ deferred'[s] = deferred[s] + (IF s = r THEN 1 ELSE 0) /\ leases'[s] = leases[s]
        /\ deferred[s] \in Nat
    BY <1>1, <1>2 DEF LeaseTypes
  <2>6. leases[s] = h + deferred[s]
    BY <1>1 DEF Books
  <2>7. Cardinality(Holders(s))' = h'
    OBVIOUS
  <2> HIDE DEF h
  <2>8. leases'[s] = h' + deferred'[s]
    BY <2>3, <2>4, <2>5, <2>6
  <2> QED BY <1>1, <1>2, <2>1, <2>7, <2>8 DEF Books
<1> QED BY <1>2, <1>6, <1>8, <1>9 DEF BookInv

(* The finally clause: place and pin go, the lease goes with them or stays with
   its timer. *)
LEMMA BooksLeave ==
  ASSUME SeamTypes, BookInv, NEW c \in Conn, NEW r \in Run, r = runOf[c],
         stage[c] \in Open, NEW end \in {"complete", "cut"}, Leaves(c, end), Apart(c),
         runOf' = runOf, deferred' = deferred, reserved' = reserved,
         registry' \subseteq Run, onDisk' \subseteq Run,
         leases' = IF stage[c] = "slow" THEN leases ELSE [leases EXCEPT ![r] = @ - 1]
  PROVE  BookInv'
<1>1. LeaseTypes /\ (\A d \in Conn : Place(d)) /\ \A s \in Run : Books(s)
  BY DEF BookInv
<1>2. stage'[c] = end /\ subscribed' = subscribed \ {c}
  BY DEF Leaves, SeamTypes
<1>3. end \notin Open /\ end # "away"
  BY DEF Open
<1>4. Place(c)'
  BY <1>2, <1>3 DEF Place, Open
<1>5. \A d \in Conn : Place(d)'
  BY <1>1, <1>4, PlacesApart
<1>6. ASSUME NEW s \in Run
      PROVE  /\ Books(s)' /\ leases'[s] \in Nat /\ readers'[s] \in Nat
  <2>1. In(c, Holders(s)') = 0 /\ In(c, Pinned(s)') = 0 /\ In(c, Attached(s)') = 0
    BY <1>2, <1>3 DEF In, Holders, Pinned, Attached, HasLease
  <2>2. In(c, Holders(s)) = IF s = r /\ stage[c] # "slow" THEN 1 ELSE 0
    BY DEF In, Holders, HasLease
  <2>3. In(c, Pinned(s)) = IF s = r /\ source[c] = "replay" THEN 1 ELSE 0
    BY DEF In, Pinned
  <2>4. In(c, Attached(s)) \in {0, 1}
    BY DEF In
  <2> DEFINE h == Cardinality(Holders(s))
             p == Cardinality(Pinned(s))
             a == Cardinality(Attached(s))
  <2>5. h \in Nat /\ p \in Nat /\ a \in Nat
    BY Counts
  <2>6. h' = h - In(c, Holders(s)) /\ h >= In(c, Holders(s))
    BY <2>1, <2>4, <2>5, <2>2, Moved
  <2>7. p' = p - In(c, Pinned(s)) /\ p >= In(c, Pinned(s))
    BY <2>1, <2>5, <2>3, Moved
  <2>8. a' <= a /\ a' \in Int
    BY <2>1, <2>4, <2>5, Moved
  <2>9. leases[s] = h + deferred[s] /\ readers[s] = p /\ a + p <= ReaderLimit
    BY <1>1 DEF Books
  <2>10. deferred[s] \in Nat /\ ReaderLimit \in Nat /\ leases[s] \in Nat /\ readers[s] \in Nat
    BY <1>1, LiveAssumption DEF LeaseTypes
  <2>11. leases'[s] = leases[s] - In(c, Holders(s))
    BY <1>1, <2>2, <2>10 DEF LeaseTypes
  <2>12. readers'[s] = readers[s] - In(c, Pinned(s))
    <3>1. CASE s = r /\ source[c] = "replay"
      <4>1. readers[s] > 0
        BY <2>3, <2>5, <2>7, <2>9, <3>1
      <4>2. readers' = [readers EXCEPT ![r] = IF readers[r] > 0 THEN readers[r] - 1 ELSE 0]
        BY <3>1 DEF Leaves
      <4> QED BY <1>1, <2>3, <3>1, <4>1, <4>2 DEF LeaseTypes
    <3>2. CASE ~(s = r /\ source[c] = "replay")
      BY <1>1, <2>3, <2>10, <3>2 DEF LeaseTypes, Leaves
    <3> QED BY <3>1, <3>2
  <2>13. Cardinality(Holders(s))' = h' /\ Cardinality(Pinned(s))' = p' /\ Cardinality(Attached(s))' = a'
    OBVIOUS
  <2>14. In(c, Holders(s)) \in {0, 1} /\ In(c, Pinned(s)) \in {0, 1}
    BY DEF In
  <2> HIDE DEF h, p, a
  <2>15. leases'[s] = h' + deferred'[s] /\ readers'[s] = p' /\ leases'[s] \in Nat /\ readers'[s] \in Nat
    BY <2>5, <2>6, <2>7, <2>9, <2>10, <2>11, <2>12, <2>14
  <2>16. a' + readers'[s] <= ReaderLimit
    BY <2>5, <2>7, <2>8, <2>9, <2>10, <2>14, <2>15
  <2> QED BY <2>13, <2>15, <2>16 DEF Books
<1>7. LeaseTypes'
  <2>1. leases' \in [Run -> Nat]
    <3>1. leases' = [s \in Run |-> leases'[s]]
      BY <1>1 DEF LeaseTypes
    <3> QED BY <1>6, <3>1
  <2>2. readers' \in [Run -> Nat]
    <3>1. readers' = [s \in Run |-> readers'[s]]
      BY <1>1 DEF LeaseTypes, Leaves
    <3> QED BY <1>6, <3>1
  <2> QED BY <1>1, <2>1, <2>2 DEF LeaseTypes
<1> QED BY <1>5, <1>6, <1>7 DEF BookInv

(* Retention and _trim only take away, and not what is leased, attached,
   pinned or reserved. *)
LEMMA Tidied ==
  ASSUME Tidies
  PROVE  /\ onDisk' \subseteq onDisk /\ registry' \subseteq registry
         /\ \A r \in Run : r \in onDisk /\ leases'[r] # 0 => r \in onDisk'
         /\ \A r \in Run : r \in registry /\ leases'[r] # 0 /\ r \notin Idle' => r \in registry'
<1>1. PICK gone \in SUBSET (onDisk \intersect Expendable') :
        /\ onDisk' = onDisk \ gone
        /\ registry' = Trimmed(registry \ gone, Idle')
  BY DEF Tidies
<1>2. \A r \in gone : leases'[r] = 0
  BY <1>1 DEF Expendable
<1> QED BY <1>1, <1>2 DEF Trimmed

LEMMA BooksEnd ==
  ASSUME SeamTypes, BookInv, NEW c \in Conn, NEW r \in Run, r = runOf[c],
         ReplayEnds(c) \/ TakesEnd(c) \/ RefusedLeaves(c) \/ IsCutOff(c) \/ SlowLeaves(c)
  PROVE  /\ BookInv' /\ Apart(c) /\ runOf' = runOf /\ stage'[c] \in {"complete", "cut"}
         /\ deferred' = deferred /\ reserved' = reserved /\ stage[c] \in Open
         /\ Tidies \/ UNCHANGED <<registry, onDisk>>
         /\ \A s \in Run : leases'[s] <= leases[s]
<1>1. LeaseTypes
  BY DEF BookInv
<1>2. PICK end \in {"complete", "cut"} :
        /\ Leaves(c, end) /\ stage[c] \in Open
        /\ UNCHANGED <<phase, seq, runOf, source, sending, through, deferred, reserved>>
        /\ leases' = IF stage[c] = "slow" THEN leases ELSE [leases EXCEPT ![r] = @ - 1]
        /\ Tidies \/ UNCHANGED <<registry, onDisk>>
  <2>1. CASE SlowLeaves(c)
    BY <2>1 DEF SlowLeaves, Open, runVars
  <2>2. CASE ~SlowLeaves(c)
    BY <2>2 DEF ReplayEnds, TakesEnd, RefusedLeaves, IsCutOff, Ends, GivesLeaseBack, Open
  <2> QED BY <2>1, <2>2
<1>3. \A d \in Conn \ {c} : got'[d] = got[d] /\ last'[d] = last[d]
  BY DEF ReplayEnds, Received, TakesEnd, RefusedLeaves, IsCutOff, SlowLeaves, SeamTypes
<1>4. Apart(c)
  BY <1>2, <1>3 DEF Apart, Leaves, SeamTypes
<1>5. registry' \subseteq Run /\ onDisk' \subseteq Run
  BY <1>1, <1>2, Tidied DEF LeaseTypes
<1>6. BookInv'
  BY <1>2, <1>4, <1>5, BooksLeave
<1>7. stage'[c] = end
  BY <1>2 DEF Leaves, SeamTypes
<1>8. \A s \in Run : leases'[s] <= leases[s]
  BY <1>1, <1>2 DEF LeaseTypes
<1> QED BY <1>2, <1>4, <1>6, <1>7, <1>8

(* Steps of the server move no connection. *)
LEMMA BooksServer ==
  ASSUME BookInv, UNCHANGED <<subscribed, stage, runOf, source>>, readers' = readers,
         registry' \subseteq Run, onDisk' \subseteq Run, reserved' \in [Run -> BOOLEAN],
         leases' \in [Run -> Nat], deferred' \in [Run -> Nat],
         \A s \in Run : leases'[s] - deferred'[s] = leases[s] - deferred[s]
  PROVE  BookInv'
<1>1. LeaseTypes /\ (\A d \in Conn : Place(d)) /\ \A s \in Run : Books(s)
  BY DEF BookInv
<1>2. \A d \in Conn : Place(d)'
  BY <1>1 DEF Place
<1>3. ASSUME NEW s \in Run PROVE Books(s)'
  <2>1. Holders(s)' = Holders(s) /\ Pinned(s)' = Pinned(s) /\ Attached(s)' = Attached(s)
    BY DEF Holders, Pinned, Attached, HasLease
  <2>2. Cardinality(Holders(s)) \in Nat
    BY Counts
  <2>3. /\ leases[s] \in Nat /\ deferred[s] \in Nat /\ leases'[s] \in Nat /\ deferred'[s] \in Nat
    BY <1>1 DEF LeaseTypes
  <2>4. leases'[s] = Cardinality(Holders(s)) + deferred'[s]
    BY <1>1, <2>2, <2>3 DEF Books
  <2> QED BY <1>1, <2>1, <2>4 DEF Books
<1> QED BY <1>1, <1>2, <1>3 DEF BookInv, LeaseTypes

--------------------------------------------------------------------------------
LEMMA HeldStep ==
  ASSUME SeamTypes', BookInv', LeaseInv, NEW r \in Run,
         Tidies \/ UNCHANGED <<registry, onDisk>>,
         leases'[r] > 0 => r \in onDisk,
         reserved'[r] => deferred'[r] > 0,
         reserved'[r] \/ Busy(r)' # {} => r \in registry
  PROVE  Held(r)'
<1>1. LeaseTypes' /\ (\A d \in Conn : Place(d)') /\ Books(r)'
  BY DEF BookInv
<1>2. leases'[r] \in Nat /\ deferred'[r] \in Nat /\ readers'[r] \in Nat
  BY <1>1 DEF LeaseTypes
<1>3. \A S \in SUBSET Conn : S # {} => Cardinality(S) > 0 /\ Cardinality(S) \in Nat
  <2> TAKE S \in SUBSET Conn
  <2> HAVE S # {}
  <2>1. PICK d \in Conn : d \in S
    OBVIOUS
  <2>2. Cardinality(S) >= In(d, S) /\ Cardinality(S) \in Nat
    BY Counted
  <2> QED BY <2>1, <2>2 DEF In
<1>4. Holders(r)' \in SUBSET Conn /\ Pinned(r)' \in SUBSET Conn
  BY DEF Holders, Pinned
<1>5. leases'[r] = Cardinality(Holders(r)') + deferred'[r] /\ readers'[r] = Cardinality(Pinned(r)')
  BY <1>1 DEF Books
<1>6. \A S \in SUBSET Conn : Cardinality(S) \in Nat
  BY LiveAssumption, FS_Subset, FS_CardinalityType
<1>7. leases'[r] > 0 => r \in onDisk'
  BY Tidied, <1>2
<1>8. reserved'[r] => r \in registry'
  <2> HAVE reserved'[r]
  <2>1. leases'[r] # 0
    BY <1>2, <1>4, <1>5, <1>6
  <2>2. r \notin Idle'
    BY DEF Idle
  <2> QED BY <2>1, <2>2, Tidied
<1>9. Busy(r)' # {} => r \in registry'
  <2> HAVE Busy(r)' # {}
  <2>1. PICK d \in Conn : stage'[d] \in {"sending", "taking"} /\ runOf'[d] = r
    BY DEF Busy
  <2>2. Holders(r)' # {}
    BY <2>1 DEF Holders, HasLease, Open
  <2>3. leases'[r] # 0
    BY <1>2, <1>3, <1>4, <1>5, <2>2
  <2>4. source'[d] \in {"replay", "prefix", "queue"} /\ stage'[d] \in Open
    BY <1>1, <2>1 DEF Place, SeamTypes, Source, Open
  <2>5. CASE source'[d] = "replay"
    <3>1. Pinned(r)' # {}
      BY <2>1, <2>4, <2>5 DEF Pinned
    <3>2. readers'[r] # 0
      BY <1>2, <1>3, <1>4, <1>5, <3>1
    <3>3. r \notin Idle'
      BY <3>2 DEF Idle
    <3> QED BY <2>3, <3>3, Tidied
  <2>6. CASE source'[d] \in {"prefix", "queue"}
    <3>1. d \in subscribed'
      BY <1>1, <2>4, <2>6 DEF Place
    <3>2. Subscribers(r)' # {}
      BY <2>1, <3>1 DEF Subscribers
    <3>3. r \notin Idle'
      BY <3>2 DEF Idle
    <3> QED BY <2>3, <3>3, Tidied
  <2> QED BY <2>4, <2>5, <2>6
<1> QED BY <1>7, <1>8, <1>9 DEF Held

LEMMA LeaseNext == SeamInv /\ SeamInv' /\ LeaseInv /\ [Next]_vars => LeaseInv'
<1> SUFFICES ASSUME SeamInv, SeamInv', LeaseInv, [Next]_vars PROVE LeaseInv'
  OBVIOUS
<1>1. SeamTypes /\ SeamTypes' /\ (\A c \in Conn : Seam(c)) /\ BookInv /\ LeaseTypes
      /\ \A r \in Run : Held(r) /\ Books(r)
  BY DEF SeamInv, LeaseInv, BookInv
<1>2. ASSUME NEW s \in Run, Start(s) PROVE LeaseInv'
  <2>1. /\ registry' = registry \union {s} /\ onDisk' = onDisk \union {s}
        /\ UNCHANGED <<leases, deferred, reserved, readers, subscribed, stage, runOf, source>>
    BY <1>2 DEF Start, leaseVars, placeVars, connVars
  <2>2. /\ registry' \subseteq Run /\ onDisk' \subseteq Run /\ reserved' \in [Run -> BOOLEAN]
        /\ leases' \in [Run -> Nat] /\ deferred' \in [Run -> Nat]
    BY <1>1, <2>1 DEF LeaseTypes
  <2>3. BookInv'
    BY <1>1, <2>1, <2>2, BooksServer
  <2>4. \A r \in Run : Held(r)'
    BY <1>1, <2>1 DEF Held, Busy
  <2> QED BY <2>3, <2>4 DEF LeaseInv
<1>3. ASSUME NEW s \in Run, Emit(s) PROVE LeaseInv'
  <2>1. UNCHANGED <<registry, onDisk, leases, deferred, reserved, readers, subscribed, stage, runOf, source>>
    BY <1>3 DEF Emit, leaseVars, connVars
  <2>2. BookInv'
    BY <1>1, <2>1, BooksServer DEF LeaseTypes
  <2>3. \A r \in Run : Held(r)'
    BY <1>1, <2>1 DEF Held, Busy
  <2> QED BY <2>2, <2>3 DEF LeaseInv
<1>4. ASSUME TidiesUp \/ \E s \in Run : Finish(s) PROVE LeaseInv'
  <2>1. /\ Tidies
        /\ UNCHANGED <<leases, deferred, reserved, readers, subscribed, stage, runOf, source>>
    BY <1>4 DEF TidiesUp, Finish, leaseVars, placeVars, connVars
  <2>2. registry' \subseteq Run /\ onDisk' \subseteq Run
    BY <1>1, <2>1, Tidied DEF LeaseTypes
  <2>3. BookInv'
    BY <1>1, <2>1, <2>2, BooksServer DEF LeaseTypes
  <2>4. ASSUME NEW r \in Run PROVE Held(r)'
    <3>1. Held(r) /\ Busy(r)' = Busy(r)
      BY <1>1, <2>1 DEF Busy
    <3> QED BY <1>1, <2>1, <2>3, <3>1, HeldStep DEF Held
  <2> QED BY <2>3, <2>4 DEF LeaseInv
<1>5. ASSUME RetainedElsewhere PROVE LeaseInv'
  <2>1. PICK gone \in SUBSET (onDisk \intersect Expendable) : onDisk' = onDisk \ gone
    BY <1>5 DEF RetainedElsewhere
  <2>2. UNCHANGED <<registry, leases, deferred, reserved, readers, subscribed, stage, runOf, source>>
    BY <1>5 DEF RetainedElsewhere, leaseVars, placeVars, connVars
  <2>3. BookInv'
    BY <1>1, <2>1, <2>2, BooksServer DEF LeaseTypes
  <2>4. \A r \in gone : leases[r] = 0
    BY <2>1 DEF Expendable
  <2>5. \A r \in Run : Held(r)'
    BY <1>1, <2>1, <2>2, <2>4 DEF Held, Busy
  <2> QED BY <2>3, <2>5 DEF LeaseInv
<1>6. ASSUME NEW s \in Run, ReservationLapses(s) PROVE LeaseInv'
  <2>1. /\ reserved' = [reserved EXCEPT ![s] = FALSE]
        /\ UNCHANGED <<registry, onDisk, leases, deferred, readers, subscribed, stage, runOf, source>>
    BY <1>6 DEF ReservationLapses, runVars, placeVars, connVars
  <2>2. reserved' \in [Run -> BOOLEAN]
    BY <1>1, <2>1 DEF LeaseTypes
  <2>3. BookInv'
    BY <1>1, <2>1, <2>2, BooksServer DEF LeaseTypes
  <2>4. \A r \in Run : Held(r)'
    BY <1>1, <2>1 DEF Held, Busy, LeaseTypes
  <2> QED BY <2>3, <2>4 DEF LeaseInv
<1>7. ASSUME NEW s \in Run, TimerReleases(s) PROVE LeaseInv'
  <2>1. /\ deferred' = [deferred EXCEPT ![s] = @ - 1] /\ leases' = [leases EXCEPT ![s] = @ - 1]
        /\ deferred[s] > Cardinality(Closing(s)) /\ (deferred[s] = 1 => ~reserved[s])
        /\ Tidies
        /\ UNCHANGED <<reserved, readers, subscribed, stage, runOf, source>>
    BY <1>7 DEF TimerReleases, GivesLeaseBack, placeVars, connVars
  <2>2. deferred[s] \in Nat /\ leases[s] \in Nat
    BY <1>1 DEF LeaseTypes
  <2>3. deferred[s] > 0 /\ leases[s] > 0
    <3>1. Cardinality(Holders(s)) \in Nat
      BY Counts
    <3>2. deferred[s] > 0
      <4>1. IsFiniteSet(Closing(s))
        BY LiveAssumption, FS_Subset DEF Closing
      <4>2. Cardinality(Closing(s)) \in Nat
        BY <4>1, FS_CardinalityType
      <4> HIDE DEF Closing
      <4> QED BY <2>1, <2>2, <4>2
    <3> QED BY <1>1, <2>2, <3>1, <3>2 DEF Books
  <2>4. /\ deferred' \in [Run -> Nat] /\ leases' \in [Run -> Nat]
        /\ \A r \in Run : leases'[r] - deferred'[r] = leases[r] - deferred[r]
    BY <1>1, <2>1, <2>2, <2>3 DEF LeaseTypes
  <2>5. registry' \subseteq Run /\ onDisk' \subseteq Run
    BY <1>1, <2>1, Tidied DEF LeaseTypes
  <2>6. BookInv'
    BY <1>1, <2>1, <2>4, <2>5, BooksServer DEF LeaseTypes
  <2>7. ASSUME NEW r \in Run PROVE Held(r)'
    <3>1. Held(r) /\ Busy(r)' = Busy(r)
      BY <1>1, <2>1 DEF Busy
    <3>2. leases'[r] <= leases[r] /\ leases[r] \in Nat /\ leases'[r] \in Nat
      BY <1>1, <2>1, <2>2, <2>4 DEF LeaseTypes
    <3>3. reserved'[r] => deferred'[r] > 0
      BY <1>1, <2>1, <2>2, <2>3, <3>1 DEF LeaseTypes, Held
    <3> QED BY <1>1, <2>1, <2>6, <3>1, <3>2, <3>3, HeldStep DEF Held
  <2> QED BY <2>6, <2>7 DEF LeaseInv
<1>8. ASSUME NEW c \in Conn, Connects(c) PROVE LeaseInv'
  <2>1. PICK s \in Run : Subscribes(c, s) \/ Replays(c, s) \/ ReplaysNothing(c, s) \/ IsRefused(c, s)
    BY <1>8 DEF Connects
  <2>2. BookInv' /\ Apart(c) /\ stage[c] = "away" /\ runOf'[c] = s
    BY <1>1, <2>1, BooksAccepts
  <2>3. /\ s \in registry /\ s \in onDisk /\ leases' = [leases EXCEPT ![s] = @ + 1]
        /\ UNCHANGED <<registry, onDisk, deferred, reserved>>
    BY <2>1 DEF Subscribes, Replays, ReplaysNothing, IsRefused, Accepted, runVars
  <2>4. \A r \in Run : r # s => Busy(r)' = Busy(r)
    BY <2>2 DEF Apart, Busy
  <2>5. \A r \in Run : Held(r)'
    BY <1>1, <2>3, <2>4 DEF Held, LeaseTypes
  <2> QED BY <2>2, <2>5 DEF LeaseInv
<1>9. ASSUME NEW c \in Conn, SendsOn(c) \/ TakesRecord(c) \/ TakesResync(c) PROVE LeaseInv'
  <2>1. BookInv' /\ Apart(c) /\ stage[c] \in {"sending", "taking"} /\ runOf' = runOf
    BY <1>1, <1>9, BooksGoOn
  <2>2. UNCHANGED <<registry, onDisk, leases, deferred, reserved>>
    BY <1>9 DEF SendsOn, TakesRecord, TakesResync, runVars, leaseVars
  <2>3. \A r \in Run : Busy(r)' \subseteq Busy(r)
    BY <2>1 DEF Apart, Busy
  <2>4. \A r \in Run : Held(r)'
    BY <1>1, <2>2, <2>3 DEF Held
  <2> QED BY <2>1, <2>4 DEF LeaseInv
<1>10. ASSUME NEW c \in Conn, SendTimesOut(c) PROVE LeaseInv'
  <2> DEFINE s == runOf[c]
  <2>1. s \in Run /\ stage[c] = "sending"
    BY <1>1, <1>10 DEF SendTimesOut, Seam, Open
  <2>2. BookInv' /\ runOf' = runOf
    BY <1>1, <1>10, <2>1, BooksTimeOut
  <2>3. /\ stage' = [stage EXCEPT ![c] = "slow"] /\ reserved' = [reserved EXCEPT ![s] = TRUE]
        /\ deferred' = [deferred EXCEPT ![s] = @ + 1]
        /\ UNCHANGED <<registry, onDisk, leases>>
    BY <1>10 DEF SendTimesOut, runVars
  <2>4. s \in registry
    BY <1>1, <2>1 DEF Held, Busy
  <2>5. \A r \in Run : Busy(r)' \subseteq Busy(r)
    BY <1>1, <2>2, <2>3 DEF Busy, SeamTypes
  <2>6. ASSUME NEW r \in Run PROVE Held(r)'
    <3>1. Held(r) /\ deferred[r] \in Nat /\ Busy(r)' \subseteq Busy(r)
      BY <1>1, <2>5 DEF LeaseTypes
    <3>2. CASE r = s
      BY <1>1, <2>3, <2>4, <3>1, <3>2 DEF Held, LeaseTypes
    <3>3. CASE r # s
      <4>1. deferred'[r] = deferred[r] /\ (reserved'[r] <=> reserved[r])
        BY <1>1, <2>3, <3>3 DEF LeaseTypes
      <4> QED BY <2>3, <3>1, <4>1 DEF Held
    <3> QED BY <3>2, <3>3
  <2> QED BY <2>2, <2>6 DEF LeaseInv
<1>11. ASSUME NEW c \in Conn, ReplayEnds(c) \/ TakesEnd(c) \/ RefusedLeaves(c) \/ IsCutOff(c) \/ SlowLeaves(c)
       PROVE  LeaseInv'
  <2> DEFINE s == runOf[c]
  <2>1. s \in Run
    BY <1>1, <1>11 DEF ReplayEnds, TakesEnd, RefusedLeaves, IsCutOff, SlowLeaves, Seam, Open
  <2>2. /\ BookInv' /\ Apart(c) /\ runOf' = runOf /\ stage'[c] \in {"complete", "cut"}
        /\ deferred' = deferred /\ reserved' = reserved
        /\ Tidies \/ UNCHANGED <<registry, onDisk>>
        /\ \A r \in Run : leases'[r] <= leases[r]
    BY <1>1, <1>11, <2>1, BooksEnd
  <2>3. \A r \in Run : Busy(r)' \subseteq Busy(r)
    BY <2>2 DEF Apart, Busy
  <2>4. ASSUME NEW r \in Run PROVE Held(r)'
    <3>1. Held(r) /\ Busy(r)' \subseteq Busy(r) /\ leases'[r] <= leases[r]
      BY <1>1, <2>2, <2>3
    <3>2. leases[r] \in Nat /\ leases'[r] \in Nat
      BY <1>1, <2>2 DEF LeaseTypes, BookInv
    <3>3. leases'[r] > 0 => r \in onDisk
      BY <3>1, <3>2 DEF Held
    <3>4. /\ reserved'[r] => deferred'[r] > 0
          /\ reserved'[r] \/ Busy(r)' # {} => r \in registry
      BY <2>2, <3>1 DEF Held
    <3> QED BY <1>1, <2>2, <3>3, <3>4, HeldStep
  <2> QED BY <2>2, <2>4 DEF LeaseInv
<1>12. CASE UNCHANGED vars
  <2>1. UNCHANGED <<registry, onDisk, leases, deferred, reserved, readers, subscribed, stage, runOf, source>>
    BY <1>12 DEF vars, runVars, leaseVars, placeVars, connVars
  <2>2. BookInv'
    BY <1>1, <2>1, BooksServer DEF LeaseTypes
  <2>3. \A r \in Run : Held(r)'
    BY <1>1, <2>1 DEF Held, Busy
  <2> QED BY <2>2, <2>3 DEF LeaseInv
<1> QED BY <1>2, <1>3, <1>4, <1>5, <1>6, <1>7, <1>8, <1>9, <1>10, <1>11, <1>12 DEF Next, Goes

LEMMA LeaseAlways == Spec => [](SeamInv /\ LeaseInv)
<1>1. Init => SeamInv /\ LeaseInv
  BY SeamInit, BooksInit
<1>2. SeamInv /\ LeaseInv /\ [Next]_vars => SeamInv' /\ LeaseInv'
  BY SeamNext, LeaseNext
<1> QED BY <1>1, <1>2, PTL DEF Spec

--------------------------------------------------------------------------------
(* The markers in the history directory are those of the connections that read
   and of the timers, whatever closes first, and no log under one is deleted. *)
THEOREM LeasesAlways == Spec => []LeasesAreExact
<1>1. SeamInv /\ LeaseInv => LeasesAreExact
  BY DEF LeaseInv, BookInv, Books, Held, LeasesAreExact, Holders
<1> QED BY <1>1, LeaseAlways, PTL

(* Subscribers and pins are the connections that have a place, and never more
   than the limit. *)
THEOREM PlacesAlways == Spec => []PlacesAreExact
<1>1. SeamInv /\ LeaseInv => PlacesAreExact
  <2> SUFFICES ASSUME SeamInv, LeaseInv, NEW r \in Run
               PROVE  /\ readers[r] = Cardinality(Pinned(r))
                      /\ Subscribers(r) = Attached(r)
                      /\ Cardinality(Subscribers(r)) + readers[r] <= ReaderLimit
    BY DEF PlacesAreExact, Pinned, Attached
  <2>1. Subscribers(r) = Attached(r)
    BY SubscribersAre DEF SeamInv, SeamTypes, LeaseInv, BookInv
  <2> QED BY <2>1 DEF LeaseInv, BookInv, Books
<1> QED BY <1>1, LeaseAlways, PTL

(* Until the reservation of a slow viewer lapses, its run is registered and its
   log is on disk, whatever ends, is trimmed or is deleted meanwhile. *)
THEOREM ResyncAlways == Spec => []ResyncIsPossible
<1>1. SeamInv /\ LeaseInv => ResyncIsPossible
  <2> SUFFICES ASSUME LeaseInv, NEW r \in Run, reserved[r]
               PROVE  r \in registry /\ r \in onDisk
    BY DEF ResyncIsPossible
  <2>1. Held(r) /\ Books(r) /\ LeaseTypes
    BY DEF LeaseInv, BookInv
  <2>2. leases[r] > 0
    <3>1. Cardinality(Holders(r)) \in Nat /\ deferred[r] > 0 /\ deferred[r] \in Nat
      BY <2>1, Counts DEF Held, LeaseTypes
    <3> QED BY <2>1, <3>1 DEF Books
  <2> QED BY <2>1, <2>2 DEF Held
<1> QED BY <1>1, LeaseAlways, PTL

--------------------------------------------------------------------------------
(* Part 3.  The registry: every running run is in it, and few others. *)
Unpromised == {r \in registry \intersect Idle : deferred[r] = 0}

(* A timer is behind each connection whose close frame is on its way. *)
TimedInv == \A r \in Run : Cardinality(Closing(r)) <= deferred[r]
RunningInv == \A r \in Run : phase[r] = "running" => r \in registry
FewInv == Cardinality(Unpromised) <= FinishedKept

LEMMA LeastRun ==
  ASSUME NEW S \in SUBSET Run, S # {}
  PROVE  \E x \in S : \A y \in S : x <= y
<1>1. S \in SUBSET Nat
  BY LiveAssumption DEF Run
<1>2. PICK x \in S : \A y \in S : ~(<<y, x>> \in OpToRel(<, Nat))
  BY <1>1, NatLessThanWellFounded, WFMin
<1>3. \A y \in S : ~(y < x)
  BY <1>1, <1>2 DEF OpToRel
<1> QED BY <1>1, <1>3

LEMMA SomeRuns ==
  ASSUME NEW S \in SUBSET Run, NEW T \in SUBSET S
  PROVE  /\ IsFiniteSet(S) /\ IsFiniteSet(T) /\ Cardinality(S) \in Nat /\ Cardinality(T) \in Nat
         /\ Cardinality(T) <= Cardinality(S)
<1>1. IsFiniteSet(Run)
  BY LiveAssumption, FS_Interval DEF Run
<1>2. IsFiniteSet(S)
  BY <1>1, FS_Subset
<1>3. IsFiniteSet(T) /\ Cardinality(T) <= Cardinality(S)
  BY <1>2, FS_Subset
<1> QED BY <1>2, <1>3, FS_CardinalityType

(* _trim keeps no more idle runs than it should: behind the oldest one that it
   keeps there are fewer than that many. *)
LEMMA FewKept ==
  ASSUME NEW R \in SUBSET Run, NEW I \in SUBSET Run
  PROVE  Cardinality(Trimmed(R, I) \intersect I) <= FinishedKept
<1> DEFINE K == Trimmed(R, I) \intersect I
           After(r) == {s \in R \intersect I : s > r}
<1>1. K \in SUBSET Run /\ \A r \in K : Cardinality(After(r)) < FinishedKept
  BY DEF Trimmed
<1>2. CASE K = {}
  <2>1. Cardinality(K) = 0
    BY <1>2, FS_EmptySet
  <2> QED BY <2>1, LiveAssumption
<1>3. CASE K # {}
  <2> HIDE DEF K
  <2>1. PICK m \in K : \A r \in K : m <= r
    BY <1>1, <1>3, LeastRun
  <2>2. m \in Run /\ K \subseteq R \intersect I
    BY <1>1 DEF K, Trimmed
  <2>3. K \ {m} \subseteq After(m)
    BY <1>1, <2>1, <2>2, LiveAssumption DEF Run
  <2>4. After(m) \in SUBSET Run
    OBVIOUS
  <2> HIDE DEF After
  <2>5. /\ Cardinality(K \ {m}) \in Nat /\ Cardinality(After(m)) \in Nat
        /\ Cardinality(K \ {m}) <= Cardinality(After(m))
    BY <2>3, <2>4, SomeRuns
  <2>6. Cardinality(K \ {m}) = Cardinality(K) - 1
    <3>1. IsFiniteSet(K)
      BY <1>1, SomeRuns
    <3> QED BY <2>1, <3>1, FS_RemoveElement
  <2>7. Cardinality(K) \in Nat
    BY <1>1, SomeRuns
  <2>8. Cardinality(After(m)) < FinishedKept
    BY <1>1, <2>1
  <2>9. Cardinality(K) <= FinishedKept
    BY <2>5, <2>6, <2>7, <2>8, LiveAssumption
  <2> QED BY <2>9 DEF K
<1> QED BY <1>2, <1>3

LEMMA FewAfter ==
  ASSUME Tidies, registry \subseteq Run
  PROVE  FewInv'
<1>1. PICK gone : registry' = Trimmed(registry \ gone, Idle')
  BY DEF Tidies
<1>2. PICK R \in SUBSET Run, I \in SUBSET Run : R = registry \ gone /\ I = Idle'
  BY DEF Idle
<1>3. Cardinality(Trimmed(R, I) \intersect I) <= FinishedKept
  BY FewKept
<1>4. Trimmed(R, I) \intersect I \in SUBSET Run
  OBVIOUS
<1>5. Unpromised' \in SUBSET (Trimmed(R, I) \intersect I)
  BY <1>1, <1>2 DEF Unpromised
<1>6. /\ Cardinality(Unpromised') <= Cardinality(Trimmed(R, I) \intersect I)
      /\ Cardinality(Unpromised') \in Nat /\ Cardinality(Trimmed(R, I) \intersect I) \in Nat
  BY <1>4, <1>5, SomeRuns
<1> QED BY <1>3, <1>6, LiveAssumption DEF FewInv

LEMMA FewStill ==
  ASSUME FewInv, Unpromised' \subseteq Unpromised
  PROVE  FewInv'
<1>1. Unpromised \in SUBSET Run
  BY DEF Unpromised, Idle
<1>2. /\ Cardinality(Unpromised') <= Cardinality(Unpromised)
      /\ Cardinality(Unpromised') \in Nat /\ Cardinality(Unpromised) \in Nat
  BY <1>1, SomeRuns
<1> QED BY <1>2, LiveAssumption DEF FewInv

LEMMA Clocks ==
  ASSUME NEW r \in Run
  PROVE  /\ Closing(r) \in SUBSET Conn /\ IsFiniteSet(Closing(r))
         /\ Cardinality(Closing(r)) \in Nat
         /\ \A c \in Closing(r) : Cardinality(Closing(r)) > 0
<1>1. Closing(r) \in SUBSET Conn /\ IsFiniteSet(Closing(r))
  BY LiveAssumption, FS_Subset DEF Closing
<1>2. Cardinality(Closing(r)) \in Nat
  BY <1>1, FS_CardinalityType
<1>3. Closing(r) # {} => Cardinality(Closing(r)) # 0
  BY <1>1, FS_EmptySet
<1> QED BY <1>1, <1>2, <1>3

(* No connection is told to come back, and no timer fires. *)
LEMMA TimedStill ==
  ASSUME TimedInv, LeaseTypes, deferred' = deferred, \A r \in Run : Closing(r)' \subseteq Closing(r)
  PROVE  TimedInv'
<1> SUFFICES ASSUME NEW r \in Run PROVE Cardinality(Closing(r)') <= deferred[r]
  BY DEF TimedInv
<1>1. Closing(r)' \in SUBSET Closing(r) /\ IsFiniteSet(Closing(r)) /\ Cardinality(Closing(r)) \in Nat
  BY Clocks
<1>2. Cardinality(Closing(r)') <= Cardinality(Closing(r)) /\ IsFiniteSet(Closing(r)')
  BY <1>1, FS_Subset
<1>3. Cardinality(Closing(r)') \in Nat
  BY <1>2, FS_CardinalityType
<1>4. Cardinality(Closing(r)) <= deferred[r] /\ deferred[r] \in Nat
  BY DEF TimedInv, LeaseTypes
<1> QED BY <1>1, <1>2, <1>3, <1>4

(* Steps that leave the registry, the timers and the ends of runs alone: an idle
   run cannot come of them. *)
LEMMA RegistryStill ==
  ASSUME SeamTypes, LeaseTypes, RunningInv, FewInv, TimedInv,
         UNCHANGED <<phase, registry>>,
         \A r \in Run : deferred'[r] = 0 => deferred[r] = 0,
         \A r \in Run : deferred'[r] = 0 /\ readers'[r] = 0 => readers[r] = 0,
         \A r \in Run : deferred'[r] = 0 /\ reserved[r] => reserved'[r],
         \A r \in Run : deferred'[r] = 0 /\ Subscribers(r) # {} => Subscribers(r)' # {}
  PROVE  RunningInv' /\ FewInv'
<1>1. Unpromised' \subseteq Unpromised
  BY DEF Unpromised, Idle, Finished
<1>2. RunningInv'
  BY DEF RunningInv
<1> QED BY <1>1, <1>2, FewStill

(* A lease is given back or a run ends: retention and _trim follow. *)
LEMMA RegistryTidied ==
  ASSUME RunningInv, Tidies, registry \subseteq Run,
         \A r \in Run : phase'[r] = "running" => phase[r] = "running"
  PROVE  RunningInv' /\ FewInv'
<1>1. PICK gone \in SUBSET (onDisk \intersect Expendable') : registry' = Trimmed(registry \ gone, Idle')
  BY DEF Tidies
<1>2. ASSUME NEW r \in Run, phase'[r] = "running" PROVE r \in registry'
  <2>1. r \in registry /\ r \notin Idle' /\ r \notin gone
    BY <1>1, <1>2 DEF RunningInv, Idle, Expendable, Finished
  <2> QED BY <1>1, <2>1 DEF Trimmed
<1>3. RunningInv'
  BY <1>2 DEF RunningInv
<1> QED BY <1>3, FewAfter

RegistryInv == TimedInv /\ RunningInv /\ FewInv

LEMMA RegistryInit == Init => RegistryInv
<1> SUFFICES ASSUME Init PROVE RegistryInv
  OBVIOUS
<1>1. \A r \in Run : Closing(r) = {} /\ deferred[r] = 0 /\ phase[r] = "new"
  BY DEF Init, Closing
<1>2. Unpromised = {} /\ Cardinality({}) = 0
  BY FS_EmptySet DEF Init, Unpromised
<1> QED BY <1>1, <1>2, LiveAssumption DEF RegistryInv, TimedInv, RunningInv, FewInv

LEMMA RegistryNext == SeamInv /\ SeamInv' /\ LeaseInv /\ LeaseInv' /\ RegistryInv /\ [Next]_vars => RegistryInv'
<1> SUFFICES ASSUME SeamInv, SeamInv', LeaseInv, LeaseInv', RegistryInv, [Next]_vars PROVE RegistryInv'
  OBVIOUS
<1>1. /\ SeamTypes /\ SeamTypes' /\ (\A c \in Conn : Seam(c)) /\ BookInv /\ LeaseTypes /\ LeaseTypes'
      /\ (\A r \in Run : Held(r)) /\ (\A c \in Conn : Place(c))
      /\ TimedInv /\ RunningInv /\ FewInv /\ registry \subseteq Run
  BY DEF SeamInv, LeaseInv, BookInv, RegistryInv, LeaseTypes
<1> HIDE DEF SeamTypes, LeaseTypes
<1>2. ASSUME NEW s \in Run, Start(s) PROVE RegistryInv'
  <2>1. /\ registry' = registry \union {s} /\ phase' = [phase EXCEPT ![s] = "running"]
        /\ UNCHANGED <<deferred, reserved, readers, subscribed, stage, runOf>>
    BY <1>2 DEF Start, leaseVars, placeVars, connVars
  <2>2. TimedInv'
    BY <1>1, <2>1, TimedStill DEF Closing
  <2>3. phase \in [Run -> {"new", "running", "finished"}]
    BY <1>1 DEF SeamTypes
  <2>4. RunningInv'
    BY <1>1, <2>1, <2>3 DEF RunningInv
  <2>5. Unpromised' \subseteq Unpromised
    BY <2>1, <2>3 DEF Unpromised, Idle, Finished, Subscribers
  <2> QED BY <1>1, <2>2, <2>4, <2>5, FewStill DEF RegistryInv
<1>3. ASSUME (\E s \in Run : Emit(s)) \/ RetainedElsewhere \/ UNCHANGED vars PROVE RegistryInv'
  <2>1. UNCHANGED <<phase, registry, deferred, reserved, readers, subscribed, stage, runOf>>
    BY <1>3 DEF Emit, RetainedElsewhere, vars, runVars, leaseVars, placeVars, connVars
  <2>2. TimedInv'
    BY <1>1, <2>1, TimedStill DEF Closing
  <2>3. RunningInv' /\ FewInv'
    BY <1>1, <2>1, RegistryStill DEF Subscribers
  <2> QED BY <2>2, <2>3 DEF RegistryInv
<1>4. ASSUME TidiesUp \/ \E s \in Run : Finish(s) PROVE RegistryInv'
  <2>1. Tidies /\ UNCHANGED <<deferred, stage, runOf>>
    BY <1>4 DEF TidiesUp, Finish, leaseVars, connVars
  <2>2. \A r \in Run : phase'[r] = "running" => phase[r] = "running"
    BY <1>1, <1>4 DEF TidiesUp, Finish, SeamTypes
  <2>3. TimedInv'
    BY <1>1, <2>1, TimedStill DEF Closing
  <2> QED BY <1>1, <2>1, <2>2, <2>3, RegistryTidied DEF RegistryInv
<1>5. ASSUME NEW s \in Run, ReservationLapses(s) PROVE RegistryInv'
  <2>1. /\ reserved[s] /\ reserved' = [reserved EXCEPT ![s] = FALSE]
        /\ UNCHANGED <<phase, registry, deferred, readers, subscribed, stage, runOf>>
    BY <1>5 DEF ReservationLapses, runVars, placeVars, connVars
  <2>2. TimedInv'
    BY <1>1, <2>1, TimedStill DEF Closing
  <2>3. deferred[s] > 0 /\ \A r \in Run : reserved[r] /\ r # s => reserved'[r]
    BY <1>1, <2>1 DEF Held, LeaseTypes
  <2>4. \A r \in Run : deferred'[r] = 0 /\ reserved[r] => reserved'[r]
    BY <2>1, <2>3
  <2>5. RunningInv' /\ FewInv'
    BY <1>1, <2>1, <2>4, RegistryStill DEF Subscribers
  <2> QED BY <2>2, <2>5 DEF RegistryInv
<1>6. ASSUME NEW s \in Run, TimerReleases(s) PROVE RegistryInv'
  <2>1. /\ deferred' = [deferred EXCEPT ![s] = @ - 1] /\ deferred[s] > Cardinality(Closing(s))
        /\ Tidies /\ UNCHANGED <<phase, stage, runOf>>
    BY <1>6 DEF TimerReleases, GivesLeaseBack, connVars
  <2>2. ASSUME NEW r \in Run PROVE Cardinality(Closing(r)') <= deferred'[r]
    <3>1. Closing(r)' = Closing(r)
      BY <2>1 DEF Closing
    <3>2. Cardinality(Closing(r)) \in Nat /\ Cardinality(Closing(r)) <= deferred[r]
      BY <1>1, Clocks DEF TimedInv
    <3>3. deferred[r] \in Nat /\ deferred'[r] = IF r = s THEN deferred[r] - 1 ELSE deferred[r]
      BY <1>1, <2>1 DEF LeaseTypes
    <3> HIDE DEF Closing
    <3> QED BY <2>1, <3>1, <3>2, <3>3
  <2>3. TimedInv'
    BY <2>2 DEF TimedInv
  <2> QED BY <1>1, <2>1, <2>3, RegistryTidied DEF RegistryInv
<1>7. ASSUME NEW c \in Conn, Connects(c) PROVE RegistryInv'
  <2>1. PICK s \in Run : Subscribes(c, s) \/ Replays(c, s) \/ ReplaysNothing(c, s) \/ IsRefused(c, s)
    BY <1>7 DEF Connects
  <2>2. Apart(c) /\ stage[c] = "away"
    BY <1>1, <2>1, BooksAccepts
  <2>3. /\ UNCHANGED <<phase, registry, deferred, reserved>> /\ stage'[c] # "slow"
        /\ readers' = readers \/ readers' = [readers EXCEPT ![s] = @ + 1]
    BY <1>1, <2>1 DEF Subscribes, Replays, ReplaysNothing, IsRefused, Accepted, Reads, runVars, SeamTypes
  <2>4. c \notin subscribed
    BY <1>1, <2>2 DEF Place, Open
  <2>5. TimedInv'
    BY <1>1, <2>2, <2>3, TimedStill DEF Closing, Apart
  <2>6. \A r \in Run : Subscribers(r) \subseteq Subscribers(r)'
    BY <1>1, <2>2, <2>4 DEF Subscribers, Apart, SeamTypes
  <2>7. \A r \in Run : readers'[r] = 0 => readers[r] = 0
    BY <1>1, <2>3 DEF LeaseTypes
  <2>8. RunningInv' /\ FewInv'
    BY <1>1, <2>3, <2>6, <2>7, RegistryStill
  <2> QED BY <2>5, <2>8 DEF RegistryInv
<1>8. ASSUME NEW c \in Conn, SendsOn(c) \/ TakesRecord(c) \/ TakesResync(c) PROVE RegistryInv'
  <2>1. /\ UNCHANGED <<phase, registry, deferred, reserved, readers, runOf>>
        /\ subscribed \subseteq subscribed'
    BY <1>8 DEF SendsOn, TakesRecord, TakesResync, runVars, leaseVars, placeVars
  <2>2. \A d \in Conn : stage'[d] = "slow" => stage[d] = "slow"
    <3>1. stage \in [Conn -> Open \union {"away", "complete", "cut"}]
      BY <1>1 DEF SeamTypes
    <3>2. CASE SendsOn(c)
      BY <3>1, <3>2 DEF SendsOn, Reads
    <3>3. CASE TakesRecord(c)
      <4>1. stage' = [stage EXCEPT ![c] = "sending"] \/ stage' = stage
        BY <3>3 DEF TakesRecord
      <4> QED BY <3>1, <4>1
    <3>4. CASE TakesResync(c)
      BY <3>1, <3>4 DEF TakesResync, Reads
    <3> QED BY <1>8, <3>2, <3>3, <3>4
  <2>3. TimedInv'
    BY <1>1, <2>1, <2>2, TimedStill DEF Closing
  <2>4. \A r \in Run : Subscribers(r) \subseteq Subscribers(r)'
    BY <2>1 DEF Subscribers
  <2>5. RunningInv' /\ FewInv'
    BY <1>1, <2>1, <2>4, RegistryStill
  <2> QED BY <2>3, <2>5 DEF RegistryInv
<1>9. ASSUME NEW c \in Conn, SendTimesOut(c) PROVE RegistryInv'
  <2>0. PICK s \in Run : s = runOf[c]
    BY <1>1, <1>9 DEF SendTimesOut, Seam, Open
  <2>1. s \in Run /\ s = runOf[c] /\ stage[c] = "sending"
    BY <1>9, <2>0 DEF SendTimesOut
  <2>2. /\ stage' = [stage EXCEPT ![c] = "slow"] /\ reserved' = [reserved EXCEPT ![s] = TRUE]
        /\ deferred' = [deferred EXCEPT ![s] = @ + 1]
        /\ UNCHANGED <<phase, registry, readers, subscribed, runOf>>
    BY <1>9, <2>1 DEF SendTimesOut, runVars, placeVars
  <2>3. ASSUME NEW r \in Run PROVE Cardinality(Closing(r)') <= deferred'[r]
    <3>1. Closing(r)' = IF r = s THEN Closing(r) \union {c} ELSE Closing(r)
      <4>1. stage'[c] = "slow" /\ \A d \in Conn \ {c} : stage'[d] = stage[d]
        BY <1>1, <2>2 DEF SeamTypes
      <4>2. \A d \in Conn : d \in Closing(r)' <=> d \in Closing(r) \/ (d = c /\ r = s)
        BY <2>1, <2>2, <4>1 DEF Closing
      <4>3. Closing(r)' \subseteq Conn /\ Closing(r) \subseteq Conn
        BY DEF Closing
      <4> HIDE DEF Closing
      <4> QED BY <4>2, <4>3
    <3>2. /\ Cardinality(Closing(r)) \in Nat /\ Cardinality(Closing(r)) <= deferred[r]
          /\ IsFiniteSet(Closing(r)) /\ c \notin Closing(r)
      BY <1>1, <2>1, Clocks DEF TimedInv, Closing
    <3>3. Cardinality(Closing(r) \union {c}) = Cardinality(Closing(r)) + 1
      BY <3>2, FS_AddElement
    <3>4. deferred[r] \in Nat /\ deferred'[r] = IF r = s THEN deferred[r] + 1 ELSE deferred[r]
      BY <1>1, <2>2 DEF LeaseTypes
    <3> HIDE DEF Closing
    <3> QED BY <3>1, <3>2, <3>3, <3>4
  <2>4. TimedInv'
    BY <2>3 DEF TimedInv
  <2>5. /\ \A r \in Run : deferred'[r] = 0 => deferred[r] = 0
        /\ \A r \in Run : reserved[r] => reserved'[r]
    BY <1>1, <2>2 DEF LeaseTypes
  <2>6. RunningInv' /\ FewInv'
    BY <1>1, <2>2, <2>5, RegistryStill DEF Subscribers
  <2> QED BY <2>4, <2>6 DEF RegistryInv
<1>10. ASSUME NEW c \in Conn, ReplayEnds(c) \/ TakesEnd(c) \/ RefusedLeaves(c) \/ IsCutOff(c) \/ SlowLeaves(c)
       PROVE  RegistryInv'
  <2>1. PICK s \in Run : s = runOf[c]
    BY <1>1, <1>10 DEF ReplayEnds, TakesEnd, RefusedLeaves, IsCutOff, SlowLeaves, Seam, Open
  <2>2. Apart(c) /\ runOf' = runOf /\ stage'[c] \in {"complete", "cut"} /\ deferred' = deferred
    BY <1>1, <1>10, <2>1, BooksEnd
  <2>3. TimedInv'
    BY <1>1, <2>2, TimedStill DEF Closing, Apart
  <2>4. CASE SlowLeaves(c)
    <3>1. /\ stage[c] = "slow" /\ subscribed' = subscribed \ {c}
          /\ UNCHANGED <<phase, registry, reserved>>
          /\ \A r \in Run \ {s} : readers'[r] = readers[r]
      BY <1>1, <2>1, <2>4 DEF SlowLeaves, Leaves, runVars, LeaseTypes
    <3>2. deferred[s] # 0
      <4>1. Cardinality(Closing(s)) > 0 /\ Cardinality(Closing(s)) <= deferred[s]
        BY <1>1, <2>1, <3>1, Clocks DEF TimedInv, Closing
      <4>2. Cardinality(Closing(s)) \in Nat /\ deferred[s] \in Nat
        BY <1>1, Clocks DEF LeaseTypes
      <4> QED BY <4>1, <4>2
    <3>3. \A r \in Run \ {s} : Subscribers(r)' = Subscribers(r)
      BY <2>1, <2>2, <3>1 DEF Subscribers
    <3>4. RunningInv' /\ FewInv'
      BY <1>1, <2>2, <3>1, <3>2, <3>3, RegistryStill
    <3> QED BY <2>3, <3>4 DEF RegistryInv
  <2>5. CASE ReplayEnds(c) \/ TakesEnd(c) \/ RefusedLeaves(c) \/ IsCutOff(c)
    <3>1. Tidies /\ phase' = phase
      BY <2>5 DEF ReplayEnds, TakesEnd, RefusedLeaves, IsCutOff, Ends, GivesLeaseBack
    <3> QED BY <1>1, <2>3, <3>1, RegistryTidied DEF RegistryInv
  <2> QED BY <1>10, <2>4, <2>5
<1> QED BY <1>2, <1>3, <1>4, <1>5, <1>6, <1>7, <1>8, <1>9, <1>10 DEF Next, Goes

(* The registry has every running run, and no more finished ones that nobody
   uses or was promised than it is meant to keep: whatever makes a run idle is
   followed by _trim, in the same step or when the timer fires that the run's
   reservation came with (server/runs.py: _trim and its callers). *)
THEOREM RegistryAlways == Spec => []RegistryIsBounded
<1>1. Init => RegistryInv
  BY RegistryInit
<1>2. SeamInv /\ LeaseInv /\ (SeamInv /\ LeaseInv)' /\ RegistryInv /\ [Next]_vars => RegistryInv'
  BY RegistryNext
<1>3. RegistryInv => RegistryIsBounded
  BY DEF RegistryInv, RunningInv, FewInv, Unpromised, RegistryIsBounded
<1> QED BY <1>1, <1>2, <1>3, LeaseAlways, PTL DEF Spec
================================================================================
