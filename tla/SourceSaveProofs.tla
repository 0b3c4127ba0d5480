-------------------------- MODULE SourceSaveProofs --------------------------
(***************************************************************************)
(* For any tabs, any number of edits, outside writes and faults: no edit   *)
(* is dropped unasked, and what a save replaces unknowingly was written    *)
(* inside a handler. The inductive invariant follows an ETag from the      *)
(* handler that computed it through the answer, the coordinator and the    *)
(* next request: wherever it is, it names the content that travels with    *)
(* it, or one that was written from outside inside a handler for the tab.  *)
(***************************************************************************)
EXTENDS SourceSave, TLAPS

\* The ETag t that tab c has for the content v.
Names(c, t, v) == t = v \/ <<c, t>> \in raced

PumpInv(c) ==
  /\ pump[c] = "none" <=> reply[c] = "none"
  /\ phase[c] \in {"conflict", "error"} => pump[c] = "none"
  /\ phase[c] = "clean" => ~unsaved[c]
  /\ pump[c] = "live" => unsaved[c]
  /\ unsaved[c] => latest[c] # None

EditInv(c) ==
  edited[c] # 0 =>
    \/ edited[c] \in landed
    \/ latest[c] = edited[c] /\ unsaved[c]
    \/ kind = "code" /\ <<c, edited[c]>> \in overtaken

TagInv(c) ==
  /\ Names(c, base[c], known[c])
  /\ reply[c] # "none" => Names(c, req[c].base, req[c].known)
  /\ reply[c] = "ok" => req[c].value \in landed /\ Names(c, tag[c], req[c].value)

\* A reload that no other decision has overtaken and that still finds its
\* revision finds the edit it was asked to give up.
GoodRead(c, read) ==
  /\ read.kind \in {"open", "shut"} => edited[c] = 0
  /\ read.kind = "reload" => kind = "code"
  /\ read.at = "here" => Names(c, read.tag, read.content)
  /\ read.given # None =>
       /\ read.revision <= revision[c]
       /\ read.revision = revision[c] => read.given = edited[c]
ReadInv(c) == \A s \in Slot : GoodRead(c, fetch[c][s])

JobInv ==
  /\ job.at # "idle" => job.from \in Client
  /\ job.at \in {"checked", "replaced"} /\ job.wanted =>
       req[job.from] = job.req /\ reply[job.from] = "served"
  /\ job.at = "checked" /\ ~job.req.force => Names(job.from, file, job.req.known)
  /\ job.at = "replaced" => job.req.value \in landed /\ Names(job.from, file, job.req.value)
  /\ job.at = "loaded" => Names(job.from, file, job.content)

ClientInv == \A c \in Client : PumpInv(c) /\ EditInv(c) /\ TagInv(c) /\ ReadInv(c)
IInv == TypeOK /\ ClientInv /\ JobInv /\ OnlyRacesLose

-----------------------------------------------------------------------------
(* Types. *)

LEMMA RequestType ==
  ASSUME TypeOK, NEW c \in Client, NEW value \in Version \cup {None}, NEW etag \in Version \cup {None},
         NEW content \in Version \cup {None}, NEW force \in BOOLEAN,
         value # None, Sends(c, value, etag, content, force)
  PROVE  /\ phase' \in [Client -> {"clean", "dirty", "saving", "conflict", "error"}]
         /\ pump' \in [Client -> {"none", "live", "stale"}]
         /\ req' \in [Client -> Request]
         /\ reply' \in [Client -> {"none", "net", "served", "ok", "conflict", "error"}]
         /\ tag' \in [Client -> Version]
<1>1. value \in Version /\ 0 \in Version
  BY BoundsAssumption DEF Version
<1> QED
  BY <1>1 DEF TypeOK, Sends, Set, Request

LEMMA SettledType ==
  ASSUME TypeOK, NEW c \in Client, Settles(c)
  PROVE  /\ pump' \in [Client -> {"none", "live", "stale"}]
         /\ req' \in [Client -> Request]
         /\ reply' \in [Client -> {"none", "net", "served", "ok", "conflict", "error"}]
         /\ tag' \in [Client -> Version]
<1>1. 0 \in Version
  BY BoundsAssumption DEF Version
<1>2. NoRequest \in Request
  BY <1>1 DEF NoRequest, Request
<1> QED
  BY <1>1, <1>2 DEF TypeOK, Settles, Set

LEMMA AskedType ==
  ASSUME TypeOK, NEW c \in Client, NEW what \in {"none", "refresh", "open", "shut"},
         NEW expected \in Version \cup {None}, Asks(c, what, expected)
  PROVE  /\ fetch' \in [Client -> [Slot -> Fetch]] /\ job' \in Job
         /\ \A s \in Slot : fetch'[c][s].kind \in {what, "none"} /\ fetch'[c][s].at = "net"
                            /\ fetch'[c][s].given = None
         /\ \A d \in Client : d # c => fetch'[d] = fetch[d]
<1>1. 0 \in Version
  BY BoundsAssumption DEF Version
<1> DEFINE asked == [NoFetch EXCEPT !.kind = what, !.expected = expected]
<1>2. /\ asked \in Fetch /\ asked.kind = what /\ asked.at = "net" /\ asked.given = None
      /\ NoFetch \in Fetch /\ NoFetch.kind = "none" /\ NoFetch.at = "net" /\ NoFetch.given = None
  BY <1>1 DEF NoFetch, Fetch
<1>3. job' \in Job
  BY DEF TypeOK, Asks, Job
<1>4. fetch' = [fetch EXCEPT ![c] = [s \in Slot |-> IF s = 1 THEN asked ELSE NoFetch]]
  BY DEF Asks, Set
<1> HIDE DEF asked
<1> QED
  BY <1>2, <1>3, <1>4 DEF TypeOK

\* What happens to a read leaves what it read, and its revision, as they are.
LEMMA ReadsChange ==
  ASSUME NEW x \in Fetch, NEW y \in {Touched(x), Withdrawn(x), Outdated(x)}
  PROVE  /\ y \in Fetch
         /\ y.kind = x.kind /\ y.at = x.at /\ y.tag = x.tag /\ y.content = x.content
         /\ y.revision = x.revision /\ y.given \in {x.given, None}
         /\ y = Outdated(x) => y.given = None
<1>1. /\ x.kind \in {"none", "refresh", "reload", "open", "shut"}
      /\ x.untouched \in BOOLEAN /\ x.revision \in Nat
      /\ x = [kind |-> x.kind, at |-> x.at, untouched |-> x.untouched, expected |-> x.expected,
              revision |-> x.revision, given |-> x.given, content |-> x.content, tag |-> x.tag]
  BY DEF Fetch
<1> DEFINE u == x.untouched /\ x.kind # "refresh"
<1>2. u \in BOOLEAN
  OBVIOUS
<1>3. Touched(x) = [kind |-> x.kind, at |-> x.at, untouched |-> u, expected |-> x.expected,
                    revision |-> x.revision, given |-> x.given, content |-> x.content,
                    tag |-> x.tag]
  BY <1>1 DEF Touched
<1>4. Withdrawn(x) = [kind |-> x.kind, at |-> x.at, untouched |-> x.untouched,
                      expected |-> x.expected, revision |-> x.revision, given |-> None,
                      content |-> x.content, tag |-> x.tag]
  BY <1>1 DEF Withdrawn
<1> HIDE DEF u
<1>5. Outdated(x) = [kind |-> x.kind, at |-> x.at, untouched |-> u, expected |-> x.expected,
                     revision |-> x.revision, given |-> None, content |-> x.content,
                     tag |-> x.tag]
  BY <1>3 DEF Outdated, Withdrawn
<1>6. Touched(x) \in Fetch
  BY <1>2, <1>3 DEF Fetch
<1>7. Withdrawn(x) \in Fetch
  BY <1>4 DEF Fetch
<1>8. Outdated(x) \in Fetch
  BY <1>2, <1>5 DEF Fetch
<1> QED
  BY <1>3, <1>4, <1>5, <1>6, <1>7, <1>8

LEMMA ResetType ==
  ASSUME TypeOK, NEW c \in Client, NEW etag \in Version \cup {None},
         NEW content \in Version \cup {None}, Resets(c, etag, content)
  PROVE  /\ latest' \in [Client -> Version \cup {None}]
         /\ revision' \in [Client -> Nat]
         /\ unsaved' \in [Client -> BOOLEAN]
         /\ timer' \in [Client -> BOOLEAN]
         /\ phase' \in [Client -> {"clean", "dirty", "saving", "conflict", "error"}]
         /\ pump' \in [Client -> {"none", "live", "stale"}]
         /\ base' \in [Client -> Version \cup {None}]
         /\ known' \in [Client -> Version \cup {None}]
BY DEF TypeOK, Resets, Set

LEMMA ReadsStay ==
  ASSUME NEW c \in Client, ReadInv(c), kind' = kind, raced \subseteq raced',
         fetch'[c] = fetch[c], edited'[c] = edited[c], revision'[c] = revision[c]
  PROVE  ReadInv(c)'
BY DEF ReadInv, GoodRead, Names

\* What an action of one tab leaves to the others.
LEMMA OthersKeep ==
  ASSUME NEW c \in Client, NEW d \in Client, d # c, TypeOK,
         PumpInv(d), EditInv(d), TagInv(d), ReadInv(d),
         kind' = kind, overtaken \subseteq overtaken',
         landed \subseteq landed', raced \subseteq raced',
         pump'[d] = pump[d], reply'[d] = reply[d], phase'[d] = phase[d],
         unsaved'[d] = unsaved[d], fetch'[d] = fetch[d], edited'[d] = edited[d],
         latest'[d] = latest[d], base'[d] = base[d], known'[d] = known[d],
         req'[d] = req[d], tag'[d] = tag[d], revision'[d] = revision[d]
  PROVE  PumpInv(d)' /\ EditInv(d)' /\ TagInv(d)' /\ ReadInv(d)'
<1>1. PumpInv(d)' /\ EditInv(d)' /\ TagInv(d)'
  BY DEF PumpInv, EditInv, TagInv, Names
<1> QED
  BY <1>1, ReadsStay

-----------------------------------------------------------------------------
(* The coordinator. *)

\* Steps of one tab, which leave the file and the server's handler alone.
LEMMA TabKeeps ==
  ASSUME IInv, TypeOK', NEW c \in Client, UNCHANGED <<kind, file, landed, raced, lost>>,
         overtaken \subseteq overtaken',
         \/ job' = [job EXCEPT !.wanted = FALSE]
         \/ job' = job /\ (reply[c] = "served" => reply'[c] = "served" /\ req'[c] = req[c]),
         \A d \in Client : d # c =>
           /\ pump'[d] = pump[d] /\ reply'[d] = reply[d] /\ phase'[d] = phase[d]
           /\ unsaved'[d] = unsaved[d] /\ fetch'[d] = fetch[d] /\ edited'[d] = edited[d]
           /\ latest'[d] = latest[d] /\ base'[d] = base[d] /\ known'[d] = known[d]
           /\ req'[d] = req[d] /\ tag'[d] = tag[d] /\ revision'[d] = revision[d],
         PumpInv(c)', EditInv(c)', TagInv(c)', ReadInv(c)'
  PROVE  IInv'
<1>1. ClientInv'
  <2>1. ASSUME NEW d \in Client, d # c
        PROVE  PumpInv(d)' /\ EditInv(d)' /\ TagInv(d)' /\ ReadInv(d)'
    BY <2>1, OthersKeep DEF IInv, ClientInv
  <2> QED
    BY <2>1 DEF ClientInv
<1>2. JobInv'
  <2>1. CASE job' = job /\ (reply[c] = "served" => reply'[c] = "served" /\ req'[c] = req[c])
    BY <2>1 DEF IInv, JobInv, Names
  <2>2. CASE job' = [job EXCEPT !.wanted = FALSE]
    <3>1. job' = [at |-> job.at, from |-> job.from, slot |-> job.slot, req |-> job.req,
                  content |-> job.content, wanted |-> FALSE]
      BY <2>2 DEF IInv, TypeOK, Job
    <3> QED
      BY <2>2, <3>1 DEF IInv, JobInv, Names
  <2> QED
    BY <2>1, <2>2
<1>3. OnlyRacesLose'
  BY DEF IInv, OnlyRacesLose
<1> QED
  BY <1>1, <1>2, <1>3 DEF IInv

LEMMA EditKeeps == ASSUME IInv, NEW c \in Client, Edit(c) PROVE IInv'
<1>1. TypeOK /\ PumpInv(c) /\ EditInv(c) /\ TagInv(c) /\ ReadInv(c) /\ made + 1 \in Version
      /\ made + 1 # 0 /\ made + 1 # None
  BY BoundsAssumption DEF IInv, ClientInv, Edit, TypeOK, Version, None
<1>2. UNCHANGED <<kind, pump, req, reply, tag, base, known, job, file, overtaken, landed, raced,
                  lost, faults>>
  BY DEF Edit, diskVars
<1>3. /\ fetch' = [fetch EXCEPT ![c] = [s \in Slot |-> Touched(fetch[c][s])]]
      /\ \A s \in Slot : fetch[c][s].kind \notin {"open", "shut"}
  BY DEF Edit, Set, Shows
<1>4. \A s \in Slot : /\ fetch[c][s] \in Fetch /\ Touched(fetch[c][s]) \in Fetch
                      /\ fetch'[c][s] = Touched(fetch[c][s])
  BY <1>1, <1>3, ReadsChange DEF TypeOK
<1>5. TypeOK'
  <2>1. fetch' \in [Client -> [Slot -> Fetch]]
    BY <1>1, <1>3, <1>4 DEF TypeOK
  <2>2. /\ phase' \in [Client -> {"clean", "dirty", "saving", "conflict", "error"}]
        /\ latest' \in [Client -> Version \cup {None}]
        /\ revision' \in [Client -> Nat]
        /\ unsaved' \in [Client -> BOOLEAN] /\ timer' \in [Client -> BOOLEAN]
        /\ edited' \in [Client -> Version] /\ made' \in Version
    BY <1>1 DEF TypeOK, Edit, Set
  <2> QED
    BY <1>1, <1>2, <2>1, <2>2 DEF TypeOK
<1>6. /\ latest'[c] = made + 1 /\ edited'[c] = made + 1 /\ unsaved'[c] = TRUE
      /\ phase'[c] \in {"dirty", "saving"} /\ revision'[c] = revision[c] + 1
      /\ \A d \in Client : d # c =>
           /\ latest'[d] = latest[d] /\ edited'[d] = edited[d] /\ unsaved'[d] = unsaved[d]
           /\ phase'[d] = phase[d] /\ fetch'[d] = fetch[d] /\ revision'[d] = revision[d]
  BY <1>1 DEF TypeOK, Edit, Set
<1>7. PumpInv(c)' /\ EditInv(c)' /\ TagInv(c)'
  BY <1>1, <1>2, <1>6 DEF PumpInv, EditInv, TagInv, Names
<1>8. ReadInv(c)'
  <2> SUFFICES ASSUME NEW s \in Slot PROVE GoodRead(c, fetch[c][s])'
    BY DEF ReadInv
  <2>1. /\ fetch'[c][s].kind = fetch[c][s].kind /\ fetch'[c][s].at = fetch[c][s].at
        /\ fetch'[c][s].tag = fetch[c][s].tag /\ fetch'[c][s].content = fetch[c][s].content
        /\ fetch'[c][s].revision = fetch[c][s].revision
        /\ fetch'[c][s].given \in {fetch[c][s].given, None}
    BY <1>4, ReadsChange
  <2>2. revision[c] \in Nat /\ fetch[c][s].revision \in Nat /\ GoodRead(c, fetch[c][s])
    BY <1>1, <1>4 DEF TypeOK, Fetch, ReadInv
  <2> QED
    BY <1>2, <1>3, <1>6, <2>1, <2>2 DEF GoodRead, Names
<1> QED
  BY <1>2, <1>5, <1>6, <1>7, <1>8, TabKeeps

\* A request goes out with the latest value, on the tab's ETag.
LEMMA SendingKeeps ==
  ASSUME IInv, NEW c \in Client, unsaved[c], latest[c] # None,
         reply[c] \in {"none", "ok", "conflict", "error"},
         NEW etag \in Version \cup {None}, NEW content \in Version \cup {None}, NEW force \in BOOLEAN,
         Sends(c, latest[c], etag, content, force), Names(c, etag, content),
         base' = Set(base, c, etag), known' = Set(known, c, content),
         timer' \in [Client -> BOOLEAN],
         fetch' \in [Client -> [Slot -> Fetch]], ReadInv(c)',
         \A d \in Client : d # c => fetch'[d] = fetch[d],
         UNCHANGED <<kind, made, latest, revision, unsaved, job, editVars, diskVars, faults>>
  PROVE  IInv'
<1>1. TypeOK /\ PumpInv(c) /\ EditInv(c) /\ TagInv(c)
  BY DEF IInv, ClientInv
<1>2. /\ phase' \in [Client -> {"clean", "dirty", "saving", "conflict", "error"}]
      /\ pump' \in [Client -> {"none", "live", "stale"}]
      /\ req' \in [Client -> Request]
      /\ reply' \in [Client -> {"none", "net", "served", "ok", "conflict", "error"}]
      /\ tag' \in [Client -> Version]
  <2>1. latest[c] \in Version \cup {None}
    BY <1>1 DEF TypeOK
  <2>2. Sends(c, latest[c], etag, content, force) /\ latest[c] # None
    OBVIOUS
  <2> QED
    BY ONLY <1>1, <2>1, <2>2, c \in Client, etag \in Version \cup {None},
       content \in Version \cup {None}, force \in BOOLEAN, RequestType
<1>3. UNCHANGED <<file, edited, overtaken, landed, raced, lost>>
  BY DEF editVars, diskVars
<1>4. TypeOK'
  BY <1>1, <1>2, <1>3 DEF TypeOK, Set
<1>5. /\ phase'[c] = "saving" /\ pump'[c] = "live" /\ reply'[c] = "net"
      /\ req'[c].base = etag /\ req'[c].known = content
      /\ base'[c] = etag /\ known'[c] = content
  BY <1>1 DEF TypeOK, Sends, Set
<1>6. \A d \in Client : d # c =>
        /\ pump'[d] = pump[d] /\ reply'[d] = reply[d] /\ phase'[d] = phase[d]
        /\ req'[d] = req[d] /\ tag'[d] = tag[d] /\ base'[d] = base[d] /\ known'[d] = known[d]
  BY <1>1 DEF TypeOK, Sends, Set
<1>7. PumpInv(c)' /\ EditInv(c)' /\ TagInv(c)'
  BY <1>1, <1>3, <1>5 DEF PumpInv, EditInv, TagInv, Names
<1> QED
  BY <1>3, <1>4, <1>6, <1>7, TabKeeps

LEMMA FlushKeeps == ASSUME IInv, NEW c \in Client, Flush(c) PROVE IInv'
<1>1. TypeOK /\ PumpInv(c) /\ EditInv(c) /\ TagInv(c) /\ ReadInv(c)
  BY DEF IInv, ClientInv
<1>2. /\ timer' \in [Client -> BOOLEAN]
      /\ UNCHANGED <<kind, file, made, latest, revision, unsaved, base, known, fetch, job, edited,
                     overtaken, landed, raced, lost, faults>>
  BY <1>1 DEF TypeOK, Flush, Set, editVars, diskVars
<1>3. ReadInv(c)'
  BY <1>1, <1>2, ReadsStay
<1>4. CASE unsaved[c] /\ pump[c] = "none" /\ phase[c] \notin {"conflict", "error"}
  <2>1. base' = Set(base, c, base[c]) /\ known' = Set(known, c, known[c])
    BY <1>1, <1>2 DEF TypeOK, Set
  <2>2. /\ base[c] \in Version \cup {None} /\ known[c] \in Version \cup {None}
        /\ fetch' \in [Client -> [Slot -> Fetch]]
    BY <1>1, <1>2 DEF TypeOK
  <2>3. reply[c] = "none" /\ latest[c] # None /\ Names(c, base[c], known[c])
    BY <1>1, <1>4 DEF PumpInv, TagInv
  <2>4. Sends(c, latest[c], base[c], known[c], FALSE)
    BY <1>4 DEF Flush
  <2> QED
    BY <1>2, <1>3, <1>4, <2>1, <2>2, <2>3, <2>4, SendingKeeps DEF editVars, diskVars
<1>5. CASE ~(unsaved[c] /\ pump[c] = "none" /\ phase[c] \notin {"conflict", "error"})
  <2>1. UNCHANGED <<phase, pump, req, reply, tag>>
    BY <1>5 DEF Flush
  <2>2. TypeOK'
    BY <1>1, <1>2, <2>1 DEF TypeOK
  <2>3. PumpInv(c)' /\ EditInv(c)' /\ TagInv(c)'
    BY <1>1, <1>2, <2>1 DEF PumpInv, EditInv, TagInv, Names
  <2> QED
    BY <1>2, <1>3, <2>1, <2>2, <2>3, TabKeeps
<1> QED
  BY <1>4, <1>5

LEMMA OverwriteKeeps == ASSUME IInv, NEW c \in Client, Overwrite(c) PROVE IInv'
<1>1. TypeOK /\ PumpInv(c) /\ TagInv(c) /\ ReadInv(c)
  BY DEF IInv, ClientInv
<1>2. timer' \in [Client -> BOOLEAN]
  BY <1>1 DEF TypeOK, Overwrite, Set
<1>3. base' = Set(base, c, base[c]) /\ known' = Set(known, c, known[c])
  BY <1>1 DEF TypeOK, Overwrite, Set
<1>4. base[c] \in Version \cup {None} /\ known[c] \in Version \cup {None}
  BY <1>1 DEF TypeOK
<1>5. unsaved[c] /\ reply[c] = "none" /\ latest[c] # None /\ Names(c, base[c], known[c])
  BY <1>1 DEF PumpInv, TagInv, Overwrite
<1>6. /\ Sends(c, latest[c], base[c], known[c], TRUE)
      /\ fetch' = [fetch EXCEPT ![c] = [s \in Slot |-> Withdrawn(fetch[c][s])]]
      /\ UNCHANGED <<kind, made, latest, revision, unsaved, job, editVars, diskVars, faults>>
  BY DEF Overwrite, Set
<1>7. \A s \in Slot : fetch[c][s] \in Fetch /\ Withdrawn(fetch[c][s]) \in Fetch
  BY <1>1, ReadsChange DEF TypeOK
<1>8. /\ fetch' \in [Client -> [Slot -> Fetch]]
      /\ \A s \in Slot : fetch'[c][s] = Withdrawn(fetch[c][s])
      /\ \A d \in Client : d # c => fetch'[d] = fetch[d]
  BY <1>1, <1>6, <1>7 DEF TypeOK
<1>9. ReadInv(c)'
  <2> SUFFICES ASSUME NEW s \in Slot PROVE GoodRead(c, fetch[c][s])'
    BY DEF ReadInv
  <2>1. /\ fetch'[c][s].kind = fetch[c][s].kind /\ fetch'[c][s].at = fetch[c][s].at
        /\ fetch'[c][s].tag = fetch[c][s].tag /\ fetch'[c][s].content = fetch[c][s].content
        /\ fetch'[c][s].revision = fetch[c][s].revision
        /\ fetch'[c][s].given \in {fetch[c][s].given, None}
    BY <1>7, <1>8, ReadsChange
  <2>2. GoodRead(c, fetch[c][s]) /\ UNCHANGED <<kind, edited, revision, raced>>
    BY <1>1, <1>6 DEF ReadInv, editVars, diskVars
  <2> QED
    BY <2>1, <2>2 DEF GoodRead, Names
<1> QED
  BY <1>2, <1>3, <1>4, <1>5, <1>6, <1>8, <1>9, SendingKeeps

\* A request comes to rest.
LEMMA SettlingKeeps ==
  ASSUME IInv, NEW c \in Client, reply[c] \in {"ok", "conflict", "error"}, Settles(c),
         base' \in [Client -> Version \cup {None}], known' \in [Client -> Version \cup {None}],
         unsaved' \in [Client -> BOOLEAN],
         phase' \in [Client -> {"clean", "dirty", "saving", "conflict", "error"}],
         \A d \in Client : d # c =>
           base'[d] = base[d] /\ known'[d] = known[d] /\ unsaved'[d] = unsaved[d]
           /\ phase'[d] = phase[d],
         Names(c, base'[c], known'[c]),
         unsaved'[c] => unsaved[c], phase'[c] = "clean" => ~unsaved'[c],
         unsaved[c] /\ ~unsaved'[c] => latest[c] \in landed,
         \/ UNCHANGED <<fetch, job>>
         \/ Asks(c, "refresh", base'[c]),
         UNCHANGED <<kind, made, latest, revision, timer, editVars, diskVars, faults>>
  PROVE  IInv'
<1>1. TypeOK /\ PumpInv(c) /\ EditInv(c) /\ TagInv(c) /\ ReadInv(c)
  BY DEF IInv, ClientInv
<1>2. UNCHANGED <<kind, edited, overtaken, file, landed, raced, lost>>
  BY DEF editVars, diskVars
<1>3. /\ pump' \in [Client -> {"none", "live", "stale"}]
      /\ req' \in [Client -> Request]
      /\ reply' \in [Client -> {"none", "net", "served", "ok", "conflict", "error"}]
      /\ tag' \in [Client -> Version]
  BY <1>1, SettledType
<1>4. /\ fetch' \in [Client -> [Slot -> Fetch]] /\ job' \in Job
      /\ \A d \in Client : d # c => fetch'[d] = fetch[d]
      /\ ReadInv(c)'
  <2>1. CASE UNCHANGED <<fetch, job>>
    BY <1>1, <1>2, <2>1, ReadsStay DEF TypeOK
  <2>2. CASE Asks(c, "refresh", base'[c])
    <3>1. base'[c] \in Version \cup {None}
      OBVIOUS
    <3>2. /\ fetch' \in [Client -> [Slot -> Fetch]] /\ job' \in Job
          /\ \A s \in Slot : fetch'[c][s].kind \in {"refresh", "none"}
                             /\ fetch'[c][s].at = "net" /\ fetch'[c][s].given = None
          /\ \A d \in Client : d # c => fetch'[d] = fetch[d]
      BY <1>1, <2>2, <3>1, AskedType
    <3> QED
      BY <3>2 DEF ReadInv, GoodRead
  <2> QED
    BY <2>1, <2>2
<1>5. TypeOK'
  BY <1>1, <1>2, <1>3, <1>4 DEF TypeOK
<1>6. /\ pump'[c] = "none" /\ reply'[c] = "none"
      /\ \A d \in Client : d # c =>
           pump'[d] = pump[d] /\ reply'[d] = reply[d] /\ req'[d] = req[d] /\ tag'[d] = tag[d]
  BY <1>1 DEF TypeOK, Settles, Set
<1>7. job' = job \/ job' = [job EXCEPT !.wanted = FALSE]
  BY DEF Asks
<1>8. unsaved'[c] \in BOOLEAN /\ unsaved[c] \in BOOLEAN
  BY <1>1 DEF TypeOK
<1>9. PumpInv(c)' /\ TagInv(c)'
  BY <1>1, <1>2, <1>6, <1>8 DEF PumpInv, TagInv, Names
<1>10. EditInv(c)'
  BY <1>1, <1>2, <1>8 DEF EditInv
<1> QED
  BY <1>2, <1>4, <1>5, <1>6, <1>7, <1>9, <1>10, TabKeeps

LEMMA SavedKeeps == ASSUME IInv, NEW c \in Client, Saved(c) PROVE IInv'
<1>1. TypeOK /\ PumpInv(c) /\ EditInv(c) /\ TagInv(c) /\ ReadInv(c)
  BY DEF IInv, ClientInv
<1>2. /\ pump[c] = "live" /\ reply[c] = "ok" /\ unsaved[c] /\ latest[c] # None
      /\ req[c].value \in landed /\ Names(c, tag[c], req[c].value)
      /\ tag[c] \in Version /\ req[c].value \in Version
  BY <1>1 DEF Saved, PumpInv, TagInv, TypeOK, Request
<1>3. /\ base' = Set(base, c, tag[c]) /\ known' = Set(known, c, req[c].value)
      /\ UNCHANGED <<kind, made, latest, revision, timer, editVars, diskVars, faults>>
  BY DEF Saved
<1>4. CASE req[c].value = latest[c]
  <2>1. /\ Settles(c) /\ unsaved' = Set(unsaved, c, FALSE) /\ phase' = Set(phase, c, "clean")
        /\ (IF kind = "canvas" THEN Asks(c, "refresh", tag[c]) ELSE UNCHANGED <<fetch, job>>)
    BY <1>4 DEF Saved
  <2>2. base' \in [Client -> Version \cup {None}] /\ known' \in [Client -> Version \cup {None}]
    BY <1>1, <1>2, <1>3 DEF TypeOK, Set
  <2>3. unsaved' \in [Client -> BOOLEAN]
        /\ phase' \in [Client -> {"clean", "dirty", "saving", "conflict", "error"}]
    BY <1>1, <2>1 DEF TypeOK, Set
  <2>4. \A d \in Client : d # c =>
          base'[d] = base[d] /\ known'[d] = known[d] /\ unsaved'[d] = unsaved[d]
          /\ phase'[d] = phase[d]
    BY <1>1, <1>3, <2>1 DEF TypeOK, Set
  <2>5. base'[c] = tag[c] /\ known'[c] = req[c].value /\ ~unsaved'[c]
    BY <1>1, <1>3, <2>1 DEF TypeOK, Set
  <2>6. \/ UNCHANGED <<fetch, job>>
        \/ Asks(c, "refresh", base'[c])
    BY <2>1, <2>5
  <2> QED
    BY <1>2, <1>3, <1>4, <2>1, <2>2, <2>3, <2>4, <2>5, <2>6, SettlingKeeps
<1>5. CASE req[c].value # latest[c]
  <2>1. /\ Sends(c, latest[c], tag[c], req[c].value, FALSE)
        /\ UNCHANGED <<unsaved, fetch, job>>
    BY <1>5 DEF Saved
  <2>2. timer' \in [Client -> BOOLEAN] /\ fetch' \in [Client -> [Slot -> Fetch]]
    BY <1>1, <1>3, <2>1 DEF TypeOK
  <2>3. ReadInv(c)'
    BY <1>1, <1>3, <2>1, ReadsStay DEF editVars, diskVars
  <2> QED
    BY <1>2, <1>3, <2>1, <2>2, <2>3, SendingKeeps
<1> QED
  BY <1>4, <1>5

LEMMA SaveFailedKeeps == ASSUME IInv, NEW c \in Client, SaveFailed(c) PROVE IInv'
<1>1. TypeOK /\ TagInv(c)
  BY DEF IInv, ClientInv
<1>2. /\ reply[c] \in {"conflict", "error"} /\ phase' = Set(phase, c, reply[c]) /\ Settles(c)
      /\ UNCHANGED <<kind, made, latest, revision, unsaved, timer, base, known, fetch, job,
                     editVars, diskVars, faults>>
  BY DEF SaveFailed
<1>3. phase' \in [Client -> {"clean", "dirty", "saving", "conflict", "error"}]
      /\ phase'[c] = reply[c] /\ \A d \in Client : d # c => phase'[d] = phase[d]
  BY <1>1, <1>2 DEF TypeOK, Set
<1> QED
  BY <1>1, <1>2, <1>3, SettlingKeeps DEF TypeOK, TagInv

LEMMA StaleSettlesKeeps == ASSUME IInv, NEW c \in Client, StaleSettles(c) PROVE IInv'
<1>1. TypeOK /\ PumpInv(c) /\ TagInv(c) /\ ReadInv(c)
  BY DEF IInv, ClientInv
<1>2. /\ reply[c] \in {"ok", "conflict", "error"}
      /\ UNCHANGED <<kind, made, latest, revision, unsaved, timer, base, known, fetch, job,
                     editVars, diskVars, faults>>
  BY DEF StaleSettles
<1>3. CASE unsaved[c] /\ phase[c] \notin {"conflict", "error"}
  <2>1. base' = Set(base, c, base[c]) /\ known' = Set(known, c, known[c])
    BY <1>1, <1>2 DEF TypeOK, Set
  <2>2. Sends(c, latest[c], base[c], known[c], FALSE)
    BY <1>3 DEF StaleSettles
  <2>3. latest[c] # None /\ Names(c, base[c], known[c])
    BY <1>1, <1>3 DEF PumpInv, TagInv
  <2>4. base[c] \in Version \cup {None} /\ known[c] \in Version \cup {None}
        /\ timer' \in [Client -> BOOLEAN] /\ fetch' \in [Client -> [Slot -> Fetch]]
    BY <1>1, <1>2 DEF TypeOK
  <2>5. ReadInv(c)'
    BY <1>1, <1>2, ReadsStay DEF editVars, diskVars
  <2> QED
    BY <1>2, <1>3, <2>1, <2>2, <2>3, <2>4, <2>5, SendingKeeps
<1>4. CASE ~(unsaved[c] /\ phase[c] \notin {"conflict", "error"})
  <2>1. Settles(c) /\ UNCHANGED phase
    BY <1>4 DEF StaleSettles
  <2> QED
    BY <1>1, <1>2, <2>1, SettlingKeeps DEF TypeOK, TagInv, PumpInv
<1> QED
  BY <1>3, <1>4

-----------------------------------------------------------------------------
(* Reading the file again. *)

\* One read begins, or is given up, and nothing else changes in the tab.
LEMMA FetchKeeps ==
  ASSUME IInv, NEW c \in Client, NEW s \in Slot, NEW x \in Fetch,
         fetch' = [fetch EXCEPT ![c][s] = x], GoodRead(c, x), job' \in Job,
         job' = job \/ job' = [job EXCEPT !.wanted = FALSE],
         UNCHANGED <<kind, made, saveVars, editVars, diskVars>>, faults' \in 0..MaxFaults
  PROVE  IInv'
<1>1. TypeOK /\ PumpInv(c) /\ EditInv(c) /\ TagInv(c) /\ ReadInv(c)
  BY DEF IInv, ClientInv
<1>2. UNCHANGED <<kind, file, made, phase, latest, revision, unsaved, timer, pump, req, reply, tag,
                  base, known, edited, overtaken, landed, raced, lost>>
  BY DEF saveVars, editVars, diskVars
<1>3. /\ fetch' \in [Client -> [Slot -> Fetch]]
      /\ \A d \in Client : d # c => fetch'[d] = fetch[d]
      /\ \A r \in Slot : fetch'[c][r] = IF r = s THEN x ELSE fetch[c][r]
  BY <1>1 DEF TypeOK
<1>4. TypeOK'
  BY <1>1, <1>2, <1>3 DEF TypeOK
<1>5. PumpInv(c)' /\ EditInv(c)' /\ TagInv(c)'
  BY <1>1, <1>2 DEF PumpInv, EditInv, TagInv, Names
<1>6. ReadInv(c)'
  <2> SUFFICES ASSUME NEW r \in Slot PROVE GoodRead(c, fetch[c][r])'
    BY DEF ReadInv
  <2>1. GoodRead(c, fetch'[c][r])
    BY <1>1, <1>3 DEF ReadInv
  <2> QED
    BY <1>2, <2>1 DEF GoodRead, Names
<1> QED
  BY <1>2, <1>3, <1>4, <1>5, <1>6, TabKeeps

LEMMA AskingKeeps ==
  ASSUME IInv, NEW c \in Client, NEW x \in Fetch, GoodRead(c, x), AsksToo(c, x),
         UNCHANGED <<kind, made, saveVars, job, editVars, diskVars, faults>>
  PROVE  IInv'
<1>1. PICK s \in Slot : fetch' = [fetch EXCEPT ![c][s] = x]
  BY DEF AsksToo
<1>2. faults' \in 0..MaxFaults /\ job' \in Job
  BY DEF IInv, TypeOK
<1> QED
  BY <1>1, <1>2, FetchKeeps

LEMMA PollKeeps == ASSUME IInv, NEW c \in Client, Poll(c) PROVE IInv'
<1> DEFINE x == [NoFetch EXCEPT !.kind = "refresh", !.expected = base[c]]
<1>1. base[c] \in Version \cup {None} /\ 0 \in Version
  BY BoundsAssumption DEF IInv, TypeOK, Version
<1>2. x \in Fetch /\ x.kind = "refresh" /\ x.at = "net" /\ x.given = None
  BY <1>1 DEF NoFetch, Fetch
<1>3. AsksToo(c, x) /\ UNCHANGED <<kind, made, saveVars, job, editVars, diskVars, faults>>
  BY DEF Poll
<1> HIDE DEF x
<1>4. GoodRead(c, x)
  BY <1>2 DEF GoodRead
<1> QED
  BY <1>2, <1>3, <1>4, AskingKeeps

LEMMA ReloadKeeps == ASSUME IInv, NEW c \in Client, Reload(c) PROVE IInv'
<1> DEFINE x == [NoFetch EXCEPT !.kind = "reload", !.revision = revision[c],
                                !.given = edited[c]]
<1>1. edited[c] \in Version \cup {None} /\ revision[c] \in Nat /\ 0 \in Version
  BY BoundsAssumption DEF IInv, TypeOK, Version
<1>2. x \in Fetch /\ x.kind = "reload" /\ x.at = "net" /\ x.given = edited[c]
      /\ x.revision = revision[c]
  BY <1>1 DEF NoFetch, Fetch
<1>3. AsksToo(c, x) /\ kind = "code"
      /\ UNCHANGED <<kind, made, saveVars, job, editVars, diskVars, faults>>
  BY DEF Reload
<1> HIDE DEF x
<1>4. GoodRead(c, x)
  BY <1>1, <1>2, <1>3 DEF GoodRead
<1> QED
  BY <1>2, <1>3, <1>4, AskingKeeps

LEMMA FetchBreaksKeeps ==
  ASSUME IInv, NEW c \in Client, NEW s \in Slot, FetchBreaks(c, s) PROVE IInv'
<1>1. TypeOK /\ ReadInv(c)
  BY DEF IInv, ClientInv
<1> DEFINE what == IF fetch[c][s].kind = "open" THEN "shut" ELSE "none"
           x == [NoFetch EXCEPT !.kind = what]
<1>2. fetch' = [fetch EXCEPT ![c][s] = x]
  BY DEF FetchBreaks
<1>3. what \in {"shut", "none"} /\ (what = "shut" => fetch[c][s].kind = "open")
  OBVIOUS
<1> HIDE DEF what
<1>4. x \in Fetch /\ x.kind = what /\ x.at = "net" /\ x.given = None
  <2>1. 0 \in Version
    BY BoundsAssumption DEF Version
  <2> QED
    BY <1>3, <2>1 DEF NoFetch, Fetch
<1> HIDE DEF x
<1>5. GoodRead(c, x)
  BY <1>1, <1>3, <1>4 DEF ReadInv, GoodRead
<1>6. job' \in Job /\ (job' = job \/ job' = [job EXCEPT !.wanted = FALSE])
  BY <1>1 DEF FetchBreaks, TypeOK, Job
<1>7. faults' \in 0..MaxFaults /\ UNCHANGED <<kind, made, saveVars, editVars, diskVars>>
  BY <1>1, BoundsAssumption DEF FetchBreaks, Fails, TypeOK
<1> QED
  BY <1>2, <1>4, <1>5, <1>6, <1>7, FetchKeeps

LEMMA OpenKeeps == ASSUME IInv, NEW c \in Client, Open(c) PROVE IInv'
<1>1. TypeOK /\ PumpInv(c) /\ EditInv(c) /\ TagInv(c)
  BY DEF IInv, ClientInv
<1>2. /\ Resets(c, None, None) /\ edited' = Set(edited, c, 0) /\ Asks(c, "open", None)
      /\ UNCHANGED <<kind, file, made, req, reply, tag, overtaken, landed, raced, lost, faults>>
  BY DEF Open, diskVars
<1>3. 0 \in Version
  BY BoundsAssumption DEF Version
<1>4. /\ fetch' \in [Client -> [Slot -> Fetch]] /\ job' \in Job
      /\ \A s \in Slot : fetch'[c][s].kind \in {"open", "none"} /\ fetch'[c][s].at = "net"
                         /\ fetch'[c][s].given = None
      /\ \A d \in Client : d # c => fetch'[d] = fetch[d]
  BY <1>1, <1>2, AskedType
<1>5. TypeOK'
  <2>1. /\ latest' \in [Client -> Version \cup {None}]
        /\ revision' \in [Client -> Nat]
        /\ unsaved' \in [Client -> BOOLEAN]
        /\ timer' \in [Client -> BOOLEAN]
        /\ phase' \in [Client -> {"clean", "dirty", "saving", "conflict", "error"}]
        /\ pump' \in [Client -> {"none", "live", "stale"}]
        /\ base' \in [Client -> Version \cup {None}]
        /\ known' \in [Client -> Version \cup {None}]
    BY <1>1, <1>2, ResetType
  <2>2. edited' \in [Client -> Version]
    BY <1>1, <1>2, <1>3 DEF TypeOK, Set
  <2> QED
    BY <1>1, <1>2, <1>4, <2>1, <2>2 DEF TypeOK
<1>6. /\ unsaved'[c] = FALSE /\ phase'[c] = "clean" /\ base'[c] = None /\ known'[c] = None
      /\ pump'[c] = (IF pump[c] = "none" THEN "none" ELSE "stale")
      /\ edited'[c] = 0
  BY <1>1, <1>2 DEF TypeOK, Resets, Set
<1>7. \A d \in Client : d # c =>
        /\ pump'[d] = pump[d] /\ phase'[d] = phase[d] /\ unsaved'[d] = unsaved[d]
        /\ edited'[d] = edited[d] /\ latest'[d] = latest[d]
        /\ base'[d] = base[d] /\ known'[d] = known[d] /\ revision'[d] = revision[d]
  BY <1>1, <1>2 DEF TypeOK, Resets, Set
<1>8. job' = job \/ job' = [job EXCEPT !.wanted = FALSE]
  BY <1>2 DEF Asks
<1>9. PumpInv(c)' /\ EditInv(c)' /\ TagInv(c)'
  BY <1>1, <1>2, <1>6 DEF PumpInv, EditInv, TagInv, Names
<1>10. ReadInv(c)'
  BY <1>4, <1>6 DEF ReadInv, GoodRead
<1> QED
  BY <1>2, <1>4, <1>5, <1>7, <1>8, <1>9, <1>10, TabKeeps

\* A read that is applied: the coordinator starts over from it.
LEMMA ApplyingKeeps ==
  ASSUME IInv, NEW c \in Client, NEW s \in Slot, Arrives(c, s), Applies(c, fetch[c][s])
  PROVE  IInv'
<1> DEFINE read == fetch[c][s]
<1>1. TypeOK /\ PumpInv(c) /\ EditInv(c) /\ TagInv(c) /\ ReadInv(c) /\ GoodRead(c, read)
  BY DEF IInv, ClientInv, ReadInv
<1>2. /\ read.at = "here" /\ Resets(c, read.tag, read.content) /\ Drops(c, read)
      /\ fetch' = [fetch EXCEPT ![c] = [r \in Slot |-> IF r = s THEN NoFetch
                                                       ELSE Outdated(fetch[c][r])]]
      /\ UNCHANGED <<kind, file, made, req, reply, tag, job, landed, raced, lost, faults>>
  BY DEF Arrives, Set, diskVars
<1>3. read \in Fetch /\ read.tag \in Version /\ read.content \in Version
  BY <1>1 DEF TypeOK, Fetch
<1>4. /\ 0 \in Version /\ NoFetch \in Fetch
      /\ NoFetch.kind = "none" /\ NoFetch.at = "net" /\ NoFetch.given = None
  BY BoundsAssumption DEF Version, NoFetch, Fetch
<1>5. \A r \in Slot : fetch[c][r] \in Fetch /\ Outdated(fetch[c][r]) \in Fetch
  BY <1>1, ReadsChange DEF TypeOK
<1>6. /\ fetch' \in [Client -> [Slot -> Fetch]]
      /\ \A r \in Slot : fetch'[c][r] = IF r = s THEN NoFetch ELSE Outdated(fetch[c][r])
      /\ \A d \in Client : d # c => fetch'[d] = fetch[d]
  BY <1>1, <1>2, <1>4, <1>5 DEF TypeOK
<1>7. /\ unsaved'[c] = FALSE /\ phase'[c] = "clean"
      /\ base'[c] = read.tag /\ known'[c] = read.content
      /\ pump'[c] = (IF pump[c] = "none" THEN "none" ELSE "stale")
      /\ \A d \in Client : d # c =>
           /\ pump'[d] = pump[d] /\ phase'[d] = phase[d] /\ unsaved'[d] = unsaved[d]
           /\ latest'[d] = latest[d] /\ base'[d] = base[d] /\ known'[d] = known[d]
           /\ revision'[d] = revision[d]
  BY <1>1, <1>2 DEF TypeOK, Resets, Set
<1>8. /\ edited' \in [Client -> Version] /\ overtaken' \subseteq Client \X Version
      /\ overtaken \subseteq overtaken' /\ edited'[c] \in {edited[c], 0}
      /\ \A d \in Client : d # c => edited'[d] = edited[d]
  BY <1>1, <1>2, <1>4 DEF TypeOK, Drops, Set
<1>9. TypeOK'
  <2>1. /\ latest' \in [Client -> Version \cup {None}]
        /\ revision' \in [Client -> Nat]
        /\ unsaved' \in [Client -> BOOLEAN]
        /\ timer' \in [Client -> BOOLEAN]
        /\ phase' \in [Client -> {"clean", "dirty", "saving", "conflict", "error"}]
        /\ pump' \in [Client -> {"none", "live", "stale"}]
        /\ base' \in [Client -> Version \cup {None}]
        /\ known' \in [Client -> Version \cup {None}]
    BY <1>1, <1>2, <1>3, ResetType
  <2> QED
    BY <1>1, <1>2, <1>6, <1>8, <2>1 DEF TypeOK
<1>10. EditInv(c)'
  <2>1. CASE read.kind = "open"
    BY <1>1, <1>8, <2>1 DEF GoodRead, EditInv
  <2>2. CASE read.kind = "reload"
    <3>1. kind = "code" /\ read.revision = revision[c]
      BY <1>1, <2>2 DEF GoodRead, Applies
    <3>2. CASE read.given = None
      BY <1>2, <1>8, <2>2, <3>1, <3>2 DEF Drops, EditInv
    <3>3. CASE read.given # None
      <4>1. read.given = edited[c]
        BY <1>1, <3>1, <3>3 DEF GoodRead
      <4> QED
        BY <1>1, <1>2, <2>2, <4>1 DEF Drops, TypeOK, Set, EditInv
    <3> QED
      BY <3>2, <3>3
  <2>3. CASE read.kind = "refresh" /\ phase[c] = "clean"
    BY <1>1, <1>2, <1>8, <2>3 DEF EditInv, PumpInv
  <2> QED
    BY <2>1, <2>2, <2>3 DEF Applies
<1>11. PumpInv(c)' /\ TagInv(c)'
  BY <1>1, <1>2, <1>7 DEF PumpInv, TagInv, GoodRead, Names
<1>12. ReadInv(c)'
  <2> SUFFICES ASSUME NEW r \in Slot PROVE GoodRead(c, fetch[c][r])'
    BY DEF ReadInv
  <2>1. CASE r = s
    BY <1>4, <1>6, <2>1 DEF GoodRead
  <2>2. CASE r # s
    <3>1. /\ fetch'[c][r].kind = fetch[c][r].kind /\ fetch'[c][r].at = fetch[c][r].at
          /\ fetch'[c][r].tag = fetch[c][r].tag /\ fetch'[c][r].content = fetch[c][r].content
          /\ fetch'[c][r].given = None
      BY <1>5, <1>6, <2>2, ReadsChange
    <3>2. GoodRead(c, fetch[c][r])
      BY <1>1 DEF ReadInv
    <3> QED
      BY <1>2, <1>8, <3>1, <3>2 DEF GoodRead, Names
  <2> QED
    BY <2>1, <2>2
<1> QED
  BY <1>2, <1>6, <1>7, <1>8, <1>9, <1>10, <1>11, <1>12, TabKeeps

LEMMA ArrivesKeeps == ASSUME IInv, NEW c \in Client, NEW s \in Slot, Arrives(c, s) PROVE IInv'
<1>1. CASE Applies(c, fetch[c][s])
  BY <1>1, ApplyingKeeps
<1>2. CASE ~Applies(c, fetch[c][s])
  <2>1. /\ fetch' = [fetch EXCEPT ![c][s] = NoFetch]
        /\ UNCHANGED <<kind, made, saveVars, job, editVars, diskVars, faults>>
    BY <1>2 DEF Arrives, saveVars
  <2>2. NoFetch \in Fetch /\ GoodRead(c, NoFetch)
    BY BoundsAssumption DEF Version, NoFetch, Fetch, GoodRead
  <2>3. job' \in Job /\ faults' \in 0..MaxFaults
    BY <2>1 DEF IInv, TypeOK
  <2> QED
    BY <2>1, <2>2, <2>3, FetchKeeps
<1> QED
  BY <1>1, <1>2

LEMMA SaveBreaksKeeps == ASSUME IInv, NEW c \in Client, SaveBreaks(c) PROVE IInv'
<1>1. TypeOK /\ PumpInv(c) /\ EditInv(c) /\ TagInv(c) /\ ReadInv(c)
  BY DEF IInv, ClientInv
<1>2. /\ reply[c] # "none" /\ reply' = Set(reply, c, "error") /\ tag' = Set(tag, c, 0)
      /\ UNCHANGED <<kind, file, made, phase, latest, revision, unsaved, timer, pump, req, base,
                     known, fetch, edited, overtaken, landed, raced, lost>>
  BY DEF SaveBreaks, editVars, diskVars
<1>3. \/ job' = job /\ reply[c] # "served"
      \/ job' = [job EXCEPT !.wanted = FALSE]
  BY DEF SaveBreaks
<1>4. TypeOK'
  <2>1. 0 \in Version
    BY BoundsAssumption DEF Version
  <2>2. /\ reply' \in [Client -> {"none", "net", "served", "ok", "conflict", "error"}]
        /\ tag' \in [Client -> Version]
    BY <1>1, <1>2, <2>1 DEF TypeOK, Set
  <2>3. job' \in Job
    BY <1>1, <1>3 DEF TypeOK, Job
  <2>4. faults' \in 0..MaxFaults
    BY <1>1, BoundsAssumption DEF TypeOK, SaveBreaks, Fails
  <2> QED
    BY <1>1, <1>2, <2>2, <2>3, <2>4 DEF TypeOK
<1>5. reply'[c] = "error" /\ \A d \in Client : d # c => reply'[d] = reply[d] /\ tag'[d] = tag[d]
  BY <1>1, <1>2 DEF TypeOK, Set
<1>6. PumpInv(c)' /\ EditInv(c)' /\ TagInv(c)'
  BY <1>1, <1>2, <1>5 DEF PumpInv, EditInv, TagInv, Names
<1>7. ReadInv(c)'
  BY <1>1, <1>2, ReadsStay
<1> QED
  BY <1>2, <1>3, <1>4, <1>5, <1>6, <1>7, TabKeeps

-----------------------------------------------------------------------------
(* The handlers. *)

\* Steps of a handler, which leave the tabs' coordinators alone.
LEMMA HandlerKeeps ==
  ASSUME IInv, TypeOK',
         UNCHANGED <<kind, phase, latest, unsaved, pump, req, base, known, edited, overtaken>>,
         landed \subseteq landed', raced \subseteq raced',
         \A c \in Client :
           /\ reply'[c] = "none" <=> reply[c] = "none"
           /\ (reply[c] = "ok" => req[c].value \in landed /\ Names(c, tag[c], req[c].value))'
           /\ ReadInv(c)',
         JobInv', OnlyRacesLose'
  PROVE  IInv'
<1>1. ASSUME NEW c \in Client PROVE PumpInv(c)' /\ EditInv(c)' /\ TagInv(c)' /\ ReadInv(c)'
  <2>1. PumpInv(c) /\ EditInv(c) /\ TagInv(c)
    BY DEF IInv, ClientInv
  <2>2. PumpInv(c)' /\ EditInv(c)' /\ TagInv(c)'
    BY <2>1 DEF PumpInv, EditInv, TagInv, Names
  <2> QED
    BY <2>2
<1> QED
  BY <1>1 DEF IInv, ClientInv

\* A handler that answers a save: the reads stay as they are.
LEMMA PutKeeps ==
  ASSUME IInv, TypeOK',
         UNCHANGED <<kind, phase, latest, revision, unsaved, pump, req, base, known, fetch, edited,
                     overtaken>>,
         landed \subseteq landed', raced \subseteq raced',
         \A c \in Client :
           /\ reply'[c] = "none" <=> reply[c] = "none"
           /\ (reply[c] = "ok" => req[c].value \in landed /\ Names(c, tag[c], req[c].value))',
         JobInv', OnlyRacesLose'
  PROVE  IInv'
<1>1. \A c \in Client : ReadInv(c)'
  BY ReadsStay DEF IInv, ClientInv
<1> QED
  BY <1>1, HandlerKeeps

LEMMA ServePutKeeps == ASSUME IInv, NEW c \in Client, ServePut(c) PROVE IInv'
<1>1. TypeOK /\ JobInv /\ \A d \in Client : TagInv(d)
  BY DEF IInv, ClientInv
<1>2. /\ job.at = "idle" /\ reply[c] = "net"
      /\ UNCHANGED <<kind, file, made, phase, latest, revision, unsaved, timer, pump, req, tag, base, known,
                     fetch, edited, overtaken, landed, raced, lost, faults>>
  BY DEF ServePut, editVars, diskVars
<1>3. req[c] \in Request
  BY <1>1 DEF TypeOK
<1>4. CASE ~req[c].force /\ req[c].base # file
  <2>1. reply' = Set(reply, c, "conflict") /\ job' = job
    BY <1>4 DEF ServePut
  <2>2. TypeOK' /\ \A d \in Client : reply'[d] = IF d = c THEN "conflict" ELSE reply[d]
    BY <1>1, <1>2, <2>1 DEF TypeOK, Set
  <2>3. JobInv'
    BY <1>2, <2>1 DEF JobInv
  <2>4. OnlyRacesLose'
    BY <1>2 DEF IInv, OnlyRacesLose
  <2> QED
    BY <1>1, <1>2, <2>2, <2>3, <2>4, PutKeeps DEF TagInv, Names
<1>5. CASE ~(~req[c].force /\ req[c].base # file)
  <2>1. /\ reply' = Set(reply, c, "served")
        /\ job' = [Idle EXCEPT !.at = "checked", !.from = c, !.req = req[c], !.wanted = TRUE]
    BY <1>5 DEF ServePut
  <2>2. job' = [at |-> "checked", from |-> c, slot |-> 1, req |-> req[c], content |-> 0,
                wanted |-> TRUE]
    BY <2>1 DEF Idle
  <2>3. job' \in Job
    BY <1>3, <2>2, BoundsAssumption DEF Job, Version, Slot
  <2>4. TypeOK' /\ \A d \in Client : reply'[d] = IF d = c THEN "served" ELSE reply[d]
    BY <1>1, <1>2, <2>1, <2>3 DEF TypeOK, Set
  <2>5. ~req[c].force => Names(c, file, req[c].known)
    BY <1>1, <1>2, <1>3, <1>5 DEF TagInv, Request
  <2>6. JobInv'
    BY <1>2, <2>2, <2>4, <2>5 DEF JobInv, Names
  <2>7. OnlyRacesLose'
    BY <1>2 DEF IInv, OnlyRacesLose
  <2> QED
    BY <1>1, <1>2, <2>4, <2>6, <2>7, PutKeeps DEF TagInv, Names
<1> QED
  BY <1>4, <1>5

LEMMA ReplaceFileKeeps == ASSUME IInv, ReplaceFile PROVE IInv'
<1>1. TypeOK /\ JobInv /\ \A d \in Client : PumpInv(d) /\ TagInv(d)
  BY DEF IInv, ClientInv
<1>2. /\ job.at = "checked"
      /\ UNCHANGED <<kind, made, phase, latest, revision, unsaved, timer, pump, req, tag, base, known,
                     fetch, edited, overtaken, raced>>
  BY DEF ReplaceFile, editVars
<1>3. job.from \in Client /\ job \in Job /\ job.req \in Request
  BY <1>1, <1>2 DEF JobInv, TypeOK, Job
<1>4. CASE /\ file' = job.req.value
           /\ landed' = landed \cup {job.req.value}
           /\ lost' = IF job.req.force \/ file = job.req.known
                      THEN lost ELSE lost \cup {<<job.from, file>>}
           /\ job' = [job EXCEPT !.at = "replaced"]
           /\ UNCHANGED <<reply, faults>>
  <2>1. job' = [at |-> "replaced", from |-> job.from, slot |-> job.slot, req |-> job.req,
                content |-> job.content, wanted |-> job.wanted]
    BY <1>3, <1>4 DEF Job
  <2>2. job' \in Job
    BY <1>3, <2>1 DEF Job
  <2>3. job.req.value \in Version /\ file \in Version
    BY <1>1, <1>3 DEF Request, TypeOK
  <2>4. TypeOK'
    BY <1>1, <1>2, <1>3, <1>4, <2>2, <2>3 DEF TypeOK
  <2>5. JobInv'
    BY <1>1, <1>2, <1>3, <1>4, <2>1 DEF JobInv, Names
  <2>6. OnlyRacesLose'
    <3>1. CASE lost' = lost
      BY <1>2, <3>1 DEF IInv, OnlyRacesLose
    <3>2. CASE ~(job.req.force \/ file = job.req.known)
      BY <1>1, <1>2, <1>4, <3>2 DEF IInv, OnlyRacesLose, JobInv, Names
    <3> QED
      BY <1>4, <3>1, <3>2
  <2> QED
    BY <1>1, <1>2, <1>4, <2>4, <2>5, <2>6, PutKeeps DEF TagInv, Names
<1>5. CASE /\ Fails
           /\ reply' = IF job.wanted THEN Set(reply, job.from, "error") ELSE reply
           /\ job' = Idle
           /\ UNCHANGED <<file, landed, lost>>
  <2>1. Idle \in Job /\ Idle.at = "idle"
    BY BoundsAssumption DEF Idle, Job, NoRequest, Request, Version, Slot
  <2>2. reply' \in [Client -> {"none", "net", "served", "ok", "conflict", "error"}]
        /\ \A d \in Client : \/ reply'[d] = reply[d]
                             \/ reply[d] = "served" /\ reply'[d] = "error"
    BY <1>1, <1>2, <1>3, <1>5 DEF TypeOK, Set, JobInv
  <2>3. faults' \in 0..MaxFaults
    BY <1>1, <1>5, BoundsAssumption DEF TypeOK, Fails
  <2>4. TypeOK'
    BY <1>1, <1>2, <1>5, <2>1, <2>2, <2>3 DEF TypeOK
  <2>5. JobInv' /\ OnlyRacesLose'
    BY <1>2, <1>5, <2>1 DEF JobInv, IInv, OnlyRacesLose
  <2> QED
    BY <1>1, <1>2, <1>5, <2>2, <2>4, <2>5, PutKeeps DEF TagInv, Names
<1> QED
  BY <1>4, <1>5 DEF ReplaceFile

LEMMA AnswerPutKeeps == ASSUME IInv, AnswerPut PROVE IInv'
<1>1. TypeOK /\ JobInv /\ \A d \in Client : PumpInv(d) /\ TagInv(d)
  BY DEF IInv, ClientInv
<1>2. /\ job.at = "replaced" /\ job' = Idle
      /\ UNCHANGED <<kind, file, made, phase, latest, revision, unsaved, timer, pump, req, base, known,
                     fetch, edited, overtaken, landed, raced, lost, faults>>
  BY DEF AnswerPut, editVars, diskVars
<1>3. job.from \in Client /\ file \in Version
      /\ Idle \in Job /\ Idle.at = "idle"
  BY <1>1, <1>2, BoundsAssumption DEF JobInv, TypeOK, Idle, Job, NoRequest, Request, Version, Slot
<1>4. /\ reply' \in [Client -> {"none", "net", "served", "ok", "conflict", "error"}]
      /\ tag' \in [Client -> Version]
  BY <1>1, <1>3 DEF AnswerPut, TypeOK, Set
<1>5. TypeOK'
  BY <1>1, <1>2, <1>3, <1>4 DEF TypeOK
<1>6. ASSUME NEW d \in Client
      PROVE  /\ reply'[d] = "none" <=> reply[d] = "none"
             /\ (reply[d] = "ok" => req[d].value \in landed /\ Names(d, tag[d], req[d].value))'
  <2>1. CASE job.wanted /\ d = job.from
    <3>1. reply'[d] = "ok" /\ tag'[d] = file
      BY <1>1, <1>2, <1>3, <2>1 DEF AnswerPut, TypeOK, Set
    <3>2. reply[d] = "served" /\ req[d] = job.req
      BY <1>1, <1>2, <2>1 DEF JobInv
    <3> QED
      BY <1>1, <1>2, <2>1, <3>1, <3>2 DEF JobInv, Names
  <2>2. CASE ~(job.wanted /\ d = job.from)
    <3>1. reply'[d] = reply[d] /\ tag'[d] = tag[d]
      BY <1>1, <1>2, <1>3, <2>2 DEF AnswerPut, TypeOK, Set
    <3> QED
      BY <1>1, <1>2, <3>1 DEF TagInv, Names
  <2> QED
    BY <2>1, <2>2
<1>7. JobInv' /\ OnlyRacesLose'
  BY <1>2, <1>3 DEF JobInv, IInv, OnlyRacesLose
<1> QED
  BY <1>1, <1>2, <1>5, <1>6, <1>7, PutKeeps DEF TagInv, Names

LEMMA FetchMoves ==
  ASSUME NEW x \in Fetch, NEW p \in {"net", "served", "here"},
         NEW v \in Version, NEW t \in Version
  PROVE  /\ [x EXCEPT !.at = p] \in Fetch
         /\ [x EXCEPT !.at = p, !.content = v, !.tag = t] \in Fetch
         /\ [x EXCEPT !.at = p].at = p /\ [x EXCEPT !.at = p].kind = x.kind
         /\ [x EXCEPT !.at = p].given = x.given /\ [x EXCEPT !.at = p].revision = x.revision
<1>1. x.untouched \in BOOLEAN
  BY DEF Fetch
<1>2. CASE x.untouched = TRUE
  BY <1>2 DEF Fetch
<1>3. CASE x.untouched = FALSE
  BY <1>3 DEF Fetch
<1> QED
  BY <1>1, <1>2, <1>3

\* A handler that reads the file for one read of one tab.
LEMMA GetKeeps ==
  ASSUME IInv, NEW c \in Client, NEW s \in Slot, NEW x \in Fetch, job' \in Job,
         fetch' = fetch \/ fetch' = [fetch EXCEPT ![c][s] = x],
         x.kind = fetch[c][s].kind, x.given = fetch[c][s].given,
         x.revision = fetch[c][s].revision, x.at = "here" => Names(c, x.tag, x.content),
         UNCHANGED <<kind, made, saveVars, editVars, diskVars, faults>>, JobInv'
  PROVE  IInv'
<1>1. TypeOK /\ ReadInv(c) /\ OnlyRacesLose /\ \A d \in Client : TagInv(d) /\ ReadInv(d)
  BY DEF IInv, ClientInv
<1>2. UNCHANGED <<kind, file, made, phase, latest, revision, unsaved, timer, pump, req, reply, tag,
                  base, known, edited, overtaken, landed, raced, lost, faults>>
  BY DEF saveVars, editVars, diskVars
<1>3. /\ fetch' \in [Client -> [Slot -> Fetch]]
      /\ \A d \in Client : d # c => fetch'[d] = fetch[d]
      /\ \A r \in Slot : fetch'[c][r] = fetch[c][r] \/ (r = s /\ fetch'[c][r] = x)
  <2>1. CASE fetch' = fetch
    BY <1>1, <2>1 DEF TypeOK
  <2>2. CASE fetch' = [fetch EXCEPT ![c][s] = x]
    BY <1>1, <2>2 DEF TypeOK
  <2> QED
    BY <2>1, <2>2
<1>4. TypeOK'
  BY <1>1, <1>2, <1>3 DEF TypeOK
<1>5. ReadInv(c)'
  <2> SUFFICES ASSUME NEW r \in Slot PROVE GoodRead(c, fetch[c][r])'
    BY DEF ReadInv
  <2>1. GoodRead(c, fetch[c][r]) /\ GoodRead(c, fetch[c][s])
    BY <1>1 DEF ReadInv
  <2>2. GoodRead(c, fetch'[c][r])
    BY <1>3, <2>1 DEF GoodRead
  <2> QED
    BY <1>2, <2>2 DEF GoodRead, Names
<1>6. \A d \in Client : ReadInv(d)'
  BY <1>1, <1>2, <1>3, <1>5, ReadsStay
<1>7. OnlyRacesLose'
  BY <1>1, <1>2 DEF OnlyRacesLose
<1> QED
  BY <1>1, <1>2, <1>4, <1>6, <1>7, HandlerKeeps DEF TagInv, Names

LEMMA ServeGetKeeps ==
  ASSUME IInv, NEW c \in Client, NEW s \in Slot, ServeGet(c, s) PROVE IInv'
<1>1. TypeOK
  BY DEF IInv
<1>2. /\ fetch' = [fetch EXCEPT ![c][s].at = "served"]
      /\ job' = [Idle EXCEPT !.at = "loaded", !.from = c, !.slot = s, !.content = file,
                             !.wanted = TRUE]
      /\ UNCHANGED <<kind, made, saveVars, editVars, diskVars, faults>>
  BY DEF ServeGet
<1>3. job' = [at |-> "loaded", from |-> c, slot |-> s, req |-> NoRequest, content |-> file,
              wanted |-> TRUE]
  BY <1>2 DEF Idle
<1>4. job' \in Job
  BY <1>1, <1>3, BoundsAssumption DEF TypeOK, Job, NoRequest, Request, Version
<1> DEFINE y == fetch[c][s]
           x == [y EXCEPT !.at = "served"]
<1>5. y \in Fetch /\ 0 \in Version
  BY <1>1, BoundsAssumption DEF TypeOK, Version
<1> HIDE DEF y
<1>6. /\ x \in Fetch /\ x.at = "served" /\ x.kind = y.kind
      /\ x.given = y.given /\ x.revision = y.revision
  BY <1>5, FetchMoves
<1>7. fetch' = [fetch EXCEPT ![c][s] = x]
  BY <1>1, <1>2 DEF TypeOK, y
<1>8. JobInv'
  BY <1>2, <1>3 DEF JobInv, Names, diskVars
<1> HIDE DEF x
<1> QED
  BY <1>2, <1>4, <1>6, <1>7, <1>8, GetKeeps DEF y

LEMMA AnswerGetKeeps == ASSUME IInv, AnswerGet PROVE IInv'
<1>1. TypeOK /\ JobInv
  BY DEF IInv
<1>2. /\ job.at = "loaded" /\ job' = Idle
      /\ UNCHANGED <<kind, made, saveVars, editVars, diskVars, faults>>
  BY DEF AnswerGet
<1>3. job.from \in Client /\ job.slot \in Slot /\ file \in Version /\ job.content \in Version
      /\ Idle \in Job /\ Idle.at = "idle"
  BY <1>1, <1>2, BoundsAssumption DEF JobInv, TypeOK, Idle, Job, NoRequest, Request, Version, Slot
<1> DEFINE y == fetch[job.from][job.slot]
           x == [y EXCEPT !.at = "here", !.content = job.content, !.tag = file]
<1>4. fetch' = fetch \/ fetch' = [fetch EXCEPT ![job.from][job.slot] = x]
  BY <1>1, <1>3 DEF AnswerGet, TypeOK
<1>5. y \in Fetch
  BY <1>1, <1>3 DEF TypeOK
<1> HIDE DEF y
<1>6. x \in Fetch
  BY <1>3, <1>5, FetchMoves
<1>7. /\ x.kind = y.kind /\ x.given = y.given /\ x.revision = y.revision
      /\ x.tag = file /\ x.content = job.content
  BY <1>5 DEF Fetch
<1>8. Names(job.from, file, job.content)
  BY <1>1, <1>2 DEF JobInv
<1>9. JobInv'
  BY <1>2, <1>3 DEF JobInv
<1> HIDE DEF x
<1> QED
  BY <1>2, <1>3, <1>4, <1>6, <1>7, <1>8, <1>9, GetKeeps DEF y

LEMMA WriteOutsideKeeps == ASSUME IInv, WriteOutside PROVE IInv'
<1>1. TypeOK /\ JobInv /\ \A d \in Client : TagInv(d)
  BY DEF IInv, ClientInv
<1>2. /\ made < MaxVersions /\ made' = made + 1 /\ file' = made + 1
      /\ raced' = IF job.at = "idle" THEN raced ELSE raced \cup {<<job.from, made + 1>>}
      /\ UNCHANGED <<kind, phase, latest, revision, unsaved, timer, pump, req, reply, tag, base, known,
                     fetch, job, edited, overtaken, landed, lost, faults>>
  BY DEF WriteOutside, saveVars, editVars
<1>3. made + 1 \in Version
  BY <1>1, <1>2, BoundsAssumption DEF TypeOK, Version
<1>4. raced \subseteq raced' /\ raced' \subseteq Client \X Version
  BY <1>1, <1>2, <1>3 DEF TypeOK, JobInv
<1>5. TypeOK'
  BY <1>1, <1>2, <1>3, <1>4 DEF TypeOK
<1>6. job.at # "idle" => <<job.from, file'>> \in raced'
  BY <1>2
<1>7. JobInv' /\ OnlyRacesLose'
  BY <1>1, <1>2, <1>4, <1>6 DEF JobInv, Names, IInv, OnlyRacesLose
<1> QED
  BY <1>1, <1>2, <1>4, <1>5, <1>7, PutKeeps DEF TagInv, Names

-----------------------------------------------------------------------------
(* The theorems. *)

LEMMA InitHolds == Init => IInv
<1> SUFFICES ASSUME Init PROVE IInv
  OBVIOUS
<1>1. 0 \in Version /\ NoRequest \in Request /\ NoFetch \in Fetch /\ Idle \in Job
  BY BoundsAssumption DEF Version, Slot, NoRequest, Request, NoFetch, Fetch, Idle, Job
<1>2. NoFetch.kind = "none" /\ NoFetch.at = "net" /\ NoFetch.given = None /\ Idle.at = "idle"
  BY DEF NoFetch, Idle
<1>3. TypeOK
  BY <1>1, BoundsAssumption DEF Init, TypeOK
<1>4. \A c \in Client : PumpInv(c) /\ EditInv(c) /\ TagInv(c) /\ ReadInv(c)
  BY <1>2 DEF Init, PumpInv, EditInv, TagInv, ReadInv, GoodRead, Names
<1>5. JobInv /\ OnlyRacesLose
  BY <1>2 DEF Init, JobInv, OnlyRacesLose
<1> QED
  BY <1>3, <1>4, <1>5 DEF IInv, ClientInv

LEMMA StepKeeps == IInv /\ [Next]_vars => IInv'
<1> SUFFICES ASSUME IInv, [Next]_vars PROVE IInv'
  OBVIOUS
<1>1. ASSUME NEW c \in Client, Edit(c) \/ Coordinates(c) \/ Overwrite(c) PROVE IInv'
  BY <1>1, EditKeeps, FlushKeeps, SavedKeeps, SaveFailedKeeps, StaleSettlesKeeps, OverwriteKeeps
     DEF Coordinates
<1>2. ASSUME NEW c \in Client, Poll(c) \/ Open(c) \/ Reload(c) \/ ServePut(c) \/ SaveBreaks(c)
      PROVE  IInv'
  BY <1>2, PollKeeps, OpenKeeps, ReloadKeeps, ServePutKeeps, SaveBreaksKeeps
<1>3. ASSUME NEW c \in Client, NEW s \in Slot, ServeGet(c, s) \/ Arrives(c, s) \/ FetchBreaks(c, s)
      PROVE  IInv'
  BY <1>3, ServeGetKeeps, ArrivesKeeps, FetchBreaksKeeps
<1>4. CASE Serves
  BY <1>4, ReplaceFileKeeps, AnswerPutKeeps, AnswerGetKeeps DEF Serves
<1>5. CASE WriteOutside
  BY <1>5, WriteOutsideKeeps
<1>6. CASE UNCHANGED vars
  <2>1. UNCHANGED <<kind, made, file, phase, latest, revision, unsaved, timer, pump, req, reply, tag, base,
                    known, fetch, job, edited, overtaken, landed, raced, lost, faults>>
    BY <1>6 DEF vars, saveVars, editVars, diskVars
  <2>2. TypeOK' /\ JobInv' /\ OnlyRacesLose'
    BY <2>1 DEF IInv, TypeOK, JobInv, OnlyRacesLose, Names
  <2>3. ClientInv'
    BY <2>1 DEF IInv, ClientInv, PumpInv, EditInv, TagInv, ReadInv, GoodRead, Names
  <2> QED
    BY <2>2, <2>3 DEF IInv
<1> QED
  BY <1>1, <1>2, <1>3, <1>4, <1>5, <1>6 DEF Next

LEMMA InvariantAlways == Spec => []IInv
<1>1. Init => IInv
  BY InitHolds
<1>2. IInv /\ [Next]_vars => IInv'
  BY StepKeeps
<1> QED
  BY <1>1, <1>2, PTL DEF Spec

\* For any number of tabs, versions, reads under way and faults: the last edit
\* of every tab has been put in the file, or is held and shown as not saved,
\* unless the user gave it up, or a reload of the code editor dropped it that an
\* applied read or the choice to overwrite had overtaken (SaveCoordinator of
\* persistence.ts, refreshDetail of store.ts, reload of CodeEditor.tsx).
THEOREM OnlyOvertakenReloadsDropAlways == Spec => []OnlyOvertakenReloadsDrop
<1>1. IInv => OnlyOvertakenReloadsDrop
  BY DEF IInv, ClientInv, EditInv, OnlyOvertakenReloadsDrop, Kept, HasPending
<1> QED
  BY <1>1, InvariantAlways, PTL

\* A save replaces a content that its tab did not know only if it was written
\* from outside in the middle of a handler for that tab (put_flow, put_code,
\* get_flow and get_code of app.py).
THEOREM OnlyRacesLoseAlways == Spec => []OnlyRacesLose
<1>1. IInv => OnlyRacesLose
  BY DEF IInv
<1> QED
  BY <1>1, InvariantAlways, PTL
=============================================================================
