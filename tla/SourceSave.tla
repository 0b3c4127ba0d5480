----------------------------- MODULE SourceSave -----------------------------
(***************************************************************************)
(* How edits reach a flow's source: the save coordinators of the browser   *)
(* tabs that show it, the handlers of the server that read and replace the *)
(* file, and somebody outside who writes it too. The file is flow.yaml,    *)
(* edited on a canvas, or nodes.py, edited in a code editor.               *)
(*                                                                         *)
(* Every content that is ever written is a version, a number, and an ETag, *)
(* a hash of the content, is the version itself. The handlers run on one   *)
(* event loop and never await once they hold the file's lock, so one at a  *)
(* time is between its reads and writes of the file; outside writers hold  *)
(* no lock. Code: ui/src/persistence.ts, ui/src/store.ts,                  *)
(* ui/src/components/CodeEditor.tsx, server/app.py, core/files.py.         *)
(***************************************************************************)
EXTENDS Integers, FiniteSets

CONSTANTS
  Client,       \* the tabs
  NoClient,
  MaxVersions,  \* bound: contents made by edits and by outside writers
  MaxReads,     \* bound: reads of the file that a tab has under way at a time
  MaxFaults     \* bound: connections that break and writes that fail

ASSUME NoClientAssumption == NoClient \notin Client
ASSUME BoundsAssumption == MaxVersions \in Nat /\ MaxFaults \in Nat /\ MaxReads \in Nat \ {0}

Version == 0..MaxVersions
Slot == 1..MaxReads
None == -1

VARIABLES
  kind,     \* what the file is: canvas (flow.yaml) or code (nodes.py)
  file,     \* its content
  made,     \* the last version made
  phase,    \* client -> phase of its coordinator
  latest,   \* client -> latestValue
  revision, \* client -> the edits since its coordinator started over
  unsaved,  \* client -> revision > persistedRevision
  timer,    \* client -> the debounce timer runs
  pump,     \* client -> its request: none, live, or stale (of a past generation)
  req,      \* client -> what the request carries
  reply,    \* client -> where the request is, or how it was answered
  tag,      \* client -> the ETag in a good answer
  base,     \* client -> the ETag the next save is based on
  known,    \* client -> history: the content its screen is based on
  fetch,    \* client -> slot -> a read of the file that is under way
  job,      \* the handler that is between two accesses to the file
  edited,   \* history: client -> its last edit, unless the user gave it up
  overtaken,\* history: <<client, edit dropped by a reload asked before the last decision>>
  landed,   \* history: the versions that saves put in the file
  raced,    \* history: <<client, version written from outside inside its handler>>
  lost,     \* history: <<client, version its save replaced without knowing it>>
  faults

editVars == <<edited, overtaken>>
saveVars == <<phase, latest, revision, unsaved, timer, pump, req, reply, tag, base, known>>
diskVars == <<file, landed, raced, lost>>
vars == <<kind, made, saveVars, fetch, job, editVars, diskVars, faults>>

Request == [value : Version, base : Version \cup {None}, known : Version \cup {None},
            force : BOOLEAN]
NoRequest == [value |-> 0, base |-> None, known |-> None, force |-> FALSE]
Fetch == [kind : {"none", "refresh", "reload", "open", "shut"}, at : {"net", "served", "here"},
          untouched : BOOLEAN,            \* a refresh: detailGeneration is still the same
          expected : Version \cup {None}, \* a refresh: the ETag it was asked on
          revision : Nat,                 \* a reload: the revision it was asked on
          given : Version \cup {None},    \* history: the edit the user gave up for this
                                          \* reload, if that is the last decision
          content : Version, tag : Version]
NoFetch == [kind |-> "none", at |-> "net", untouched |-> TRUE, expected |-> None,
            revision |-> 0, given |-> None, content |-> 0, tag |-> 0]
Job == [at : {"idle", "checked", "replaced", "loaded"}, from : Client \cup {NoClient},
        slot : Slot, req : Request, content : Version, wanted : BOOLEAN]
Idle == [at |-> "idle", from |-> NoClient, slot |-> 1, req |-> NoRequest, content |-> 0,
         wanted |-> FALSE]

TypeOK ==
  /\ kind \in {"canvas", "code"}
  /\ file \in Version /\ made \in Version
  /\ phase \in [Client -> {"clean", "dirty", "saving", "conflict", "error"}]
  /\ latest \in [Client -> Version \cup {None}]
  /\ revision \in [Client -> Nat]
  /\ unsaved \in [Client -> BOOLEAN]
  /\ timer \in [Client -> BOOLEAN]
  /\ pump \in [Client -> {"none", "live", "stale"}]
  /\ req \in [Client -> Request]
  /\ reply \in [Client -> {"none", "net", "served", "ok", "conflict", "error"}]
  /\ tag \in [Client -> Version]
  /\ base \in [Client -> Version \cup {None}]
  /\ known \in [Client -> Version \cup {None}]
  /\ fetch \in [Client -> [Slot -> Fetch]]
  /\ job \in Job
  /\ edited \in [Client -> Version]
  /\ overtaken \subseteq Client \X Version
  /\ landed \subseteq Version
  /\ raced \subseteq Client \X Version /\ lost \subseteq Client \X Version
  /\ faults \in 0..MaxFaults

\* Every tab has just loaded the file.
Init ==
  /\ kind \in {"canvas", "code"}
  /\ file = 0 /\ made = 0
  /\ phase = [c \in Client |-> "clean"]
  /\ latest = [c \in Client |-> None]
  /\ revision = [c \in Client |-> 0]
  /\ unsaved = [c \in Client |-> FALSE]
  /\ timer = [c \in Client |-> FALSE]
  /\ pump = [c \in Client |-> "none"]
  /\ req = [c \in Client |-> NoRequest]
  /\ reply = [c \in Client |-> "none"]
  /\ tag = [c \in Client |-> 0]
  /\ base = [c \in Client |-> 0]
  /\ known = [c \in Client |-> 0]
  /\ fetch = [c \in Client |-> [s \in Slot |-> NoFetch]]
  /\ job = Idle
  /\ edited = [c \in Client |-> 0]
  /\ overtaken = {} /\ landed = {} /\ raced = {} /\ lost = {}
  /\ faults = 0

Set(f, x, value) == [f EXCEPT ![x] = value]
Fails == faults < MaxFaults /\ faults' = faults + 1

\* detail is not null: there is something to edit.
Shows(c) == \A s \in Slot : fetch[c][s].kind \notin {"open", "shut"}

HasPending(c) ==
  phase[c] # "clean" \/ unsaved[c] \/ timer[c] \/ pump[c] # "none"

\* What happens to a read under way when the canvas changes, when the user
\* decides otherwise, and when another read is applied.
Touched(read) == [read EXCEPT !.untouched = @ /\ read.kind # "refresh"]
Withdrawn(read) == [read EXCEPT !.given = None]
Outdated(read) == Withdrawn(Touched(read))

-----------------------------------------------------------------------------
(* The coordinator: SaveCoordinator of persistence.ts. *)

\* runPump sends the latest value, on the ETag it has now.
Sends(c, value, etag, content, force) ==
  /\ phase' = Set(phase, c, "saving")
  /\ pump' = Set(pump, c, "live")
  /\ req' = Set(req, c, [value |-> value, base |-> etag, known |-> content, force |-> force])
  /\ reply' = Set(reply, c, "net")
  /\ tag' = Set(tag, c, 0)

\* edit(): while a request is under way the new revision waits behind it.
Edit(c) ==
  /\ Shows(c)
  /\ made < MaxVersions
  /\ made' = made + 1
  /\ latest' = Set(latest, c, made + 1)
  /\ edited' = Set(edited, c, made + 1)
  /\ revision' = Set(revision, c, revision[c] + 1)
  /\ unsaved' = Set(unsaved, c, TRUE)
  /\ phase' = Set(phase, c, IF pump[c] = "none" THEN "dirty" ELSE "saving")
  /\ timer' = Set(timer, c, timer[c] \/ pump[c] = "none")
  /\ fetch' = Set(fetch, c, [s \in Slot |-> Touched(fetch[c][s])])
  /\ UNCHANGED <<kind, pump, req, reply, tag, base, known, job, overtaken, diskVars, faults>>

\* flush(): by the timer, or earlier by navigation, a closing editor or a run.
Flush(c) ==
  /\ timer[c]
  /\ timer' = Set(timer, c, FALSE)
  /\ IF unsaved[c] /\ pump[c] = "none" /\ phase[c] \notin {"conflict", "error"}
     THEN Sends(c, latest[c], base[c], known[c], FALSE)
     ELSE UNCHANGED <<phase, pump, req, reply, tag>>
  /\ UNCHANGED <<kind, made, latest, revision, unsaved, base, known, fetch, job, editVars,
                 diskVars, faults>>

\* The user resolves a conflict: the latest revision replaces what is there.
Overwrite(c) ==
  /\ phase[c] = "conflict"
  /\ unsaved[c]
  /\ timer' = Set(timer, c, FALSE)
  /\ Sends(c, latest[c], base[c], known[c], TRUE)
  /\ fetch' = Set(fetch, c, [s \in Slot |-> Withdrawn(fetch[c][s])])
  /\ UNCHANGED <<kind, made, latest, revision, unsaved, base, known, job, editVars,
                 diskVars, faults>>

Settles(c) ==
  /\ pump' = Set(pump, c, "none")
  /\ reply' = Set(reply, c, "none")
  /\ req' = Set(req, c, NoRequest)
  /\ tag' = Set(tag, c, 0)

\* The canvas reads the file: after a save, and to open a flow. Reads that
\* were under way are ignored from now on: an edit or a navigation came between.
Asks(c, what, expected) ==
  /\ fetch' = Set(fetch, c, [s \in Slot |->
                  IF s = 1 THEN [NoFetch EXCEPT !.kind = what, !.expected = expected]
                           ELSE NoFetch])
  /\ job' = IF job.from = c /\ job.at = "loaded" THEN [job EXCEPT !.wanted = FALSE] ELSE job

\* The save succeeded. A newer revision follows at once, on the ETag of the
\* answer; otherwise the canvas refetches what the server derives.
Saved(c) ==
  /\ pump[c] = "live" /\ reply[c] = "ok"
  /\ base' = Set(base, c, tag[c])
  /\ known' = Set(known, c, req[c].value)
  /\ IF req[c].value = latest[c]
     THEN /\ Settles(c)
          /\ unsaved' = Set(unsaved, c, FALSE)
          /\ phase' = Set(phase, c, "clean")
          /\ IF kind = "canvas" THEN Asks(c, "refresh", tag[c]) ELSE UNCHANGED <<fetch, job>>
     ELSE /\ Sends(c, latest[c], tag[c], req[c].value, FALSE)
          /\ UNCHANGED <<unsaved, fetch, job>>
  /\ UNCHANGED <<kind, made, latest, revision, timer, editVars, diskVars, faults>>

SaveFailedAdopts(c) ==                         \* mutant: the ETag in the refusal is taken over
  /\ pump[c] = "live" /\ reply[c] \in {"conflict", "error"}
  /\ phase' = Set(phase, c, reply[c])
  /\ base' = Set(base, c, file)
  /\ Settles(c)
  /\ UNCHANGED <<kind, made, latest, revision, unsaved, timer, known, fetch, job, editVars,
                 diskVars, faults>>
SaveConflicts(c) ==                            \* mutant: other failures are not handled
  /\ pump[c] = "live" /\ reply[c] = "conflict"
  /\ phase' = Set(phase, c, "conflict")
  /\ Settles(c)
  /\ UNCHANGED <<kind, made, latest, revision, unsaved, timer, base, known, fetch, job,
                 editVars, diskVars, faults>>
\* It failed: nothing more is sent until somebody edits or decides.
SaveFailed(c) ==
  /\ pump[c] = "live" /\ reply[c] \in {"conflict", "error"}
  /\ phase' = Set(phase, c, reply[c])
  /\ Settles(c)
  /\ UNCHANGED <<kind, made, latest, revision, unsaved, timer, base, known, fetch, job,
                 editVars, diskVars, faults>>

\* The answer to a request from before a reset is ignored; an edit made
\* since then has waited for it.
StaleSettles(c) ==
  /\ pump[c] = "stale" /\ reply[c] \in {"ok", "conflict", "error"}
  /\ IF unsaved[c] /\ phase[c] \notin {"conflict", "error"}
     THEN Sends(c, latest[c], base[c], known[c], FALSE)
     ELSE Settles(c) /\ UNCHANGED phase
  /\ UNCHANGED <<kind, made, latest, revision, unsaved, timer, base, known, fetch, job,
                 editVars, diskVars, faults>>

\* reset(): the coordinator starts over from what was read.
Resets(c, etag, content) ==
  /\ latest' = Set(latest, c, None)
  /\ revision' = Set(revision, c, 0)
  /\ unsaved' = Set(unsaved, c, FALSE)
  /\ timer' = Set(timer, c, FALSE)
  /\ phase' = Set(phase, c, "clean")
  /\ pump' = Set(pump, c, IF pump[c] = "none" THEN "none" ELSE "stale")
  /\ base' = Set(base, c, etag)
  /\ known' = Set(known, c, content)

-----------------------------------------------------------------------------
(* Reading the file again: store.ts and CodeEditor.tsx. *)

\* One more read, in the first slot that is free; the others go on.
AsksToo(c, read) ==
  \E s \in Slot :
    /\ fetch[c][s].kind = "none" /\ \A r \in 1..(s - 1) : fetch[c][r].kind # "none"
    /\ fetch' = [fetch EXCEPT ![c][s] = read]

\* pollEtags: while clean, the canvas looks for changes made elsewhere.
Poll(c) ==
  /\ kind = "canvas"
  /\ Shows(c)
  /\ phase[c] = "clean"
  /\ job.at = "idle"
  /\ file # base[c]
  /\ AsksToo(c, [NoFetch EXCEPT !.kind = "refresh", !.expected = base[c]])
  /\ UNCHANGED <<kind, made, saveVars, job, editVars, diskVars, faults>>

\* openFlow, by navigation or to resolve a conflict with what is on disk:
\* the flow is closed until the read arrives.
Open(c) ==
  /\ kind = "canvas"
  /\ phase[c] = "conflict" \/ ~HasPending(c)
  /\ Resets(c, None, None)
  /\ edited' = Set(edited, c, 0)
  /\ Asks(c, "open", None)
  /\ UNCHANGED <<kind, made, req, reply, tag, overtaken, diskVars, faults>>

\* The code editor's reload keeps the conflict, and its button, until a read
\* arrives: the user may ask again.
Reload(c) ==
  /\ kind = "code"
  /\ phase[c] = "conflict"
  /\ AsksToo(c, [NoFetch EXCEPT !.kind = "reload", !.revision = revision[c],
                                !.given = edited[c]])
  /\ UNCHANGED <<kind, made, saveVars, job, editVars, diskVars, faults>>

AppliesEarlier(c, read) ==                     \* mutant: edits made meanwhile are not looked at
  \/ read.kind \in {"open", "reload"}
  \/ read.kind = "refresh" /\ read.expected = base[c]
\* Is a read that arrives still about what the tab shows?
Applies(c, read) ==
  \/ read.kind = "open"
  \/ read.kind = "reload" /\ read.revision = revision[c]
  \/ /\ read.kind = "refresh" /\ read.untouched
     /\ read.expected = base[c]
     /\ phase[c] = "clean"

\* A reload that is applied drops the edit it was asked to give up. What the
\* revisions do not tell apart: after another read has made the coordinator
\* start over, or the user has chosen to overwrite, it drops whatever is there.
Drops(c, read) ==
  /\ edited' = IF read.kind = "reload" /\ read.given = edited[c]
               THEN Set(edited, c, 0) ELSE edited
  /\ overtaken' = IF read.kind = "reload" /\ read.given = None
                  THEN overtaken \cup {<<c, edited[c]>>} ELSE overtaken

Arrives(c, s) ==
  LET read == fetch[c][s] IN
  /\ read.at = "here"
  /\ IF Applies(c, read)
     THEN /\ Resets(c, read.tag, read.content)
          /\ Drops(c, read)
          /\ fetch' = Set(fetch, c, [r \in Slot |-> IF r = s THEN NoFetch
                                                   ELSE Outdated(fetch[c][r])])
     ELSE /\ fetch' = [fetch EXCEPT ![c][s] = NoFetch]
          /\ UNCHANGED <<latest, revision, unsaved, timer, phase, pump, base, known, editVars>>
  /\ UNCHANGED <<kind, made, req, reply, tag, job, diskVars, faults>>

-----------------------------------------------------------------------------
(* The server's handlers: server/app.py. *)

\* put_flow, put_code: the ETag is compared under the lock.
ServePut(c) ==
  /\ job.at = "idle"
  /\ reply[c] = "net"
  /\ IF ~req[c].force /\ req[c].base # file
     THEN reply' = Set(reply, c, "conflict") /\ UNCHANGED job
     ELSE /\ reply' = Set(reply, c, "served")
          /\ job' = [Idle EXCEPT !.at = "checked", !.from = c, !.req = req[c],
                                 !.wanted = TRUE]
  /\ UNCHANGED <<kind, made, phase, latest, revision, unsaved, timer, pump, req, tag, base,
                 known, fetch, editVars, diskVars, faults>>

\* atomic_write_text: the whole new content or, when it fails, the old one.
ReplaceFile ==
  /\ job.at = "checked"
  /\ \/ /\ file' = job.req.value
        /\ landed' = landed \cup {job.req.value}
        /\ lost' = IF job.req.force \/ file = job.req.known
                   THEN lost ELSE lost \cup {<<job.from, file>>}
        /\ job' = [job EXCEPT !.at = "replaced"]
        /\ UNCHANGED <<reply, faults>>
     \/ /\ Fails
        /\ reply' = IF job.wanted THEN Set(reply, job.from, "error") ELSE reply
        /\ job' = Idle
        /\ UNCHANGED <<file, landed, lost>>
  /\ UNCHANGED <<kind, made, phase, latest, revision, unsaved, timer, pump, req, tag, base,
                 known, fetch, editVars, raced>>

\* The answer carries the ETag of what is on disk now.
AnswerPut ==
  /\ job.at = "replaced"
  /\ IF job.wanted
     THEN reply' = Set(reply, job.from, "ok") /\ tag' = Set(tag, job.from, file)
     ELSE UNCHANGED <<reply, tag>>
  /\ job' = Idle
  /\ UNCHANGED <<kind, made, phase, latest, revision, unsaved, timer, pump, req, base, known,
                 fetch, editVars, diskVars, faults>>

\* get_flow, get_code: the content first, its ETag at the end.
ServeGet(c, s) ==
  /\ job.at = "idle"
  /\ fetch[c][s].kind \in {"refresh", "reload", "open"} /\ fetch[c][s].at = "net"
  /\ fetch' = [fetch EXCEPT ![c][s].at = "served"]
  /\ job' = [Idle EXCEPT !.at = "loaded", !.from = c, !.slot = s, !.content = file,
                         !.wanted = TRUE]
  /\ UNCHANGED <<kind, made, saveVars, editVars, diskVars, faults>>

AnswerGet ==
  /\ job.at = "loaded"
  /\ fetch' = IF job.wanted
              THEN [fetch EXCEPT ![job.from][job.slot] =
                      [@ EXCEPT !.at = "here", !.content = job.content, !.tag = file]]
              ELSE fetch
  /\ job' = Idle
  /\ UNCHANGED <<kind, made, saveVars, editVars, diskVars, faults>>

-----------------------------------------------------------------------------
(* What is not in the program. *)

\* An editor or git writes the file.
WriteOutside ==
  /\ made < MaxVersions
  /\ made' = made + 1
  /\ file' = made + 1
  /\ raced' = IF job.at = "idle" THEN raced ELSE raced \cup {<<job.from, made + 1>>}
  /\ UNCHANGED <<kind, saveVars, fetch, job, editVars, landed, lost, faults>>

\* The connection breaks: the request is never served, or its answer is lost.
SaveBreaks(c) ==
  /\ Fails
  /\ reply[c] \in {"net", "served", "ok"}
  /\ reply' = Set(reply, c, "error")
  /\ tag' = Set(tag, c, 0)
  /\ job' = IF reply[c] = "served" THEN [job EXCEPT !.wanted = FALSE] ELSE job
  /\ UNCHANGED <<kind, made, phase, latest, revision, unsaved, timer, pump, req, base, known,
                 fetch, editVars, diskVars>>

FetchBreaks(c, s) ==
  /\ Fails
  /\ fetch[c][s].kind \in {"refresh", "reload", "open"}
  /\ fetch' = [fetch EXCEPT ![c][s] =
                 [NoFetch EXCEPT !.kind = IF fetch[c][s].kind = "open" THEN "shut" ELSE "none"]]
  /\ job' = IF fetch[c][s].at = "served" THEN [job EXCEPT !.wanted = FALSE] ELSE job
  /\ UNCHANGED <<kind, made, saveVars, editVars, diskVars>>

-----------------------------------------------------------------------------
Coordinates(c) == Flush(c) \/ Saved(c) \/ SaveFailed(c) \/ StaleSettles(c)
Serves == ReplaceFile \/ AnswerPut \/ AnswerGet

Next ==
  \/ \E c \in Client : Edit(c) \/ Coordinates(c) \/ Overwrite(c)
  \/ \E c \in Client : Poll(c) \/ Open(c) \/ Reload(c) \/ ServePut(c) \/ SaveBreaks(c)
  \/ \E c \in Client, s \in Slot : ServeGet(c, s) \/ Arrives(c, s) \/ FetchBreaks(c, s)
  \/ Serves
  \/ WriteOutside

\* Timers fire, the tab handles what arrives, and the server's event loop gets
\* to every request. Nobody need edit, decide, poll or write.
Fairness ==
  /\ \A c \in Client : WF_vars(Coordinates(c)) /\ SF_vars(ServePut(c))
  /\ WF_vars(Serves)

Spec == Init /\ [][Next]_vars /\ Fairness

-----------------------------------------------------------------------------
(* Properties. *)

\* The last edit of the tab has been put in the file, or is held and shown as
\* not saved.
Kept(c) == edited[c] \in landed \/ (latest[c] = edited[c] /\ unsaved[c] /\ HasPending(c))

\* No edit is dropped behind the user's back: the last edit of a tab is kept,
\* or is in a request under way, unless the user chose to load the file instead.
\* FR-1110 of docs/REQUIREMENTS.md asks for it; the code editor's reload breaks it.
EditsSurvive ==
  \A c \in Client : edited[c] # 0 =>
    Kept(c) \/ (reply[c] \in {"net", "served", "ok"} /\ req[c].value = edited[c])

\* What does hold: on the canvas no edit is ever dropped, and in the code
\* editor only by a reload that another decision has overtaken, one that an
\* applied read or the choice to overwrite came after. No other race of edits,
\* saves, reads, conflicts and failures loses an edit.
OnlyOvertakenReloadsDrop ==
  \A c \in Client : edited[c] # 0 =>
    Kept(c) \/ (kind = "code" /\ <<c, edited[c]>> \in overtaken)

\* A save that was not told to overwrite replaces a content its tab did not
\* know only if that was written from outside in the middle of one of the
\* handlers that served this tab: between two tabs, and against an outside
\* writer at any other time, the ETag protects.
OnlyRacesLose == lost \subseteq raced

\* A tab with something to save comes to rest once its user does:
\* saved, in conflict or failed.
SavesSettle ==
  \A c \in Client : []<>(phase[c] \notin {"dirty", "saving"})
=============================================================================
