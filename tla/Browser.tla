------------------------------ MODULE Browser ------------------------------
(***************************************************************************)
(* The browser client's own concurrency (web/runtime.mjs, executor.mjs and *)
(* host.mjs): promises and callbacks around one session, one queue of      *)
(* device jobs and one host lighting controller.  The session is Session   *)
(* .tla reduced to lighting, the keymap's readiness, the macro catalog,    *)
(* recording and the phase of host lighting.                               *)
(*                                                                         *)
(* A browser runs one piece of script at a time, up to the next promise    *)
(* that is not yet resolved.  An operator on a page `p` is such a piece: a *)
(* method from its call, or from an await, to its next await.  Reactions   *)
(* of resolved promises (Reactions) come before any event of the user, the *)
(* keyboard or a timer (Events).                                           *)
(***************************************************************************)
EXTENDS Editor, Naturals, Sequences, SequencesExt

CONSTANTS Values,          \* lighting the keyboard itself can run
          MaxConnections,  \* bound: connections, the session's generations
          MaxScans,        \* bound: macro catalogs asked for
          MaxHosts,        \* bound: host lighting activities
          CatalogSlots,    \* slots of a macro catalog
          Instances        \* the sets of optional activities to be explored

\* The 2.4 GHz receiver instead of a cable, host lighting, edited lighting,
\* catalogs and recording, a keyboard that is unplugged, its notifications, a
\* notification interface that refuses to be closed.
OptionalActivities ==
  {"receiver", "host", "edit", "record", "unplug", "notice", "refuse"}

ASSUME BrowserAssumption ==
  /\ {MaxConnections, MaxScans, MaxHosts, CatalogSlots} \subseteq Nat \ {0}
  /\ Instances \subseteq SUBSET OptionalActivities
  /\ Values # {} /\ Values \cap (1 .. MaxConnections) = {}
  /\ None \notin Values \cup {"Keymap", "Lighting", "Apply"}
  /\ None \notin [value : Values \cup {None}, context : Values \cup 1 .. MaxConnections]

VARIABLES keyboard,  \* is it plugged in, has the page been told, what it shows
          page,      \* everything the page holds
          left,      \* connections whose executor a refused close left at work
          active     \* the optional activities of this behaviour
vars == <<keyboard, page, left, active>>

Connections == 1 .. MaxConnections

\* Host lighting is shown by the number of the connection that started it; a
\* reading of it has no editable value.
Snapshot(shown) == [value |-> IF shown \in Values THEN shown ELSE None, context |-> shown]

IdleExecutor ==
  [active |-> FALSE, at |-> "idle", job |-> None, answer |-> None,
   foreground |-> <<>>, catalogs |-> <<>>]
IdleHost ==
  [phase |-> "Idle", activity |-> FALSE, stopping |-> FALSE, frame |-> FALSE,
   problem |-> FALSE, draining |-> FALSE, saved |-> None]

Init ==
  /\ keyboard = [plugged |-> TRUE, leaving |-> FALSE, shown |-> CHOOSE v \in Values : TRUE]
  /\ page = [generation |-> 0, connects |-> 0, pending |-> None, lighting |-> NewEditor,
             keymap |-> "Unloaded", scan |-> 0, scans |-> 0, recording |-> FALSE,
             hosting |-> "Idle", hosts |-> 0,
             task |-> "None", closing |-> "No", force |-> FALSE, listener |-> "None",
             timer |-> FALSE, recorder |-> 0, host |-> IdleHost, settled |-> <<>>,
             executors |-> [c \in Connections |-> IdleExecutor]]
  /\ left = {}
  /\ active \in Instances

Receiver == "receiver" \in active
Connected(p) == p.generation # 0
SessionIdle(p) == p.hosting = "Idle" /\ ~p.recording /\ p.pending = None
Writing(p) == p.pending = "Apply"

-----------------------------------------------------------------------------
(* Device jobs.  Every operation is a planner in Rust that is asked for a  *)
(* step and told the answer: [ok, attempted, value].                       *)

FirstStep(kind) ==
  CASE kind \in {"Identity", "Keymap", "Lighting", "Catalog"} -> "exchange"
    [] kind \in {"Apply", "Start", "Stop"} -> "backup"
    [] kind = "Frame" -> "write"

Writes == {"write", "restore"}

Job(p, kind, by, value) ==
  [kind |-> kind, by |-> by, step |-> FirstStep(kind), slot |-> 1, value |-> value,
   scan |-> p.scan, cancelled |-> FALSE, awaited |-> FALSE, connection |-> p.generation]

\* What a write asks the keyboard to show: a host job's value is the lighting
\* to come back to.
Target(job) ==
  IF job.kind = "Start" /\ job.step = "write" THEN job.connection ELSE job.value

Goes(job, step) == [job EXCEPT !.step = step]
Ends(job, result) == [job EXCEPT !.step = "complete", !.value = result]

AdvanceStart(job, answer) ==
  CASE job.step = "backup" ->
         IF answer.ok THEN Goes(job, "write") ELSE Ends(job, "NotAttempted")
    [] job.step = "write" ->
         IF answer.ok THEN Goes(job, "verify")
         ELSE IF answer.attempted THEN Goes(job, "restore") ELSE Ends(job, "NotAttempted")
    [] job.step = "verify" ->
         IF answer.ok /\ answer.value = job.connection THEN Ends(job, "Started")
         ELSE Goes(job, "restore")
    [] job.step = "restore" ->
         IF answer.ok THEN Goes(job, "restored") ELSE Ends(job, "Unverified")
    [] job.step = "restored" ->
         Ends(job, IF answer.ok /\ answer.value = job.value THEN "Verified" ELSE "Unverified")

\* Faulty: the restoration is believed without being read back.
FaultyAdvanceStop(job, answer) ==
  CASE job.step = "backup" /\ answer.ok -> Goes(job, "write")
    [] job.step = "write" /\ answer.attempted -> Ends(job, "Restored")
    [] OTHER -> Ends(job, "Unverified")

AdvanceStop(job, answer) ==
  CASE job.step = "backup" /\ answer.ok -> Goes(job, "write")
    [] job.step = "write" /\ answer.ok -> Goes(job, "verify")
    [] job.step = "verify" /\ answer.ok /\ answer.value = job.value -> Ends(job, "Restored")
    [] OTHER -> Ends(job, "Unverified")

Advance(job, answer) ==
  CASE job.kind = "Start" -> AdvanceStart(job, answer)
    [] job.kind = "Stop" -> AdvanceStop(job, answer)
    [] job.kind = "Apply" /\ job.step = "backup" /\ answer.ok -> Goes(job, "write")
    [] job.kind = "Catalog" /\ answer.ok /\ job.slot < CatalogSlots ->
         [job EXCEPT !.slot = @ + 1]
    [] job.kind = "Frame" \/ (job.kind = "Apply" /\ ~(job.step = "backup" /\ answer.ok)) ->
         Ends(job, [kind |-> IF answer.ok THEN "ok" ELSE "error", snapshot |-> Snapshot(job.value)])
    [] OTHER ->
         Ends(job, [kind |-> IF answer.ok THEN "ok" ELSE "error",
                    snapshot |-> Snapshot(answer.value)])

-----------------------------------------------------------------------------
(* The executor: one job at a time, foreground before catalogs. *)

\* An effect of a cancelled job, or of an executor that was closed, is refused
\* before the keyboard is touched.
Begin(x, job) ==
  [x EXCEPT !.job = job, !.answer = None,
            !.at = IF job.cancelled \/ ~x.active THEN "refused" ELSE "io"]

\* Only the connected executor is told of a recording.
HeldForRecording(p, c) ==
  p.recording /\ p.generation = c /\ ~Head(p.executors[c].catalogs).cancelled

MayTake(p, c) ==
  LET x == p.executors[c]
  IN /\ x.at = "idle"
     /\ \/ x.foreground # <<>>
        \/ x.catalogs # <<>> /\ ~HeldForRecording(p, c)

Pump(p, c) ==
  LET x == p.executors[c]
  IN IF ~MayTake(p, c) THEN p
     ELSE [p EXCEPT !.executors[c] =
             IF x.foreground # <<>>
               THEN Begin([x EXCEPT !.foreground = Tail(@)], Head(x.foreground))
               ELSE Begin([x EXCEPT !.catalogs = Tail(@)], Head(x.catalogs))]

\* Where the pump goes on after an effect; a job that has ended is told to its
\* caller, who hears of it when the pump waits again.
Resume(p, c, answer) ==
  LET x == p.executors[c]
      job == Advance(x.job, answer)
  IN IF job.step = "complete"
       THEN Pump([p EXCEPT !.settled = Append(@, job),
                           !.executors[c] = [x EXCEPT !.at = "idle", !.job = None,
                                                      !.answer = None]], c)
     ELSE IF job.kind = "Catalog"
       THEN [p EXCEPT !.executors[c] =
               [x EXCEPT !.at = "yield", !.job = None, !.answer = None,
                         !.catalogs = Append(@, job)]]
     ELSE [p EXCEPT !.executors[c] = Begin(x, job)]

Enqueue(p, kind, by, value) ==
  LET job == Job(p, kind, by, value)
      q == IF kind = "Catalog"
             THEN [p EXCEPT !.executors[p.generation].catalogs = Append(@, job)]
             ELSE [p EXCEPT !.executors[p.generation].foreground = Append(@, job)]
  IN Pump(q, p.generation)

\* A change of every job an executor holds, a waiting, a running or a yielding one.
EachJob(x, Change(_)) ==
  [x EXCEPT !.job = IF @ = None THEN None ELSE Change(@),
            !.foreground = [i \in DOMAIN @ |-> Change(@[i])],
            !.catalogs = [i \in DOMAIN @ |-> Change(@[i])]]

CancelJobs(p) ==
  LET Cancel(job) == [job EXCEPT !.cancelled = @ \/ job.kind = "Catalog"]
  IN IF Connected(p)
       THEN Pump([p EXCEPT !.executors[p.generation] = EachJob(@, Cancel)], p.generation)
       ELSE p

-----------------------------------------------------------------------------
(* The session's operations, each with what `handle` does after it. *)

EndScan(p) == IF p.scan = 0 THEN p ELSE CancelJobs([p EXCEPT !.scan = 0])

MaySubmit(p) == Connected(p) /\ SessionIdle(p)

Submit(p, kind, by) ==
  IF kind = "Apply"
    THEN Enqueue([p EXCEPT !.pending = kind, !.lighting = RequestApply(@)],
                 kind, by, p.lighting.draft)
    ELSE Enqueue([p EXCEPT !.pending = kind], kind, by, None)

MayDiscover(p) ==
  Connected(p) /\ p.hosting = "Idle" /\ ~p.recording /\ p.scan = 0 /\ p.scans < MaxScans
Discover(p) ==
  LET q == [p EXCEPT !.scan = p.scans + 1, !.scans = @ + 1]
  IN Enqueue(q, "Catalog", "user", None)

AcceptResult(p, job) ==
  IF p.generation # job.connection THEN p
  ELSE IF job.kind = "Catalog" THEN (IF p.scan = job.scan THEN EndScan(p) ELSE p)
  ELSE IF job.kind # p.pending THEN p
  ELSE CASE job.kind = "Keymap" ->
              [p EXCEPT !.pending = None,
                        !.keymap = IF job.value.kind = "ok" THEN "Ready" ELSE "Read"]
         [] job.kind = "Lighting" ->
              [p EXCEPT !.pending = None, !.lighting = ReadResult(@, job.value)]
         [] OTHER ->
              [p EXCEPT !.pending = None, !.lighting = ApplyResult(@, job.value)]

Unknown == [kind |-> "error"]

SessionConnect(p) ==
  [p EXCEPT !.generation = p.connects + 1, !.connects = @ + 1,
            !.lighting = Invalidate(@), !.keymap = "ReadRequired"]

SessionDisconnect(p) ==
  LET q == EndScan([p EXCEPT !.recording = FALSE])
  IN [q EXCEPT !.generation = 0, !.pending = None, !.hosting = "Idle",
               !.lighting = IF Writing(p) \/ p.hosting # "Idle"
                              THEN ApplyResult(@, Unknown) ELSE @]

-----------------------------------------------------------------------------
(* The host lighting controller. *)

HostBusy(p) == p.host.phase # "Idle"

\* finish: the controller is idle again, whatever it was.
HostFinishes(p, problem) ==
  [p EXCEPT !.host = [IdleHost EXCEPT !.problem = problem]]

SessionStopsHost(p) == [p EXCEPT !.hosting = IF @ = "Idle" THEN @ ELSE "Stopping"]

\* pump, while there is an activity: a stop before a frame.  New parameters, sent
\* between the two as a Frame is and deciding nothing else, are left out.
HostDrains(p) ==
  IF p.host.stopping
    THEN Enqueue([SessionStopsHost(p) EXCEPT !.host.draining = TRUE], "Stop", "host", p.host.saved)
  ELSE IF p.host.frame
    THEN Enqueue([p EXCEPT !.host.draining = TRUE, !.host.frame = FALSE], "Frame", "host", None)
  ELSE [p EXCEPT !.host.draining = FALSE]

HostStops(p, problem) ==
  CASE p.host.phase = "Preparing" -> HostFinishes(p, problem \/ p.host.problem)
    [] p.host.phase = "Idle" -> p
    [] OTHER ->
         LET q == SessionStopsHost(
                    [p EXCEPT !.host.stopping = TRUE, !.host.frame = FALSE,
                              !.host.phase = "Stopping", !.host.problem = @ \/ problem])
         IN IF p.host.draining \/ ~p.host.activity THEN q ELSE HostDrains(q)

\* The session hears that host lighting is over.  A start that never reached
\* the keyboard, or was undone and verified, leaves the editor as it was.
HostFinished(p, result) ==
  LET misread == result = "Restored" /\ Snapshot(p.host.saved) # p.lighting.baseline
  IN [p EXCEPT !.hosting = "Idle",
               !.lighting = IF result = "Unverified" \/ misread
                              THEN ApplyResult(@, Unknown) ELSE @]

\* Faulty: a start that succeeds after the stop was asked for goes on.
FaultyHostStarted(p) == [p EXCEPT !.host.phase = "Active"]
HostStarted(p) ==
  IF p.host.stopping THEN HostDrains(p) ELSE [p EXCEPT !.host.phase = "Active"]

HostAccepts(p, job) ==
  CASE job.kind = "Start" /\ job.value = "Started" ->
         HostStarted([p EXCEPT !.host.activity = TRUE,
                               !.hosting = IF @ = "Starting" THEN "Active" ELSE @])
    [] job.kind = "Frame" /\ job.value.kind = "ok" -> HostDrains(p)
    [] job.kind = "Frame" /\ job.value.kind # "ok" ->
         HostDrains([p EXCEPT !.host.problem = TRUE, !.host.stopping = TRUE])
    [] OTHER ->
         HostFinishes(HostFinished(p, job.value), p.host.problem \/ job.value # "Restored")

-----------------------------------------------------------------------------
(* Connecting: verify a receiver, listen, read the keymap and the lighting, *)
(* and ask for the macro catalog; each await finds out whether the page is *)
(* still connected.                                                        *)

Ended(p) == [p EXCEPT !.task = "None"]

LoadsCatalog(p) ==
  LET wanted == ~Receiver \/ (p.keymap = "Ready" /\ Ready(p.lighting))
  IN IF Connected(p) /\ wanted /\ MayDiscover(p) THEN Discover(Ended(p)) ELSE Ended(p)

ReadsLighting(p) ==
  IF ~Connected(p) THEN Ended(p)
  ELSE IF (Receiver /\ p.keymap # "Ready") \/ ~MaySubmit(p) THEN LoadsCatalog(p)
  ELSE Submit([p EXCEPT !.task = "Lighting"], "Lighting", "connect")

ReadsKeymap(p) ==
  IF ~Connected(p) THEN Ended(p)
  ELSE IF ~MaySubmit(p) THEN ReadsLighting(p)
  ELSE Submit([p EXCEPT !.task = "Keymap"], "Keymap", "connect")

-----------------------------------------------------------------------------
(* Disconnecting: stop host lighting, end the session, close the listener, *)
(* let the executor finish, close the keyboard.                            *)

Retired(p) == p.connects

\* Faulty: the executor is closed at once.
FaultyFinished(x) == TRUE
Finished(x) == x.at = "idle" /\ x.foreground = <<>> /\ x.catalogs = <<>>

Retire(p) ==
  Pump([p EXCEPT !.closing = "Executor", !.executors[Retired(p)].active = FALSE], Retired(p))

TearDown(p) ==
  LET q == SessionDisconnect([p EXCEPT !.host = IdleHost, !.listener = "None"])
  IN IF p.listener = "None" THEN Retire(q) ELSE [q EXCEPT !.closing = "Listener"]

\* Faulty: what became of the host lighting is not looked at.
FaultyHostRestored(p) == TRUE
HostRestored(p) == p.hosting = "Idle" /\ (p.host.problem => Ready(p.lighting))

Leave(p) == IF p.force \/ HostRestored(p) THEN TearDown(p) ELSE [p EXCEPT !.closing = "No"]

JobsOf(x) == ({x.job} \ {None}) \cup ToSet(x.foreground \o x.catalogs)

\* `writes` counts the saves of every connection.
Saving(p) ==
  \/ Writing(p)
  \/ \E c \in Connections : \E job \in JobsOf(p.executors[c]) : job.kind = "Apply"

MayDisconnect(p, force) == Connected(p) /\ p.closing = "No" /\ (Saving(p) => force)

Disconnect(p, force) ==
  LET q == [p EXCEPT !.force = force, !.timer = FALSE]
  IN IF HostBusy(p) THEN [HostStops(q, FALSE) EXCEPT !.closing = "Host"] ELSE Leave(q)

\* connect failed: the page goes back to choosing when the keyboard is closed.
ConnectFails(p) ==
  IF MayDisconnect(p, TRUE) THEN Disconnect([p EXCEPT !.task = "Failing"], TRUE) ELSE Ended(p)

Closed(p) ==
  [p EXCEPT !.closing = "No", !.force = FALSE, !.task = IF @ = "Failing" THEN "None" ELSE @]

-----------------------------------------------------------------------------
(* Reactions: promises that are resolved and wait only for their turn. *)

Reacts(next) == page' = next /\ UNCHANGED <<keyboard, left, active>>

Refusal == [ok |-> FALSE, attempted |-> FALSE, value |-> None]

EffectRefused(c) ==
  /\ page.executors[c].at = "refused"
  /\ Reacts(Resume(page, c, Refusal))

Received(p, job) ==
  CASE job.kind = "Identity" ->
         IF job.value.kind = "ok" THEN ReadsKeymap(p) ELSE ConnectFails(p)
    [] job.by = "host" -> HostAccepts(p, job)
    [] job.by = "connect" /\ job.kind = "Keymap" -> ReadsLighting(AcceptResult(p, job))
    [] job.by = "connect" /\ job.kind = "Lighting" -> LoadsCatalog(AcceptResult(p, job))
    [] OTHER -> AcceptResult(p, job)

JobReturns ==
  /\ page.settled # <<>>
  /\ Reacts(Received([page EXCEPT !.settled = Tail(@)], Head(page.settled)))

HostStopped ==
  /\ page.closing = "Host" /\ ~HostBusy(page)
  /\ Reacts(Leave(page))

ExecutorFinished ==
  /\ page.closing = "Executor" /\ page.settled = <<>>
  /\ Finished(page.executors[Retired(page)])
  /\ Reacts([page EXCEPT !.closing = "Device"])

Awaited(p) ==
  LET waits(job) == job # None /\ job.awaited
      inQueue(s) == \E i \in DOMAIN s : waits(s[i])
  IN \/ inQueue(p.settled)
     \/ \E c \in Connections : LET x == p.executors[c]
                               IN waits(x.job) \/ inQueue(x.foreground) \/ inQueue(x.catalogs)

StartRecording(p) ==
  IF MaySubmit(p) /\ p.scan = 0 THEN [p EXCEPT !.recording = TRUE] ELSE p

\* startRecording after its await: only for the connection it was asked on.
RecordingResumes ==
  /\ page.recorder # 0 /\ ~Awaited(page)
  /\ LET p == [page EXCEPT !.recorder = 0]
     IN Reacts(IF page.generation = page.recorder THEN StartRecording(p) ELSE p)

Quiet ==
  /\ page.settled = <<>>
  /\ \A c \in Connections : page.executors[c].at # "refused"
  /\ ~(page.closing = "Host" /\ ~HostBusy(page))
  /\ ~(page.closing = "Executor" /\ Finished(page.executors[Retired(page)]))
  /\ ~(page.recorder # 0 /\ ~Awaited(page))

Reactions ==
  \/ \E c \in Connections : EffectRefused(c)
  \/ JobReturns
  \/ HostStopped
  \/ ExecutorFinished
  \/ RecordingResumes

-----------------------------------------------------------------------------
(* Events of the keyboard, the browser's storage and the clock. *)

Happens(next) == Quiet /\ page' = next /\ UNCHANGED <<keyboard, left, active>>

InEffect(c, steps) == page.executors[c].at = "io" /\ page.executors[c].job.step \in steps

Answer(ok) == [ok |-> ok, attempted |-> FALSE, value |-> keyboard.shown]

\* The backup is committed, or refused, by the browser's storage.
BackupSettles(c) ==
  /\ InEffect(c, {"backup"})
  /\ \E ok \in BOOLEAN : Happens(Resume(page, c, Answer(ok)))

\* A reply, or an error; a reply is used only by an executor still active.
ExchangeSettles(c) ==
  /\ InEffect(c, {"exchange", "verify", "restored"})
  /\ \E ok \in BOOLEAN :
       /\ ok => keyboard.plugged /\ page.executors[c].active
       /\ Happens(Resume(page, c, Answer(ok)))

\* The keyboard could not be opened: nothing was sent.
WriteNotSent(c) ==
  /\ InEffect(c, Writes)
  /\ Happens(Resume(page, c, Refusal))

\* A report was sent: it is taken or not, and the browser confirms it or not.
\* Either way the keyboard is given time, except after a frame that was sent.
WriteSettles(c) ==
  /\ InEffect(c, Writes) /\ Quiet
  /\ \E taken, ok \in BOOLEAN :
       LET x == page.executors[c]
           answer == [ok |-> ok, attempted |-> TRUE, value |-> None]
       IN /\ taken => keyboard.plugged
          /\ ok => taken /\ x.active
          /\ keyboard' = [keyboard EXCEPT
                            !.shown = IF taken /\ x.job.kind # "Frame" THEN Target(x.job) ELSE @]
          /\ page' = IF ok /\ x.job.kind = "Frame"
                       THEN Resume(page, c, answer)
                       ELSE [page EXCEPT !.executors[c].at = "wait",
                                         !.executors[c].answer = answer]
  /\ UNCHANGED <<left, active>>

WaitEnds(c) ==
  /\ page.executors[c].at = "wait"
  /\ Happens(Resume(page, c, page.executors[c].answer))

YieldEnds(c) ==
  /\ page.executors[c].at = "yield"
  /\ Happens(Pump([page EXCEPT !.executors[c].at = "idle"], c))

ListenerOpens ==
  /\ page.task = "Listening"
  /\ \E found \in {"Open", "None"} :
       Happens(ReadsKeymap([page EXCEPT !.listener = IF @ = "Opening" THEN found ELSE @]))

\* The listener's close is awaited before the executor's in one `try`: when it
\* is refused the executor is neither closed nor waited for.
CloseRefused ==
  /\ "refuse" \in active /\ Quiet
  /\ page' = Closed(page)
  /\ left' = IF Finished(page.executors[Retired(page)]) THEN left
                                                        ELSE left \cup {Retired(page)}
  /\ UNCHANGED <<keyboard, active>>

ListenerCloses == page.closing = "Listener" /\ (Happens(Retire(page)) \/ CloseRefused)

DeviceCloses == page.closing = "Device" /\ Happens(Closed(page))

Unplug ==
  /\ "unplug" \in active /\ keyboard.plugged /\ Quiet
  /\ keyboard' = [keyboard EXCEPT !.plugged = FALSE, !.leaving = TRUE]
  /\ UNCHANGED <<page, left, active>>

\* The browser's disconnect event.
Unplugged ==
  /\ keyboard.leaving /\ Quiet
  /\ keyboard' = [keyboard EXCEPT !.leaving = FALSE]
  /\ page' = IF MayDisconnect(page, TRUE) THEN Disconnect(page, TRUE) ELSE page
  /\ UNCHANGED <<left, active>>

\* The disconnect event of the notification interface alone: the listener is
\* closed in the background and the connection stays.
ListenerUnplugged ==
  /\ "unplug" \in active /\ page.listener # "None"
  /\ Happens([page EXCEPT !.listener = "None"])

Plug ==
  /\ ~keyboard.plugged /\ ~keyboard.leaving /\ Quiet
  /\ keyboard' = [keyboard EXCEPT !.plugged = TRUE]
  /\ UNCHANGED <<page, left, active>>

\* A notice that the configuration changed ends the catalog being read.
Notified ==
  /\ "notice" \in active /\ page.listener = "Open" /\ keyboard.plugged
  /\ page.scan # 0
  /\ Happens(EndScan(page))

\* The automatic save: sent, put off while an operation is pending, or given up.
MayApply(p) == MaySubmit(p) /\ CanRequestApply(p.lighting)

TimerFires ==
  /\ page.timer
  /\ ~(Connected(page) /\ Ready(page.lighting) /\ Dirty(page.lighting) /\ page.pending # None)
  /\ LET p == [page EXCEPT !.timer = FALSE]
     IN Happens(IF MayApply(p) THEN Submit(p, "Apply", "user") ELSE p)

EffectSettles(c) ==
  \/ BackupSettles(c)
  \/ ExchangeSettles(c)
  \/ WriteNotSent(c)
  \/ WriteSettles(c)
  \/ WaitEnds(c)
  \/ YieldEnds(c)

KeyboardAndClock ==
  \/ \E c \in Connections : EffectSettles(c)
  \/ ListenerOpens
  \/ ListenerCloses
  \/ DeviceCloses
  \/ Unplug
  \/ Unplugged
  \/ ListenerUnplugged
  \/ Plug
  \/ Notified
  \/ TimerFires

-----------------------------------------------------------------------------
(* Events of the user: the controls of the page as it disables them. *)

Choose ==
  /\ ~Connected(page) /\ page.task = "None" /\ page.closing = "No"
  /\ page.connects < MaxConnections
  /\ Happens([page EXCEPT !.task = "Choosing"])

Opened(c) == [IdleExecutor EXCEPT !.active = TRUE]

Attached(p) ==
  LET q == SessionConnect(p)
      r == [q EXCEPT !.executors[q.generation] = Opened(q.generation)]
  IN IF Receiver
       THEN Enqueue([r EXCEPT !.task = "Verifying"], "Identity", "connect", None)
       ELSE [r EXCEPT !.task = "Listening", !.listener = "Opening"]

Chosen ==
  /\ page.task = "Choosing"
  /\ \/ Happens(Ended(page))
     \/ keyboard.plugged /\ Happens(Attached(page))

DisconnectPressed ==
  /\ MayDisconnect(page, FALSE) /\ page.task = "None"
  /\ Happens(Disconnect(page, FALSE))

\* While the browser asks for a screen the controls of a feature are disabled.
Controls == page.host.phase # "Preparing"

ReadPressed == Controls /\ MaySubmit(page) /\ Happens(Submit(page, "Lighting", "user"))

Edited ==
  /\ "edit" \in active
  /\ Controls /\ Ready(page.lighting)
  /\ (SessionIdle(page) \/ (Writing(page) /\ ~page.recording))
  /\ \E value \in Values \ {page.lighting.draft} :
       Happens([page EXCEPT !.lighting = Stage(@, value), !.timer = TRUE])

DiscoverPressed ==
  "record" \in active /\ Controls /\ MayDiscover(page) /\ Happens(Discover(page))

\* A recording is asked for; a catalog being read is cancelled, and every call
\* in flight is waited for.
RecordPressed ==
  /\ "record" \in active /\ Controls
  /\ Connected(page) /\ ~page.recording /\ page.recorder = 0
  /\ LET Await(job) == [job EXCEPT !.awaited = job.by \in {"user", "connect"}]
         p == EndScan([page EXCEPT !.recorder = page.generation])
     IN Happens(IF page.scan = 0
                  THEN StartRecording(page)
                  ELSE [p EXCEPT !.executors = [c \in Connections |-> EachJob(@[c], Await)]])

RecordStopped ==
  page.recording /\ Happens(Pump([page EXCEPT !.recording = FALSE], page.generation))

MayHost(p) ==
  /\ MaySubmit(p) /\ Ready(p.lighting) /\ ~Dirty(p.lighting) /\ p.lighting.draft # None

HostPressed ==
  /\ "host" \in active /\ ~Receiver
  /\ ~HostBusy(page) /\ page.hosts < MaxHosts /\ page.closing = "No"
  /\ MayHost(page) /\ ~page.timer
  /\ Happens([page EXCEPT !.host = [IdleHost EXCEPT !.phase = "Preparing"], !.hosts = @ + 1])

\* The browser's own chooser of a screen: refused, or granted.
ScreenChosen ==
  /\ page.host.phase = "Preparing"
  /\ \/ Happens(HostFinishes(page, TRUE))
     \/ LET p == EndScan(page)
            saved == p.lighting.baseline.context
            q == [p EXCEPT !.hosting = "Starting", !.host.phase = "Starting",
                           !.host.saved = saved]
        IN Happens(IF MayHost(p) THEN Enqueue(q, "Start", "host", saved)
                   ELSE HostFinishes(p, TRUE))

FrameCaptured ==
  /\ page.host.phase = "Active" /\ ~page.host.stopping /\ ~page.host.frame
  /\ LET p == [page EXCEPT !.host.frame = TRUE]
     IN Happens(IF p.host.draining THEN p ELSE HostDrains(p))

\* Stop is pressed, or the capture of the screen ends by itself.
HostStopPressed ==
  /\ page.host.phase \notin {"Idle", "Stopping"} /\ page.closing = "No"
  /\ \E problem \in {FALSE, page.host.phase = "Active"} : Happens(HostStops(page, problem))

User ==
  \/ Choose
  \/ Chosen
  \/ DisconnectPressed
  \/ ReadPressed
  \/ Edited
  \/ DiscoverPressed
  \/ RecordPressed
  \/ RecordStopped
  \/ HostPressed
  \/ ScreenChosen
  \/ FrameCaptured
  \/ HostStopPressed

Next == Reactions \/ KeyboardAndClock \/ User

(***************************************************************************)
(* Reactions run; a browser call on the keyboard or the storage settles, a *)
(* wait of the page's own comes to its end, and the browser then runs what *)
(* waits for it between two other events: strong fairness, as every event  *)
(* waits for the reactions of the one before.  The effects are one         *)
(* condition and the calls that open and close another: one of each kind   *)
(* is outstanding while no executor is left at work.  The user need not do *)
(* anything.                                                               *)
(***************************************************************************)
Fairness ==
  /\ WF_vars(Reactions) /\ SF_vars(\E c \in Connections : EffectSettles(c))
  /\ SF_vars(ListenerOpens \/ ListenerCloses \/ DeviceCloses)

Spec == Init /\ [][Next]_vars /\ Fairness
=============================================================================
