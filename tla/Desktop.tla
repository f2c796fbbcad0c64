------------------------------ MODULE Desktop ------------------------------
(***************************************************************************)
(* The native application's controller (byakko-desktop/src/app.rs and      *)
(* controller/): one UI thread handles messages from the user, timers,     *)
(* file jobs and the discovery thread, and drives one device worker at a   *)
(* time.  The session inside it is Session.tla and the worker Executor.tla; *)
(* here both are reduced to what the controller can tell apart: which      *)
(* activity holds the device, which answers are coming and which drafts    *)
(* are dirty.                                                              *)
(*                                                                         *)
(* `desk` is the application and the device threads it has started, and an *)
(* operator on it is one method: it takes a desk and returns the next one. *)
(* Every message ends in flush_saves, so each UI action ends in Update.    *)
(***************************************************************************)
EXTENDS Naturals, Sequences, SequencesExt

CONSTANTS None,            \* the absent value of an Option
          Keyboards,       \* keyboards that can be plugged in, one at a time
          Threads,         \* names for device threads, used again when one is over
          Autosaved,       \* features whose edits are applied automatically
          RefreshReads,    \* reads of a refresh after attachment
          CatalogSlots,    \* slots of a macro catalog
          MaxConnections,  \* bound: connection generations
          Instances        \* the sets of optional activities to be explored

\* Edits that are saved automatically, saves by hand, files, saved appearance,
\* host lighting, recording, a keyboard that is unplugged, a thread that panics.
OptionalActivities ==
  {"edit", "save", "file", "appearance", "host", "recording", "unplug", "panic"}

ASSUME DesktopAssumption ==
  /\ {RefreshReads, CatalogSlots, MaxConnections} \subseteq Nat \ {0}
  /\ Instances \subseteq SUBSET OptionalActivities
  /\ "macro" \notin Autosaved /\ None \notin Keyboards \cup Threads
  /\ Threads # {} /\ Keyboards # {} /\ Keyboards \cap {"Unknown", "Missing", "Error"} = {}

VARIABLES desk,     \* the application and its device threads
          probe,    \* the discovery thread: "Idle", "Asked" or what it found
          plugged,  \* the keyboard that is plugged in, or None
          steady,   \* has it stayed plugged in since the last attachment?
          active    \* the optional activities of this behaviour
vars == <<desk, probe, plugged, steady, active>>

Availability == Keyboards \cup {"Unknown", "Missing", "Error"}
NoCommand == [kind |-> "None", feature |-> "None"]
Free == [life |-> "Free", queue |-> <<>>, call |-> NoCommand, catalog |-> 0,
         cancelled |-> FALSE, stop |-> FALSE, answers |-> <<>>, events |-> <<>>]

Init ==
  /\ desk = [worker |-> None, retiring |-> None, reconnect |-> None, selected |-> None,
             presence |-> "Unknown", scan |-> "Idle", refresh |-> 0,
             generation |-> 0, connects |-> 0, op |-> NoCommand, catalog |-> FALSE,
             manual |-> FALSE, dirty |-> {}, host |-> "Idle", sampler |-> "Idle",
             recording |-> "No", autosave |-> <<>>, file |-> None, labels |-> FALSE,
             appearance |-> FALSE, closing |-> "Open",
             threads |-> [t \in Threads |-> Free]]
  /\ probe = "Idle" /\ plugged \in {None, CHOOSE k \in Keyboards : TRUE} /\ steady = FALSE
  /\ active \in Instances

Busy(d) == d.op # NoCommand
Settling(d) == d.retiring # None \/ d.reconnect # None
Recording(d) == d.recording # "No"
HostBusy(d) == d.sampler # "Idle" \/ d.host # "Idle"
Idle(d) == d.host = "Idle" /\ d.recording # "On" /\ ~Busy(d)

-----------------------------------------------------------------------------
(* The session, as far as the controller sees it. *)

\* A draft that cannot be saved: disconnected, or waiting for a manual read.
Refused(d) == d.generation = 0 \/ d.manual

Disconnect(d) ==
  [d EXCEPT !.generation = 0, !.op = NoCommand, !.catalog = FALSE, !.host = "Idle",
            !.manual = @ \/ d.host # "Idle" \/ (Busy(d) /\ d.op.kind # "Read"),
            !.recording = IF @ = "On" THEN "No" ELSE @,
            !.dirty = IF d.recording = "On" THEN @ \cup {"macro"} ELSE @]

FinishRecording(d) ==
  [d EXCEPT !.recording = "No",
            !.dirty = IF d.recording = "On" THEN @ \cup {"macro"} ELSE @]

-----------------------------------------------------------------------------
(* The link: discovery, the worker, and the one that is retiring. *)

Invalidate(d) == [d EXCEPT !.scan = IF @ = "Current" THEN "Discard" ELSE @]

Retire(d) ==
  LET e == [d EXCEPT !.refresh = 0, !.reconnect = None, !.selected = None, !.worker = None,
                     !.retiring = IF d.worker = None THEN @ ELSE d.worker,
                     !.threads = [t \in Threads |->
                        IF t = d.worker /\ @[t].life = "Open"
                          THEN [@[t] EXCEPT !.life = "Closed"] ELSE @[t]]]
  IN Invalidate(Disconnect(e))

CancelCatalog(d) ==
  IF d.worker = None THEN d ELSE [d EXCEPT !.threads[d.worker].cancelled = TRUE]

Catalog == [kind |-> "Catalog", feature |-> "macro"]
Host == [kind |-> "Host", feature |-> "lighting"]

\* A completion that ends an operation in failure, or a submission refused
\* because the device thread is gone.
Fail(d, op) ==
  [d EXCEPT !.op = NoCommand, !.refresh = 0, !.closing = "Open",
            !.manual = @ \/ op.kind # "Read",
            !.autosave = SelectSeq(@, LAMBDA f : f # op.feature)]

Deliver(d, command) ==
  IF d.worker = None THEN Disconnect(d)
  ELSE IF d.threads[d.worker].life = "Dead"
         THEN IF command = Catalog THEN [d EXCEPT !.catalog = FALSE] ELSE Fail(d, command)
  ELSE [d EXCEPT !.threads[d.worker].queue = Append(@, command),
                 !.threads[d.worker].cancelled = @ /\ command # Catalog]

\* A "Start" is the first write of a workflow that goes on by itself:
\* save-and-assign ("macro") or the preparation of key colours ("lighting").
Submit(d, kind, feature) ==
  LET op == [kind |-> kind, feature |-> feature]
  IN Deliver([Invalidate(d) EXCEPT !.op = op, !.catalog = @ /\ feature # "macro"], op)

SubmitCatalog(d) == Deliver([Invalidate(d) EXCEPT !.catalog = TRUE], Catalog)

\* Faulty: the retired worker is forgotten while it may still use the device.
FaultyFinished(d) == TRUE

Finished(d) == d.retiring # None => d.threads[d.retiring].life \in {"Free", "Dead"}

\* What attach can answer: nothing, or the keyboard that is there.
Attachments == {None, plugged}

CanAttach(d, found) ==
  /\ found # None /\ d.reconnect \in {"Manual", found}
  /\ Idle(d) /\ d.connects < MaxConnections

Attached(d, found) ==
  LET t == CHOOSE t \in Threads : d.threads[t].life = "Free"
      e == [d EXCEPT !.worker = t, !.threads[t] = [Free EXCEPT !.life = "Open"],
                     !.reconnect = None, !.selected = found, !.presence = found,
                     !.refresh = RefreshReads, !.catalog = FALSE,
                     !.generation = d.connects + 1, !.connects = @ + 1]
  IN Submit(e, "Read", "keymap")

\* Link::poll: [result, desk], the command of a new attachment submitted.
LinkPoll(d, found) ==
  LET e == [d EXCEPT !.retiring = None,
                     !.threads = [t \in Threads |->
                        IF t = d.retiring /\ @[t].life = "Dead" THEN Free ELSE @[t]]]
  IN CASE ~Finished(d) -> [result |-> "None", desk |-> d]
       [] Finished(d) /\ d.reconnect = None -> [result |-> "None", desk |-> e]
       [] Finished(d) /\ d.reconnect # None /\ CanAttach(e, found)
            -> [result |-> "Command", desk |-> Attached(e, found)]
       [] OTHER -> [result |-> "Error", desk |-> [e EXCEPT !.reconnect = None]]

-----------------------------------------------------------------------------
(* Closing and automatic saves.  close() is the last call of every handler *)
(* that makes it: the handler returns AskClose and Handle carries it out.  *)

\* Faulty: the controller turns to Stopping but the worker is never told.
FaultyHostStopped(d) ==
  IF d.sampler \in {"Preparing", "Ready"} THEN [d EXCEPT !.sampler = "Idle"]
  ELSE IF d.host = "Idle" THEN d ELSE [d EXCEPT !.host = "Stopping"]

HostStopped(d) ==
  IF d.sampler \in {"Preparing", "Ready"} THEN [d EXCEPT !.sampler = "Idle"]
  ELSE IF d.host = "Idle" THEN d
  ELSE IF d.worker = None THEN [d EXCEPT !.host = "Stopping"]
  ELSE [d EXCEPT !.host = "Stopping", !.threads[d.worker].stop = TRUE]

\* Faulty: a command under way does not hold the window open.
FaultyDeviceQuiet(d) == d.file = None /\ ~Settling(d)

DeviceQuiet(d) == ~Busy(d) /\ d.file = None /\ ~Settling(d)

CloseSaved(d) ==
  LET e == HostStopped(Invalidate(d))
      f == FinishRecording(e)
  IN IF d.appearance THEN [d EXCEPT !.closing = "Waiting"]
     ELSE IF HostBusy(e) THEN [e EXCEPT !.closing = "Waiting"]
     ELSE IF ~DeviceQuiet(f) \/ f.autosave # <<>> THEN [f EXCEPT !.closing = "Waiting"]
     ELSE [f EXCEPT !.closing = IF f.dirty # {} THEN "ConfirmDiscard" ELSE "Exited"]

\* flush_saves with the first `due` deadlines past.
Flush(d, due) ==
  LET n == Min({due, Len(d.autosave)})
      dirty == {i \in 1..n : d.autosave[i] \in d.dirty}
      i == IF dirty = {} THEN n ELSE Min(dirty)
      e == [d EXCEPT !.autosave = SubSeq(@, i + 1, Len(@))]
  IN CASE \/ Busy(d) \/ d.sampler # "Idle" \/ d.file # None \/ Recording(d)
          \/ d.closing \in {"ConfirmDiscard", "Exited"} -> d
       [] OTHER ->
            IF dirty # {}
              THEN IF Refused(e) THEN [e EXCEPT !.closing = "Open"]
                   ELSE Submit(e, "Save", d.autosave[i])
              ELSE IF e.closing = "Waiting" /\ e.autosave = <<>> THEN CloseSaved(e) ELSE e

AskClose(d) == [d EXCEPT !.closing = "Asked"]

\* The flush that close() makes when only automatic saves are in the way.
CloseFlush(d) ==
  IF d.closing = "Waiting" /\ ~d.appearance /\ ~HostBusy(d) /\ DeviceQuiet(d)
    THEN Flush(d, Len(d.autosave)) ELSE d

CloseIfWaiting(d) == IF d.closing = "Waiting" THEN AskClose(d) ELSE d

-----------------------------------------------------------------------------
(* Pages, files and completions. *)

BeginFile(d, operation) ==
  Invalidate([d EXCEPT !.file = [operation |-> operation, generation |-> d.generation]])

\* `page` is what the page on show still needs from the keyboard.
Pages == {"Nothing", "Read", "Start"}
LoadPage(d, page) ==
  CASE \/ Busy(d) \/ Recording(d) \/ d.sampler # "Idle" \/ d.file # None
       \/ d.generation = 0 -> d
    [] OTHER -> IF ~d.labels THEN BeginFile(d, "Labels")
                ELSE IF page = "Nothing" \/ d.host # "Idle" \/ (page = "Start" /\ d.manual) THEN d
                ELSE Submit(d, page, "lighting")

\* A recording that waited for the catalog starts when the scan has answered.
CatalogFinished(d) ==
  Invalidate([d EXCEPT !.recording = IF @ # "Requested" THEN @
                                     ELSE IF Idle(d) THEN "On" ELSE "No"])

Succeeded(d, page) ==
  LET saved == d.op.kind # "Read" /\ d.op.feature \notin ToSet(d.autosave)
      e == [d EXCEPT !.op = NoCommand, !.refresh = IF @ = 0 THEN 0 ELSE @ - 1,
                     !.manual = @ /\ d.refresh # 1,
                     !.dirty = IF saved THEN @ \ {d.op.feature} ELSE @]
  IN CASE d.op = [kind |-> "Start", feature |-> "macro"] -> Submit(e, "Save", "keymap")
       [] d.op = [kind |-> "Start", feature |-> "lighting"] -> Submit(e, "Read", "picture")
       [] d.op.kind # "Start" /\ d.refresh > 1 -> Submit(e, "Read", "keymap")
       [] d.op.kind # "Start" /\ d.refresh = 1 -> SubmitCatalog(e)
       [] OTHER -> IF e.closing = "Waiting" THEN AskClose(e) ELSE LoadPage(e, page)

Complete(d, answer, page) ==
  IF answer.kind = "Catalog"
    THEN IF ~d.catalog THEN d
         ELSE LET e == CatalogFinished([d EXCEPT !.catalog = FALSE])
              IN IF answer.result = "Ok" THEN LoadPage(e, page) ELSE e
    ELSE IF ~Busy(d) \/ d.op.kind # answer.kind THEN d
         ELSE IF answer.result = "Ok" THEN Succeeded(d, page)
         ELSE [Fail(d, d.op) EXCEPT !.manual = @ \/ answer.result = "Conflict"]

-----------------------------------------------------------------------------
(* The host lighting controller's poll: [outcome, desk].  `sampler` is the  *)
(* event its thread has for it: none, ready, or a failure (frames are not   *)
(* modelled).                                                               *)

Nothing(d) == [outcome |-> "None", desk |-> d]

StartHost(d) ==
  IF d.sampler # "Ready" \/ d.catalog THEN Nothing(d)
  ELSE IF ~Idle(d) \/ Refused(d) \/ d.threads[d.worker].life = "Dead"
         THEN [outcome |-> "Failed", desk |-> [d EXCEPT !.sampler = "Idle"]]
  ELSE [outcome |-> "None",
        desk |-> [d EXCEPT !.sampler = "Attached", !.host = "Starting",
                           !.threads[d.worker].queue = Append(@, Host),
                           !.threads[d.worker].cancelled = TRUE]]

PollSampler(d, sampler) ==
  CASE sampler = "Failed" /\ d.sampler # "Idle" ->
         [outcome |-> IF d.sampler = "Attached" THEN "None" ELSE "Failed",
          desk |-> HostStopped(d)]
    [] sampler = "Ready" /\ d.sampler = "Preparing" ->
         StartHost([d EXCEPT !.sampler = "Ready"])
    [] OTHER -> StartHost(d)

HostEvent(d, event, sampler) ==
  CASE event = "Started" /\ d.host = "Starting" -> Nothing([d EXCEPT !.host = "Active"])
    [] event \in {"Finished", "Failed"} /\ d.host # "Idle" ->
         [outcome |-> event,
          desk |-> [d EXCEPT !.host = "Idle", !.sampler = "Idle",
                             !.manual = @ \/ event = "Failed"]]
    [] OTHER -> PollSampler(d, sampler)

HostPoll(d, sampler) ==
  IF \/ d.worker = None
     \/ d.threads[d.worker].life = "Dead" /\ d.threads[d.worker].events = <<>>
    THEN IF d.sampler = "Idle" THEN Nothing(d)
         ELSE [outcome |-> "Failed", desk |-> Disconnect([d EXCEPT !.sampler = "Idle"])]
    ELSE IF d.threads[d.worker].events # <<>>
           THEN HostEvent([d EXCEPT !.threads[d.worker].events = Tail(@)],
                          Head(d.threads[d.worker].events), sampler)
           ELSE PollSampler(d, sampler)

\* The worker's end of the channel is gone.
Lost(d) ==
  [Retire([FinishRecording(d) EXCEPT !.autosave = <<>>, !.presence = "Unknown"])
     EXCEPT !.closing = "Open"]

Receive(d, page) ==
  IF d.worker = None
    THEN IF ~Settling(d) THEN CloseIfWaiting(d) ELSE d
  ELSE IF d.threads[d.worker].answers # <<>>
         THEN Complete([d EXCEPT !.threads[d.worker].answers = Tail(@)],
                       Head(d.threads[d.worker].answers), page)
  ELSE IF d.threads[d.worker].life = "Dead" THEN Lost(d) ELSE d

Polled(link, host, page) ==
  LET d == IF host.outcome = "Failed" THEN [host.desk EXCEPT !.closing = "Open"] ELSE host.desk
  IN CASE link.result = "Command" -> link.desk
       [] link.result = "Error" -> [link.desk EXCEPT !.closing = "Open"]
       [] OTHER -> IF host.outcome = "Finished" /\ d.closing = "Waiting"
                     THEN AskClose(d) ELSE Receive(d, page)

-----------------------------------------------------------------------------
(* Messages.  A guard is the part of reduce() that lets the message pass   *)
(* and of subscription() that lets it arise.                               *)

Handle(next) ==
  /\ desk.closing # "Exited"
  /\ \E d \in {next} : \E e \in {IF d.closing = "Asked" THEN CloseSaved(d) ELSE d} :
     \E f \in {IF d.closing = "Asked" THEN CloseFlush(e) ELSE e} :
     \E due \in 0..Len(f.autosave) : desk' = Flush(f, due)
  /\ steady' = (steady \/ desk'.connects # desk.connects)
  /\ UNCHANGED <<plugged, active>>

UI(next) == Handle(next) /\ UNCHANGED probe

Foreground == /\ desk.closing = "Open" /\ desk.file = None
         /\ ~Recording(desk) /\ ~HostBusy(desk)

\* Read / reconnect.
Read ==
  /\ Foreground /\ ~Busy(desk) /\ desk.connects < MaxConnections
  /\ LET d == Retire([desk EXCEPT !.autosave = <<>>])
     IN \E found \in Attachments : UI(LinkPoll([d EXCEPT !.reconnect = "Manual"], found).desk)

Editable(d) == d.generation # 0 /\ ~d.manual /\ d.refresh = 0

Edit(f) ==
  /\ "edit" \in active
  /\ Foreground /\ Editable(desk)
  /\ Busy(desk) => desk.op = [kind |-> "Save", feature |-> f]
  /\ UI([desk EXCEPT !.dirty = @ \cup {f}, !.autosave = Append(SelectSeq(@, LAMBDA g : g # f), f)])

EditMacro ==
  /\ "save" \in active
  /\ Foreground /\ Editable(desk) /\ ~Busy(desk)
  /\ UI([desk EXCEPT !.dirty = @ \cup {"macro"}])

\* Save a macro, or save and assign it.
Save(kind) ==
  /\ Foreground /\ Editable(desk) /\ ~Busy(desk) /\ "macro" \in desk.dirty
  /\ UI(Submit(desk, kind, "macro"))

Page(page) == Foreground /\ UI(LoadPage(desk, page))

Import ==
  /\ "file" \in active
  /\ Foreground /\ Editable(desk) /\ ~Busy(desk)
  /\ UI(BeginFile(desk, "Import"))

HostStart ==
  /\ "host" \in active
  /\ Foreground /\ desk.autosave = <<>> /\ desk.worker # None /\ ~Busy(desk)
  /\ UI(Invalidate(CancelCatalog([desk EXCEPT !.sampler = "Preparing", !.catalog = FALSE])))

HostStop ==
  /\ desk.closing = "Open" /\ desk.file = None /\ HostBusy(desk)
  /\ UI(HostStopped(desk))

RecordStart ==
  /\ "recording" \in active
  /\ Foreground /\ Editable(desk) /\ ~Busy(desk)
  /\ UI(Invalidate(IF desk.catalog THEN CancelCatalog([desk EXCEPT !.recording = "Requested"])
                                   ELSE [desk EXCEPT !.recording = "On"]))

RecordStop ==
  /\ desk.closing = "Open" /\ desk.file = None /\ Recording(desk)
  /\ UI(FinishRecording(desk))

ApplyAppearance ==
  /\ "appearance" \in active
  /\ desk.closing = "Open" /\ ~Recording(desk) /\ ~HostBusy(desk) /\ ~desk.appearance
  /\ UI([desk EXCEPT !.appearance = TRUE])

AppearanceSaved(ok) ==
  /\ desk.appearance
  /\ LET d == [desk EXCEPT !.appearance = FALSE]
     IN UI(IF d.closing # "Waiting" THEN d
             ELSE IF ok THEN AskClose(d) ELSE [d EXCEPT !.closing = "Open"])

FileComplete(ok) ==
  /\ desk.file # None
  /\ LET d == [desk EXCEPT !.file = None, !.labels = @ \/ desk.file.operation = "Labels"]
         staged == ok /\ desk.file.operation = "Import"
         failed == ~ok \/ (staged /\ desk.file.generation # d.generation)
     IN UI(IF failed THEN [d EXCEPT !.closing = "Open"]
           ELSE CloseIfWaiting([d EXCEPT !.dirty = IF staged THEN @ \cup {"macro"} ELSE @]))

\* A configuration notice: the catalog is obsolete.
DeviceEvent ==
  /\ desk.generation # 0 /\ desk.worker # None /\ desk.catalog
  /\ UI(CancelCatalog([desk EXCEPT !.catalog = FALSE]))

CloseRequest == UI(AskClose(desk))
Discard == desk.closing = "ConfirmDiscard" /\ desk.file = None /\ UI([desk EXCEPT !.closing = "Exited"])
KeepEditing == desk.closing = "ConfirmDiscard" /\ desk.file = None /\ UI([desk EXCEPT !.closing = "Open"])

SamplerEvents ==
  CASE desk.sampler = "Idle" -> {"None"}
    [] desk.sampler = "Preparing" -> {"None", "Ready", "Failed"}
    [] OTHER -> {"None", "Failed"}

\* What can be on show when an answer brings a page to load.
PagesShown ==
  IF desk.worker # None /\ desk.threads[desk.worker].answers # <<>> THEN Pages ELSE {"Nothing"}

Poll ==
  /\ desk.recording # "On"
  /\ desk.sampler # "Idle" \/ Settling(desk) \/ Busy(desk) \/ desk.catalog \/ desk.autosave # <<>>
  /\ \E found \in IF Settling(desk) THEN Attachments ELSE {None} :
      \E link \in {LinkPoll(desk, found)} : \E sampler \in SamplerEvents :
      \E host \in {HostPoll(link.desk, sampler)} : \E page \in PagesShown :
        UI(Polled(link, host, page))

-----------------------------------------------------------------------------
(* Discovery: one scan at a time, on a thread of its own. *)

\* Faulty: the answer of an invalidated scan is used.
FaultyReceived(d) == IF probe \in Availability THEN probe ELSE None

Received(d) == IF d.scan = "Current" /\ probe \in Availability THEN probe ELSE None

Observe(d, observed, found) ==
  LET e == [d EXCEPT !.presence = observed]
      replaced == IF d.worker # None THEN Retire(e) ELSE e
  IN IF observed \notin Keyboards
       THEN [result |-> "None", desk |-> IF observed # d.presence THEN Retire(e) ELSE e]
     ELSE IF d.worker # None /\ observed = d.selected THEN [result |-> "None", desk |-> e]
     ELSE IF d.manual THEN [result |-> "None", desk |-> replaced]
     ELSE LinkPoll([replaced EXCEPT !.reconnect = observed], found)

Scan ==
  /\ Foreground /\ ~Busy(desk) /\ ~desk.catalog /\ desk.autosave = <<>>
  /\ \E found \in Attachments :
       LET received == Received(desk)
           d == IF probe \in Availability THEN [desk EXCEPT !.scan = "Idle"] ELSE desk
           step == CASE Settling(desk) -> LinkPoll(desk, found)
                     [] ~Settling(desk) /\ received # None -> Observe(d, received, found)
                     [] OTHER -> [result |-> "None", desk |-> d]
           ask == ~Settling(desk) /\ step.result = "None" /\ step.desk.scan = "Idle"
       IN /\ Handle(IF ask THEN [step.desk EXCEPT !.scan = "Current"] ELSE step.desk)
          /\ probe' = IF ask THEN "Asked"
                      ELSE IF ~Settling(desk) /\ probe \in Availability THEN "Idle" ELSE probe

ProbeAnswers ==
  /\ probe = "Asked" /\ desk.closing # "Exited"
  /\ probe' \in {IF plugged = None THEN "Missing" ELSE plugged, "Error"}
  /\ UNCHANGED <<desk, plugged, steady, active>>

Plug(k) ==
  /\ "unplug" \in active /\ desk.closing # "Exited" /\ k # plugged /\ plugged' = k /\ steady' = FALSE
  /\ UNCHANGED <<desk, probe, active>>

-----------------------------------------------------------------------------
(* A device thread (Executor.tla), reduced to its calls. *)

Step(t, thread) ==
  /\ desk.closing # "Exited"
  /\ desk' = [desk EXCEPT !.threads[t] = thread]
  /\ UNCHANGED <<probe, plugged, steady, active>>

CatalogEnds(result) == [kind |-> "Catalog", result |-> result]

Take(t) ==
  LET d == desk.threads[t]
      command == Head(d.queue)
      e == [d EXCEPT !.queue = Tail(@)]
      ends == IF d.catalog > 0 /\ command = Host THEN <<CatalogEnds("Failed")>> ELSE <<>>
  IN /\ d.life = "Open" /\ d.call = NoCommand /\ d.queue # <<>>
     /\ Step(t, IF command = Catalog THEN [e EXCEPT !.catalog = CatalogSlots + 1]
                ELSE [e EXCEPT !.call = command, !.answers = @ \o ends,
                               !.catalog = IF command = Host THEN 0 ELSE @])

Scanning(t) ==
  LET d == desk.threads[t]
  IN /\ d.life = "Open" /\ d.call = NoCommand /\ d.queue = <<>> /\ d.catalog > 0
     /\ IF d.catalog > 1 /\ ~d.cancelled
          THEN Step(t, [d EXCEPT !.call = Catalog])
          ELSE Step(t, [d EXCEPT !.catalog = 0,
                 !.answers = Append(@, CatalogEnds(IF d.cancelled THEN "Failed" ELSE "Ok"))])

SlotRead(t, ok) ==
  LET d == desk.threads[t]
  IN /\ d.call = Catalog /\ d.life # "Closed"
     /\ Step(t, IF ok THEN [d EXCEPT !.call = NoCommand, !.catalog = @ - 1]
                ELSE [d EXCEPT !.call = NoCommand, !.catalog = 0,
                               !.answers = Append(@, CatalogEnds("Failed"))])

Call(t, result) ==
  LET d == desk.threads[t]
      ends == IF d.catalog > 0 /\ d.call.kind # "Read" /\ d.call.feature = "macro"
                THEN <<CatalogEnds("Failed")>> ELSE <<>>
  IN /\ d.life = "Open" /\ d.call.kind \in {"Read", "Save", "Start"}
     /\ Step(t, [d EXCEPT !.call = NoCommand, !.catalog = IF ends = <<>> THEN @ ELSE 0,
                  !.answers = Append(@, [kind |-> d.call.kind, result |-> result]) \o ends])

\* Host lighting: started, and later ended by a stop or by a failure.
HostStarted(t) ==
  LET d == desk.threads[t]
  IN /\ d.life = "Open" /\ d.call = Host /\ ~d.stop
     /\ Step(t, [d EXCEPT !.call.feature = "streaming", !.events = Append(@, "Started")])

HostEnded(t, event) ==
  LET d == desk.threads[t]
  IN /\ d.life = "Open" /\ d.call.kind = "Host" /\ (d.stop \/ event = "Failed")
     /\ Step(t, [d EXCEPT !.call = NoCommand, !.stop = FALSE, !.events = Append(@, event)])

\* A closed worker ends with the call it is in; nobody hears its answer.
ThreadEnds(t) == desk.threads[t].life = "Closed" /\ Step(t, Free)

\* The thread panics outside the calls it guards.
ThreadDies(t) ==
  LET d == desk.threads[t]
  IN /\ "panic" \in active /\ d.life = "Open"
     /\ Step(t, [d EXCEPT !.life = "Dead", !.call = NoCommand, !.queue = <<>>, !.catalog = 0])

\* What a thread does unless it panics; host lighting streams until its stop.
Progress(t) ==
  \/ Take(t) \/ Scanning(t) \/ HostStarted(t) \/ ThreadEnds(t)
  \/ \E ok \in BOOLEAN : SlotRead(t, ok)
  \/ \E result \in {"Ok", "Failed", "Conflict"} : Call(t, result)
  \/ \E event \in {"Finished", "Failed"} : desk.threads[t].stop /\ HostEnded(t, event)

-----------------------------------------------------------------------------
Next ==
  \/ Read \/ EditMacro \/ Import \/ HostStart \/ HostStop \/ RecordStart \/ RecordStop
  \/ ApplyAppearance \/ DeviceEvent \/ CloseRequest \/ Discard \/ KeepEditing
  \/ Poll \/ Scan \/ ProbeAnswers
  \/ \E f \in Autosaved : Edit(f)
  \/ \E kind \in {"Save", "Start"} : Save(kind)
  \/ \E page \in Pages : Page(page)
  \/ \E ok \in BOOLEAN : AppearanceSaved(ok) \/ FileComplete(ok)
  \/ \E k \in Keyboards \cup {None} : Plug(k)
  \/ \E t \in Threads :
       Progress(t) \/ ThreadDies(t) \/ HostEnded(t, "Failed")

\* Timers fire, threads run and jobs answer; the user and the keyboard owe nothing.
Fairness ==
  /\ WF_vars(Poll)
  /\ WF_vars(\E ok \in BOOLEAN : AppearanceSaved(ok))
  /\ WF_vars(\E ok \in BOOLEAN : FileComplete(ok))
  /\ \A t \in Threads : WF_vars(Progress(t))

Spec == Init /\ [][Next]_vars /\ Fairness
=============================================================================
