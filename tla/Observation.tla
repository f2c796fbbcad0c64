---------------------------- MODULE Observation ----------------------------
(***************************************************************************)
(* Onboard changes, from the keyboard to the editors.  The keyboard reports *)
(* a change; the observer thread of the executor reads the report and puts *)
(* it in a mailbox (byakko-devices/src/notifications.rs); the application  *)
(* takes it as a message, queues the features it may concern and reads     *)
(* them once the burst is over (byakko-core/src/workflow/observation.rs    *)
(* and byakko-desktop/src/app.rs).                                         *)
(*                                                                         *)
(* `app` is the part of the application these handlers use; an operator on *)
(* it is one method and returns the next one.  Editors are those of Editor, *)
(* with the value of the feature as the device reports it.                 *)
(***************************************************************************)
EXTENDS Editor, Naturals, Sequences, SequencesExt

CONSTANTS Loaded,          \* the features of the keyboard
          Values,          \* Values[f]: what feature f can hold on the keyboard
          PictureEffect,   \* the lighting value that displays the picture
          MaxConnections,  \* bound: connection generations
          MaxSteps         \* bound: steps of the user and of the keyboard

\* The order in which a configuration notice reads them (and, the macro
\* aside, a refresh after attachment).
Order == <<"Keymap", "Lighting", "Settings", "Macro", "Picture">>
Changes == {"Lighting", "Settings", "Configuration"}

Contents == UNION {Values[f] : f \in Loaded}
Snapshots == [value : Contents, context : Contents \cup {None}]
Results == [kind : {"ok", "error"}, snapshot : Snapshots \cup {None}]
Requests == [feature : Loaded, direction : {"Read", "Save"}, background : BOOLEAN,
             result : Results \cup {None}]
Events == [generation : Nat, result : Changes \cup {"Error"}]

ASSUME ObservationAssumption ==
  /\ Loaded \subseteq ToSet(Order)
  /\ "Picture" \in Loaded => "Lighting" \in Loaded
  /\ None \notin Contents \cup {PictureEffect}
  /\ None \notin Snapshots /\ None \notin Results
  /\ None \notin Requests /\ None \notin Events

VARIABLES app,
          device,    \* device[f]: what the keyboard holds
          plugged,   \* is the keyboard connected?
          reports,   \* input reports the listener has not read
          listener,  \* "Off", "Open", "Broken" when its keyboard has gone, "Ended"
          reader,    \* the event the observer thread holds, or None
          mailbox,   \* its mailbox
          messages,  \* events on their way to the application
          steps,     \* steps of the user and of the keyboard so far
          dropped    \* features whose notices were given up since the last read
thread == <<reports, listener, reader, mailbox>>
vars == <<app, device, plugged, thread, messages, steps, dropped>>

Quiet == [remaining |-> <<>>, due |-> FALSE, pictureRequired |-> FALSE, unavailable |-> FALSE]

Init ==
  /\ app = [connection |-> 0, generations |-> 0, ed |-> [f \in Loaded |-> NewEditor],
            pending |-> None, refresh |-> FALSE, activity |-> FALSE, observation |-> Quiet]
  /\ device \in [Loaded -> UNION {Values[f] : f \in Loaded}]
  /\ \A f \in Loaded : device[f] \in Values[f]
  /\ plugged = TRUE /\ reports = <<>> /\ listener = "Off" /\ reader = None
  /\ mailbox = <<>> /\ messages = <<>> /\ steps = 0 /\ dropped = {}

\* What `kept` holds of a queue, in the queue's order.  (SelectSeq over a set:
\* the provers have no definition of SelectSeq.)
Keep(queue, kept) ==
  LET first[n \in 0 .. Len(queue)] ==
        IF n = 0 THEN <<>>
        ELSE IF queue[n] \in kept THEN Append(first[n - 1], queue[n]) ELSE first[n - 1]
  IN first[Len(queue)]

\* The picture's context is the lighting it is displayed by.
Snapshot(f) ==
  [value |-> device[f], context |-> IF f = "Picture" THEN device["Lighting"] ELSE None]

-----------------------------------------------------------------------------
(* The session. *)

ManuallyRead(a) == \E f \in Loaded : a.ed[f].status \in ManualRead
ReadFailed(a) == \E f \in Loaded : a.ed[f].status = "Read"

Disconnected(a) ==
  [a EXCEPT !.connection = 0, !.pending = None, !.refresh = FALSE,
            !.ed = [f \in Loaded |-> Invalidate(@[f])]]

Submit(a, f, direction, background) ==
  [a EXCEPT !.pending = [feature |-> f, direction |-> direction,
                         background |-> background, result |-> None]]

\* refresh_next: keymap, lighting, settings, picture, then a loaded macro.
RefreshNext(a) ==
  LET unready == Keep(<<"Keymap", "Lighting", "Settings", "Picture", "Macro">>,
                   {f \in Loaded : /\ a.ed[f].status # "Ready"
                                   /\ f = "Macro" => a.ed[f].baseline # None})
  IN IF unready = <<>> THEN [a EXCEPT !.refresh = FALSE]
     ELSE Submit([a EXCEPT !.refresh = TRUE], Head(unready), "Read", FALSE)

\* Link::attach and the first read of its refresh.
Attached(a) ==
  LET e == [Disconnected(a) EXCEPT !.generations = @ + 1]
  IN RefreshNext([e EXCEPT !.connection = e.generations, !.observation = Quiet])

\* Lighting observed in another context obliges the picture to be read again.
Accepted(a) ==
  LET f == a.pending.feature
      result == a.pending.result
      e == IF a.pending.direction = "Read" THEN ReadResult(a.ed[f], result)
                                           ELSE ApplyResult(a.ed[f], result)
      moved == /\ f = "Lighting" /\ "Picture" \in Loaded
               /\ e.status \in {"Ready", "Conflict"}
               /\ a.ed["Picture"].baseline # None
               /\ a.ed["Picture"].baseline.context # result.snapshot.value
  IN [a EXCEPT !.pending = None,
               !.ed = [g \in Loaded |-> IF g = f THEN e
                                        ELSE IF g = "Picture" /\ moved THEN Invalidate(@[g])
                                        ELSE @[g]]]

-----------------------------------------------------------------------------
(* The queue of features to read. *)

Features(change) ==
  CASE change = "Lighting" -> <<"Lighting", "Picture">>
    [] change = "Settings" -> <<"Settings">>
    [] change = "Configuration" -> Keep(Order, ToSet(Order) \ ({"Macro"} \ Loaded))

\* A new lighting observation has to precede a queued picture.
Retained(queue, features) ==
  IF "Lighting" \in ToSet(features) THEN Keep(queue, ToSet(queue) \ {"Picture"}) ELSE queue

\* Faulty: the feature that is being read is not queued again.
FaultyReceive(a, change) ==
  LET features == Features(change)
      kept == Retained(a.observation.remaining, features)
      reading == IF a.pending = None THEN {} ELSE {a.pending.feature}
      new == Keep(features, ToSet(features) \ (ToSet(kept) \cup reading))
  IN [a EXCEPT !.observation.remaining = kept \o new, !.observation.due = TRUE,
               !.observation.pictureRequired = @ \/ change = "Configuration"]

Receive(a, change) ==
  LET features == Features(change)
      kept == Retained(a.observation.remaining, features)
      new == Keep(features, ToSet(features) \ ToSet(kept))
  IN [a EXCEPT !.observation.remaining = kept \o new, !.observation.due = TRUE,
               !.observation.pictureRequired = @ \/ change = "Configuration"]

CanObserve(a) ==
  /\ ~a.activity /\ a.connection # 0 /\ a.pending = None
  /\ ~ManuallyRead(a) /\ ~ReadFailed(a)

PictureActive(a) ==
  LET lighting == a.ed["Lighting"]
  IN lighting.status = "Ready" /\ ~Dirty(lighting) /\ lighting.draft = PictureEffect

Readable(a, f) ==
  /\ f \in Loaded /\ a.ed[f].baseline # None /\ a.ed[f].status \in {"Ready", "ReadRequired"}
  /\ f = "Picture" => /\ a.observation.pictureRequired \/ a.ed[f].status # "Ready"
                      /\ PictureActive(a)

\* Faulty: a feature that cannot be read stays at the head of the queue.
FaultyObserveNext(a) ==
  LET queue == a.observation.remaining
      rest == [a EXCEPT !.observation.remaining = Tail(@)]
  IN IF queue = <<>> \/ ~Readable(a, Head(queue)) THEN a
     ELSE Submit(rest, Head(queue), "Read", TRUE)

\* Observation::next: the first feature that can be read; those before it are
\* passed over.  With none left the queue is at rest.
ObserveNext(a) ==
  LET queue == a.observation.remaining
      found == {i \in DOMAIN queue : Readable(a, queue[i])}
      i == CHOOSE i \in found : \A j \in found : i <= j
      rest == [a EXCEPT !.observation.remaining = SubSeq(@, i + 1, Len(@)),
                        !.observation.pictureRequired = @ /\ queue[i] # "Picture"]
  IN IF found = {}
       THEN [a EXCEPT !.observation = [Quiet EXCEPT !.unavailable = a.observation.unavailable]]
       ELSE Submit(rest, queue[i], "Read", TRUE)

\* Pages that are on show and need a reading of their own.
NeedsRead(a, f) ==
  /\ f \in Loaded \cap {"Lighting", "Settings"}
  /\ \/ a.ed[f].status = "Unloaded"
     \/ a.ed[f].status = "ReadRequired" /\ ~Dirty(a.ed[f])

LoadPage(a, page) ==
  IF a.pending # None \/ a.activity \/ a.connection = 0 \/ ~NeedsRead(a, page) THEN a
  ELSE Submit(a, page, "Read", FALSE)

\* continue_observation; `past` says whether a deadline that is set is past.
Continue(a, past, page) ==
  LET ready == [a EXCEPT !.observation.due = FALSE]
      next == ObserveNext(ready)
  IN IF ~CanObserve(a) \/ (a.observation.due /\ ~past) THEN a
     ELSE IF next.pending = None THEN LoadPage(next, page) ELSE next

\* complete: an observed feature goes on with the queue, and one that failed or
\* met a draft ends the observation.
Complete(a, past, page) ==
  LET e == Accepted(a)
      ok == e.ed[a.pending.feature].status = "Ready"
      stopped == IF a.pending.background THEN [e EXCEPT !.observation = Quiet] ELSE e
  IN IF a.pending.background /\ ok THEN Continue(e, past, page)
     ELSE IF ~ok THEN [stopped EXCEPT !.refresh = FALSE]
     ELSE IF a.refresh /\ a.pending.direction = "Read" THEN RefreshNext(e)
     ELSE LoadPage(e, page)

-----------------------------------------------------------------------------
(* The keyboard and the observer thread. *)

Environment == steps < MaxSteps /\ steps' = steps + 1

\* The features a change of this category may touch.
Touched(change) == IF change = "Configuration" THEN Loaded ELSE Loaded \cap {change}

Change(change, f, value) ==
  /\ Environment
  /\ plugged /\ f \in Touched(change) /\ value \in Values[f] \ {device[f]}
  /\ device' = [device EXCEPT ![f] = value]
  /\ reports' = IF listener = "Open" THEN Append(reports, change) ELSE reports
  /\ UNCHANGED <<app, plugged, listener, reader, mailbox, messages, dropped>>

Unplug ==
  /\ Environment
  /\ plugged /\ plugged' = FALSE
  /\ listener' = IF listener = "Open" THEN "Broken" ELSE listener
  /\ reports' = <<>>
  /\ UNCHANGED <<app, device, reader, mailbox, messages, dropped>>

Plug ==
  /\ Environment
  /\ ~plugged /\ plugged' = TRUE
  /\ UNCHANGED <<app, device, thread, messages, dropped>>

Observer == UNCHANGED <<app, device, plugged, messages, steps, dropped>>

\* The thread has loaded the generation and read a report, or an error.
ReadReport ==
  /\ reader = None
  /\ \/ /\ reports # <<>>
        /\ reader' = [generation |-> app.connection, result |-> Head(reports)]
        /\ reports' = Tail(reports)
     \/ /\ listener = "Broken" /\ UNCHANGED reports
        /\ reader' = [generation |-> app.connection, result |-> "Error"]
  /\ UNCHANGED <<listener, mailbox>> /\ Observer

\* Notifications::push; the thread ends with its first error.
Push ==
  LET current == Keep(mailbox, {event \in ToSet(mailbox) : event.generation = reader.generation})
  IN /\ reader # None
     /\ mailbox' = IF reader \in ToSet(current) THEN current ELSE Append(current, reader)
     /\ reader' = None
     /\ listener' = IF reader.result = "Error" THEN "Ended" ELSE listener
     /\ UNCHANGED reports /\ Observer

\* The application's stream takes an event.
Deliver ==
  /\ mailbox # <<>>
  /\ messages' = Append(messages, Head(mailbox)) /\ mailbox' = Tail(mailbox)
  /\ UNCHANGED <<app, device, plugged, reports, listener, reader, steps, dropped>>

\* The worker serves the command in flight.  A write first compares what it
\* expects with what is there.
Served(p) ==
  LET there == device[p.feature]
      editor == app.ed[p.feature]
      written == [value |-> editor.submitted,
                  context |-> IF p.feature = "Picture" THEN device["Lighting"] ELSE None]
  IN CASE ~plugged -> [kind |-> "error", snapshot |-> None]
       [] plugged /\ p.direction = "Read" -> [kind |-> "ok", snapshot |-> Snapshot(p.feature)]
       [] plugged /\ p.direction = "Save" /\ editor.baseline = Snapshot(p.feature) ->
            [kind |-> "ok", snapshot |-> written]
       [] OTHER -> [kind |-> "error", snapshot |-> None]

Serve ==
  /\ app.pending # None /\ app.pending.result = None
  /\ LET p == app.pending
         result == Served(p)
     IN /\ app' = [app EXCEPT !.pending.result = result]
        /\ device' = IF p.direction = "Save" /\ result.kind = "ok"
                       THEN [device EXCEPT ![p.feature] = result.snapshot.value] ELSE device
  /\ UNCHANGED <<plugged, thread, messages, steps, dropped>>

-----------------------------------------------------------------------------
(* The application's handlers. *)

\* The picture cannot be observed while an unsaved lighting draft hides it and
\* before any lighting has been read.
Hidden(a) ==
  IF "Lighting" \in Loaded /\ (Dirty(a.ed["Lighting"]) \/ a.ed["Lighting"].baseline = None)
    THEN {"Picture"} ELSE {}

\* What a step of the application leaves of the notices it does not read:
\* those of an observation that is stopped, and a picture that is passed over
\* while it is hidden.  A reading makes up for those that were given up before.
Given(before, after) ==
  LET queued == ToSet(before.observation.remaining)
      left == ToSet(after.observation.remaining)
      stopped == IF ManuallyRead(after) \/ ReadFailed(after) \/ after.connection = 0
                   THEN queued \ left ELSE (queued \ left) \cap Hidden(before)
      read == IF before.pending # None /\ after.pending # before.pending
                THEN {before.pending.feature} ELSE {}
  IN (dropped \ read) \cup stopped

Handler(next) ==
  /\ \E a \in {next} : app' = a
  /\ dropped' = Given(app, app')

\* The executor is replaced: its observer stops and its mailbox is not read.
Replace(next, attached) ==
  /\ Handler(next)
  /\ listener' = IF attached THEN "Open" ELSE "Off"
  /\ reports' = <<>> /\ reader' = None /\ mailbox' = <<>>
  /\ UNCHANGED <<device, plugged, messages>>

UI(next) == Handler(next) /\ UNCHANGED <<device, plugged, thread, messages>>

Current(event) == app.connection # 0 /\ event.generation = app.connection

DeviceEvent ==
  /\ messages # <<>>
  /\ messages' = Tail(messages)
  /\ LET event == Head(messages)
     IN Handler(CASE ~Current(event) -> app
                  [] Current(event) /\ event.result = "Error" ->
                       [app EXCEPT !.observation.unavailable = TRUE]
                  [] OTHER -> Receive(app, event.result))
  /\ UNCHANGED <<device, plugged, thread, steps>>

\* The timer of the observation: armed while something is queued.
ObserveDevice(page) ==
  /\ app.observation.remaining # <<>> /\ CanObserve(app)
  /\ UI(Continue(app, TRUE, page)) /\ UNCHANGED steps

CompleteCommand(past, page) ==
  /\ app.pending # None /\ app.pending.result # None
  /\ UI(Complete(app, past, page)) /\ UNCHANGED steps

\* A scan looks for the keyboard only without an executor that would tell of it.
Scan ==
  /\ app.connection = 0 \/ app.observation.unavailable
  /\ app.pending = None /\ ~app.activity
  /\ \/ /\ app.connection # 0 /\ ~plugged
        /\ Replace([Disconnected(app) EXCEPT !.observation = Quiet], FALSE)
     \/ /\ app.connection = 0 /\ plugged /\ ~ManuallyRead(app)
        /\ app.generations < MaxConnections
        /\ Replace(Attached(app), TRUE)
  /\ UNCHANGED steps

\* Read / reconnect.
Reconnect ==
  /\ Environment
  /\ app.pending = None /\ ~app.activity /\ app.generations < MaxConnections
  /\ Replace(IF plugged THEN Attached(app)
             ELSE [Disconnected(app) EXCEPT !.observation = Quiet], plugged)

Idle(a) == a.pending = None /\ ~a.activity

Edit(f, value) ==
  /\ Environment
  /\ app.ed[f].status = "Ready" /\ ~app.activity
  /\ app.pending # None => app.pending.background
  /\ UI([app EXCEPT !.ed[f] = Stage(@, value)])

RevertEdit(f) ==
  /\ Environment
  /\ Idle(app) /\ CanRevert(app.ed[f])
  /\ UI([app EXCEPT !.ed[f] = Revert(@)])

Save(f) ==
  /\ Environment
  /\ Idle(app) /\ app.connection # 0 /\ CanRequestApply(app.ed[f])
  /\ UI(Submit([app EXCEPT !.ed[f] = RequestApply(@)], f, "Save", FALSE))

ReadFeature(f) ==
  /\ Environment
  /\ Idle(app) /\ app.connection # 0
  /\ UI(Submit(app, f, "Read", FALSE))

\* Recording, files, host lighting, a drag, a write that is due: no observation.
Activity ==
  /\ Environment
  /\ app.pending = None
  /\ UI([app EXCEPT !.activity = ~@])

-----------------------------------------------------------------------------
Pages == {"Lighting", "Settings"} \cup {"Other"}

Next ==
  \/ \E change \in Changes, f \in Loaded : \E value \in Values[f] : Change(change, f, value)
  \/ Unplug \/ Plug \/ ReadReport \/ Push \/ Deliver \/ Serve \/ DeviceEvent \/ Scan
  \/ Reconnect \/ Activity
  \/ \E f \in Loaded : RevertEdit(f) \/ Save(f) \/ ReadFeature(f)
  \/ \E f \in Loaded : \E value \in Values[f] : Edit(f, value)
  \/ \E page \in Pages :
       ObserveDevice(page) \/ \E past \in BOOLEAN : CompleteCommand(past, page)

\* Threads run, messages are handled and timers fire; nothing else is owed.
Fairness ==
  /\ WF_vars(ReadReport) /\ WF_vars(Push) /\ WF_vars(Deliver) /\ WF_vars(Serve)
  /\ WF_vars(DeviceEvent) /\ WF_vars(Scan)
  /\ WF_vars(\E page \in Pages : ObserveDevice(page))
  /\ WF_vars(\E past \in BOOLEAN, page \in Pages : CompleteCommand(past, page))

Spec == Init /\ [][Next]_vars /\ Fairness
=============================================================================
