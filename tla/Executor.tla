------------------------------ MODULE Executor ------------------------------
(***************************************************************************)
(* The device executor (byakko-devices/src/executor.rs, executor/host.rs): *)
(* one client thread, one worker thread that owns the device, a bounded    *)
(* command queue, a completion channel of one, a published connection      *)
(* generation, a resumable macro catalog scan, and the host lighting       *)
(* mailbox behind a mutex and a condition variable.                        *)
(*                                                                         *)
(* The client calls are sequential (Executor is not Sync): a call that     *)
(* touches several shared cells is several steps of `client`, between      *)
(* which the worker may run.  The worker is one program counter, `pc`.     *)
(* A token <<generation, operation>> is chosen freely by the client, so    *)
(* stale and repeated tokens are submitted too.                            *)
(***************************************************************************)
EXTENDS Integers, FiniteSets, Sequences

CONSTANTS
  None,
  Kinds,          \* the kinds of request the client submits
  MaxRequests,    \* finite requests the executor accepts
  MaxGeneration,  \* connection generations the client publishes
  MaxOperation,   \* operations of a token
  CatalogSlots,   \* macro slots a catalog scan reads
  QueueSize       \* capacity of the command queue

\* A foreground request is a "Command": what it carries, one of Payloads, tells
\* nothing apart until the worker dispatches it.  "Keymap" stands for lighting,
\* pictures and settings too, "Read" for every read and the archive review.
FiniteKinds == {"Command", "Catalog"}
Payloads == {"Read", "Keymap", "Macro", "Archive"}

ASSUME KindsAssumption == Kinds \subseteq FiniteKinds \cup {"Host"}
ASSUME SizesAssumption ==
  /\ {MaxRequests, MaxGeneration, MaxOperation} \subseteq Nat
  /\ {CatalogSlots, QueueSize} \subseteq Nat \ {0}

Ids == 1 .. MaxRequests
Tokens == (0 .. MaxGeneration) \X (0 .. MaxOperation)
ASSUME NoneAssumption == None \notin Tokens \cup Ids \cup STRING

VARIABLES
  client,            \* what the client thread is in the middle of
  generation,        \* the published connection generation, 0 when there is none
  published,         \* the newest generation published so far
  catalogSubmitted,  \* newest operation of a submitted scan
  catalogCancelled,  \* scans up to this operation are cancelled
  commands,          \* the command queue
  completions,       \* the completion channel, one deep
  mailbox,           \* host lighting state shared under its mutex
  pc,                \* the worker's next step
  current,           \* the request the worker is on
  latest,            \* newest token the worker let through
  replies,           \* completions the worker has yet to send
  catalog,           \* the scan in progress
  problem,           \* why the host loop ended
  accepted,          \* finite requests accepted so far
  started,           \* requests whose first device call has begun
  answer,            \* outcomes the client received
  asked,             \* the first stop of this host activity, if it came in time
  late,              \* calls begun for another generation since the last one was published
  beside             \* finite calls begun since the host request in hand was sent

channels == <<commands, completions>>
cancellation == <<catalogSubmitted, catalogCancelled>>
connection == <<generation, published>>
clientSide == <<client, connection, cancellation>>
workerData == <<current, latest, replies, catalog, problem>>
worker == <<pc, workerData>>
history == <<accepted, started, answer, asked, late, beside>>
vars == <<client, connection, cancellation, channels, mailbox, worker, history>>

Maximum(a, b) == IF a > b THEN a ELSE b

\* Tokens are compared as Rust compares tuples.
Before(t, u) == t[1] < u[1] \/ (t[1] = u[1] /\ t[2] < u[2])
Newer(token, previous) == previous # None => Before(previous, token)

Request(id, kind, token) == [id |-> id, kind |-> kind, token |-> token]
Reply(id, outcome, stale) == [id |-> id, outcome |-> outcome, stale |-> stale]

\* The mutex is held across steps only while the worker goes to sleep on it.
Locked == pc = "Drowsy"
\* Faulty: no notification.
FaultyNotify == UNCHANGED pc
Notify == pc' = IF pc = "Asleep" THEN "Hosting" ELSE pc

Open == client # "Gone"

EmptyMailbox ==
  [ticket |-> None, latest |-> None, inputs |-> {}, stop |-> None, events |-> <<>>,
   closed |-> FALSE]

Init ==
  /\ client = "Free"
  /\ generation = 0
  /\ published = 0
  /\ catalogSubmitted = 0
  /\ catalogCancelled = 0
  /\ commands = <<>>
  /\ completions = <<>>
  /\ mailbox = EmptyMailbox
  /\ pc = "Receiving"
  /\ current = None
  /\ latest = None
  /\ replies = <<>>
  /\ catalog = None
  /\ problem = "none"
  /\ accepted = 0
  /\ started = {}
  /\ answer = [id \in Ids |-> None]
  /\ asked = None
  /\ late = 0
  /\ beside = 0
-----------------------------------------------------------------------------
(* The client's calls. *)

\* Stores a generation; the count of calls it comes too late for starts anew.
Publish(g) == generation' = g /\ late' = 0

\* set_generation: the store, and the notification that follows it.  The owner
\* publishes a newer generation on connection and zero on disconnection.
SetGeneration(g) ==
  /\ client = "Free"
  /\ g # generation
  /\ g = 0 \/ g > published
  /\ Publish(g)
  /\ published' = Maximum(published, g)
  /\ client' = "Publishing"
  /\ UNCHANGED <<cancellation, channels, mailbox, worker, accepted, started, answer, asked,
                 beside>>

\* Faulty: notifies without taking the mutex first.
FaultyCanNotify == TRUE
CanNotify == ~Locked

GenerationChanged ==
  /\ client = "Publishing"
  /\ CanNotify
  /\ Notify
  /\ client' = "Free"
  /\ UNCHANGED <<connection, cancellation, channels, mailbox, workerData, history>>

HasRoom == Len(commands) < QueueSize

\* Faulty: a reserved host activity does not stop the client from submitting.
FaultyMaySubmit == TRUE
MaySubmit == mailbox.ticket = None

\* try_submit.  `pending` changes only by the client's own calls, so the whole
\* call is one step.  A refused request is answered to the caller directly.
TrySubmit(kind, token) ==
  /\ client = "Free"
  /\ ~Locked
  /\ MaySubmit
  /\ accepted < MaxRequests
  /\ catalogSubmitted' = IF kind = "Catalog" THEN Maximum(catalogSubmitted, token[2])
                                             ELSE catalogSubmitted
  /\ IF HasRoom
       THEN /\ commands' = Append(commands, Request(accepted + 1, kind, token))
            /\ accepted' = accepted + 1
       ELSE UNCHANGED <<commands, accepted>>
  /\ UNCHANGED <<client, connection, catalogCancelled, completions, mailbox,
                 worker, started, answer, asked, late, beside>>

\* start_host: reserve, cancel_catalog, try_send.
Reserve(token) ==
  /\ client = "Free"
  /\ ~Locked
  /\ ~mailbox.closed
  /\ mailbox.ticket = None
  /\ token[1] # 0
  /\ token[1] = generation
  /\ Newer(token, mailbox.latest)
  /\ mailbox' = [mailbox EXCEPT !.latest = token, !.ticket = token, !.stop = None,
                                !.inputs = {}]
  /\ asked' = None
  /\ client' = "Reserved"
  /\ UNCHANGED <<connection, cancellation, channels, worker, accepted, started,
                 answer, late, beside>>

CancelForHost ==
  /\ client = "Reserved"
  /\ catalogCancelled' = Maximum(catalogCancelled, catalogSubmitted)
  /\ client' = "Sending"
  /\ UNCHANGED <<connection, catalogSubmitted, channels, mailbox, worker, history>>

\* Faulty: a refused send leaves the reservation behind.
FaultyUnreserved == mailbox
Unreserved == [mailbox EXCEPT !.ticket = None]

SendHost ==
  /\ client = "Sending"
  /\ \/ /\ HasRoom
        /\ commands' = Append(commands, Request(None, "Host", mailbox.ticket))
        /\ UNCHANGED mailbox
     \/ /\ ~HasRoom
        /\ ~Locked
        /\ mailbox' = Unreserved
        /\ UNCHANGED commands
  /\ client' = "Free"
  /\ beside' = 0
  /\ UNCHANGED <<connection, cancellation, completions, worker, accepted, started, answer,
                 asked, late>>

Finished(event) == event.kind = "Finished"
HasFinished == \E i \in DOMAIN mailbox.events : Finished(mailbox.events[i])

\* send_host_frame and update_host: the newest frame and setting win.
Feed(input) ==
  /\ client = "Free"
  /\ ~Locked
  /\ mailbox.ticket # None
  /\ mailbox.ticket[1] = generation
  /\ mailbox.stop = None
  /\ ~mailbox.closed
  /\ ~HasFinished
  /\ mailbox' = [mailbox EXCEPT !.inputs = @ \cup {input}]
  /\ Notify
  /\ UNCHANGED <<clientSide, channels, workerData, history>>

\* stop_host, with or without a problem to report.  Once the host loop has
\* ended for another reason a stop is too late to be its cause.
StopHost(reason) ==
  /\ client = "Free"
  /\ ~Locked
  /\ mailbox.ticket # None
  /\ mailbox.stop = None
  /\ mailbox' = [mailbox EXCEPT !.stop = reason, !.inputs = {}]
  /\ asked' = IF asked = None /\ pc \notin {"Ending", "Restoring"} /\ ~HasFinished
                THEN reason ELSE asked
  /\ Notify
  /\ UNCHANGED <<clientSide, channels, workerData, accepted, started, answer, late,
                 beside>>

\* Faulty: any event releases the reservation.
FaultyReleased(event) == [mailbox EXCEPT !.ticket = None, !.inputs = {}, !.stop = None]

\* What the mailbox becomes when `event`, its oldest, is received.
Released(event) ==
  IF Finished(event)
    THEN [mailbox EXCEPT !.ticket = None, !.inputs = {}, !.stop = None]
    ELSE mailbox

ReceiveHost ==
  /\ client = "Free"
  /\ ~Locked
  /\ mailbox.events # <<>>
  /\ mailbox' = [Released(Head(mailbox.events)) EXCEPT !.events = Tail(@)]
  /\ UNCHANGED <<clientSide, channels, worker, history>>

CancelCatalog ==
  /\ client = "Free"
  /\ catalogCancelled' = Maximum(catalogCancelled, catalogSubmitted)
  /\ UNCHANGED <<client, connection, catalogSubmitted, channels, mailbox, worker,
                 history>>

\* try_receive and receive.
Receive ==
  /\ client = "Free"
  /\ completions # <<>>
  /\ completions' = Tail(completions)
  /\ answer' = [answer EXCEPT ![Head(completions).id] = Head(completions).outcome]
  /\ UNCHANGED <<clientSide, commands, mailbox, worker,
                 accepted, started, asked, late, beside>>

\* retire and Drop: the generation, the mailbox, then both channels.
Retire ==
  /\ client = "Free"
  /\ Publish(0)
  /\ client' = "Dropping"
  /\ UNCHANGED <<published, cancellation, channels, mailbox, worker, accepted, started, answer,
                 asked, beside>>

Close ==
  /\ client = "Dropping"
  /\ ~Locked
  /\ mailbox' = [mailbox EXCEPT !.closed = TRUE]
  /\ Notify
  /\ client' = "Closing"
  /\ UNCHANGED <<connection, cancellation, channels, workerData, history>>

DropChannels ==
  /\ client = "Closing"
  /\ client' = "Gone"
  /\ completions' = <<>>
  /\ UNCHANGED <<connection, cancellation, commands, mailbox, worker, history>>
-----------------------------------------------------------------------------
(* The worker.  A send on the completion channel blocks while the channel   *)
(* is full and fails once the receiver is gone, which ends the worker.      *)

\* The request is dropped when the loop comes round.
Turn(step) ==
  /\ pc' = step
  /\ current' = IF step \in {"Receiving", "Done"} THEN None ELSE current

Deliver ==
  /\ replies # <<>>
  /\ Open
  /\ completions = <<>>
  /\ completions' = <<Head(replies)>>
  /\ replies' = Tail(replies)
  /\ UNCHANGED <<clientSide, commands, mailbox, pc, current, latest, catalog, problem, history>>

\* The cancellation of a scan for host lighting ignores a failed send.
DeliveryFails ==
  /\ replies # <<>>
  /\ ~Open
  /\ replies' = <<>>
  /\ Turn(IF pc = "HostToken" THEN pc ELSE "Done")
  /\ UNCHANGED <<clientSide, channels, mailbox, latest, catalog, problem, history>>

WorkerAt(step) == pc = step /\ replies = <<>>

Scan(id, token) == [id |-> id, token |-> token, read |-> 0, stale |-> {}]
\* Faulty: whatever was read passes for the whole catalog.
FaultyFinishScan(outcome) == Reply(catalog.id, "Scanned", catalog.stale)
FinishScan(outcome) == Reply(catalog.id, outcome, catalog.stale)
\* Faulty: the scan is dropped without an answer.
FaultyEndScan == <<>>
EndScan == IF catalog = None THEN <<>> ELSE <<FinishScan("Ended")>>

\* recv without a scan, try_recv with one; both fail on an empty closed queue.
TakeRequest ==
  /\ WorkerAt("Receiving")
  /\ commands # <<>>
  /\ current' = Head(commands)
  /\ commands' = Tail(commands)
  /\ IF Head(commands).kind = "Host"
       THEN pc' = "HostToken" /\ replies' = EndScan /\ catalog' = None
       ELSE pc' = "Pending" /\ UNCHANGED <<replies, catalog>>
  /\ UNCHANGED <<clientSide, completions, mailbox, latest, problem, history>>

QueueClosed ==
  /\ WorkerAt("Receiving")
  /\ commands = <<>>
  /\ ~Open
  /\ Turn("Done")
  /\ UNCHANGED <<clientSide, channels, mailbox, latest, replies, catalog, problem, history>>

ContinueScan ==
  /\ WorkerAt("Receiving")
  /\ commands = <<>>
  /\ Open
  /\ catalog # None
  /\ Turn("Scanning")
  /\ UNCHANGED <<clientSide, channels, mailbox, latest, replies, catalog, problem, history>>

Reject == replies' = <<Reply(current.id, "Rejected", {})>>

\* Faulty: a reserved host activity does not stop finite requests.
FaultyHostPending == FALSE
HostPending == mailbox.ticket # None

CheckPending ==
  /\ WorkerAt("Pending")
  /\ IF HostPending THEN Reject /\ Turn("Receiving")
                    ELSE Turn("Token") /\ UNCHANGED replies
  /\ UNCHANGED <<clientSide, channels, mailbox, latest, catalog, problem, history>>

\* Faulty: tokens of an old connection are let through.
FaultyFreshStale(token) == token[1] # 0 /\ Newer(token, latest)

Fresh(token) ==
  /\ token[1] # 0
  /\ token[1] = generation
  /\ Newer(token, latest)

CheckToken ==
  /\ WorkerAt("Token")
  /\ IF ~Fresh(current.token)
       THEN Reject /\ Turn("Receiving") /\ UNCHANGED <<latest, catalog>>
       ELSE /\ latest' = current.token
            /\ IF current.kind = "Catalog"
                 THEN /\ replies' = EndScan
                      /\ catalog' = Scan(current.id, current.token)
                      /\ Turn("Receiving")
                 ELSE Turn("Calling") /\ UNCHANGED <<replies, catalog>>
  /\ UNCHANGED <<clientSide, channels, mailbox, problem, history>>

\* A device call for a token begins.
Begins(token) == late' = IF token[1] # generation THEN late + 1 ELSE late
HostSent == mailbox.ticket # None /\ client \notin {"Reserved", "Sending"}
FiniteBegins(token) == Begins(token) /\ beside' = IF HostSent THEN beside + 1 ELSE beside

\* A write that returned: its setter ran, may have run, or did not run.
Written == {"ok", "uncertain", "notAttempted"}

\* Faulty: only failed writes end a scan.
FaultyInvalidatesCatalog(payload, written) == payload # "Read" /\ written = "uncertain"

\* invalidates_catalog: a macro write that ran, or any failed write that may have
\* run.  An archive that was written is no reason to end the scan.
InvalidatesCatalog(payload, written) ==
  \/ payload = "Macro" /\ written # "notAttempted"
  \/ payload \in {"Keymap", "Archive"} /\ written = "uncertain"

\* A macro or an archive whose setters ran: the macro slots may have changed.
ChangesSlots(payload, written) ==
  payload \in {"Macro", "Archive"} /\ written # "notAttempted"

\* execute, the completion and the scan it may end.  A panic in the device is an
\* uncertain write.  `stale` records the writes that changed slots under the scan.
Call ==
  /\ WorkerAt("Calling")
  /\ started' = started \cup {current.id}
  /\ FiniteBegins(current.token)
  /\ \E payload \in Payloads, written \in Written :
       IF catalog # None /\ InvalidatesCatalog(payload, written)
         THEN /\ replies' = <<Reply(current.id, "Executed", {}), FinishScan("Ended")>>
              /\ catalog' = None
         ELSE /\ replies' = <<Reply(current.id, "Executed", {})>>
              /\ catalog' = IF catalog # None /\ ChangesSlots(payload, written)
                              THEN [catalog EXCEPT !.stale = @ \cup {<<payload, written>>}]
                              ELSE catalog
  /\ Turn("Receiving")
  /\ UNCHANGED <<clientSide, channels, mailbox, latest, problem, accepted, answer, asked>>

\* One slice of the scan: it is cancelled, complete, or reads its next slot.
ScanStep ==
  /\ WorkerAt("Scanning")
  /\ LET cancelled == catalog.token[1] # generation \/ catalog.token[2] <= catalogCancelled
     IN IF cancelled \/ catalog.read = CatalogSlots
          THEN /\ replies' = <<FinishScan(IF cancelled THEN "Ended" ELSE "Scanned")>>
               /\ catalog' = None
               /\ Turn("Receiving")
          ELSE Turn("Reading") /\ UNCHANGED <<replies, catalog>>
  /\ UNCHANGED <<clientSide, channels, mailbox, latest, problem, history>>

ReadSlot ==
  /\ WorkerAt("Reading")
  /\ started' = started \cup {catalog.id}
  /\ FiniteBegins(catalog.token)
  /\ \/ catalog' = [catalog EXCEPT !.read = @ + 1] /\ UNCHANGED replies
     \/ replies' = <<FinishScan("Ended")>> /\ catalog' = None
  /\ Turn("Receiving")
  /\ UNCHANGED <<clientSide, channels, mailbox, latest, problem, accepted, answer, asked>>
-----------------------------------------------------------------------------
(* Host lighting on the worker. *)

Event(kind, recovery, why) ==
  [kind |-> kind, ticket |-> current.token, recovery |-> recovery, problem |-> why]
Emit(event) == mailbox' = [mailbox EXCEPT !.events = Append(@, event)]
Rejection == Event("Finished", "NotAttempted", "none")

CheckHostToken ==
  /\ WorkerAt("HostToken")
  /\ IF Fresh(current.token)
       THEN Turn("HostStart") /\ latest' = current.token /\ UNCHANGED mailbox
       ELSE Emit(Rejection) /\ Turn("Receiving") /\ UNCHANGED latest
  /\ UNCHANGED <<clientSide, channels, replies, catalog, problem, history>>

CheckHostGeneration ==
  /\ WorkerAt("HostStart")
  /\ IF generation = current.token[1]
       THEN Turn("Starting") /\ UNCHANGED mailbox
       ELSE Emit(Rejection) /\ Turn("Receiving")
  /\ UNCHANGED <<clientSide, channels, latest, replies, catalog, problem, history>>

\* start_host_lighting, which may fail before or after the device was touched.
StartHosting ==
  /\ WorkerAt("Starting")
  /\ Begins(current.token)
  /\ \/ Emit(Event("Started", "none", "none")) /\ Turn("Hosting")
     \/ \E recovery \in {"NotAttempted", "Unverified"} :
          Emit(Event("Finished", recovery, "none")) /\ Turn("Receiving")
  /\ UNCHANGED <<clientSide, channels, latest, replies, catalog, problem, accepted, started,
                 answer, asked, beside>>

HostInvalid == mailbox.closed \/ generation # current.token[1]

\* Faulty: a lost connection is looked at before a stop that came first.
FaultyStopFirst == mailbox.stop # None /\ ~HostInvalid
StopFirst == mailbox.stop # None

\* Under the mutex: a stop, the end of the connection, a setting, a frame, or
\* nothing, in which case the worker goes to sleep.
HostTurn ==
  /\ WorkerAt("Hosting")
  /\ CASE StopFirst -> /\ problem' = mailbox.stop
                       /\ mailbox' = [mailbox EXCEPT !.stop = None]
                       /\ Turn("Ending")
       [] ~StopFirst /\ HostInvalid -> /\ problem' = "none"
                                       /\ Turn("Ending")
                                       /\ UNCHANGED mailbox
       [] ~StopFirst /\ ~HostInvalid /\ mailbox.inputs # {} ->
            /\ mailbox' = [mailbox EXCEPT !.inputs = IF "setting" \in @ THEN @ \ {"setting"}
                                                                        ELSE {}]
            /\ Turn("Driving")
            /\ UNCHANGED problem
       [] OTHER -> Turn("Drowsy") /\ UNCHANGED <<problem, mailbox>>
  /\ UNCHANGED <<clientSide, channels, latest, replies, catalog, history>>

\* Condvar::wait gives the mutex back and waits for a notification ...
FallAsleep ==
  /\ WorkerAt("Drowsy")
  /\ Turn("Asleep")
  /\ UNCHANGED <<clientSide, channels, mailbox, latest, replies, catalog, problem, history>>

\* ... or wakes up by itself, which nothing may rely on.
WakeSpuriously ==
  /\ WorkerAt("Asleep")
  /\ Turn("Hosting")
  /\ UNCHANGED <<clientSide, channels, mailbox, latest, replies, catalog, problem, history>>

\* send_frame or update_parameters, which may fail.
Drive ==
  /\ WorkerAt("Driving")
  /\ \/ Turn("Hosting") /\ UNCHANGED problem
     \/ Turn("Ending") /\ problem' = "device"
  /\ UNCHANGED <<clientSide, channels, mailbox, latest, replies, catalog, history>>

\* The problem is stored as the stop, so that no further input is accepted.
EndHosting ==
  /\ WorkerAt("Ending")
  /\ mailbox' = [mailbox EXCEPT !.stop = problem, !.inputs = {}]
  /\ Turn("Restoring")
  /\ UNCHANGED <<clientSide, channels, latest, replies, catalog, problem, history>>

Restore ==
  /\ WorkerAt("Restoring")
  /\ Emit(Event("Finished", "Restored", problem))
  /\ problem' = "none"
  /\ Turn("Receiving")
  /\ UNCHANGED <<clientSide, channels, latest, replies, catalog, history>>
-----------------------------------------------------------------------------
(* The specification. *)

Submissions ==
  \E token \in (0 .. MaxGeneration) \X (1 .. MaxOperation) :
    \/ \E kind \in Kinds \ {"Host"} : TrySubmit(kind, token)
    \/ "Host" \in Kinds /\ Reserve(token)

HostCalls ==
  /\ "Host" \in Kinds
  /\ \/ \E input \in {"frame", "setting"} : Feed(input)
     \/ \E reason \in {"none", "user"} : StopHost(reason)
     \/ ReceiveHost

\* The rest of a client call that has begun.
ClientContinues == GenerationChanged \/ CancelForHost \/ SendHost \/ Close \/ DropChannels

Client ==
  \/ \E g \in 0 .. MaxGeneration : SetGeneration(g)
  \/ Submissions
  \/ HostCalls
  \/ CancelCatalog
  \/ Receive
  \/ Retire
  \/ ClientContinues

FiniteWork ==
  \/ Deliver \/ DeliveryFails
  \/ TakeRequest \/ QueueClosed \/ ContinueScan
  \/ CheckPending \/ CheckToken \/ Call
  \/ ScanStep \/ ReadSlot

HostWork ==
  \/ CheckHostToken \/ CheckHostGeneration \/ StartHosting
  \/ HostTurn \/ FallAsleep \/ Drive \/ EndHosting \/ Restore

Worker == FiniteWork \/ HostWork

\* The executor was dropped and its worker has returned.
Terminated == client = "Gone" /\ pc = "Done" /\ UNCHANGED vars

Next == Client \/ Worker \/ WakeSpuriously \/ Terminated

\* The worker is scheduled and its device calls return; the client finishes the
\* calls it begins and keeps receiving completions.  Nothing else is assumed: a
\* host activity may never be stopped, an event never read.
Fairness == WF_vars(Worker) /\ WF_vars(ClientContinues) /\ WF_vars(Receive)

Spec == Init /\ [][Next]_vars /\ Fairness
=============================================================================
