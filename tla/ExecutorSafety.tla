--------------------------- MODULE ExecutorSafety ---------------------------
(***************************************************************************)
(* What the executor promises: its refinement of DeviceService, where each *)
(* request is, who holds the device, what a retirement leaves, and what    *)
(* eventually happens under the fairness of its threads.                   *)
(***************************************************************************)
EXTENDS Executor

ClientSteps ==
  {"Free", "Publishing", "Reserved", "Sending", "Dropping", "Closing", "Gone"}
WorkerSteps ==
  {"Receiving", "Pending", "Token", "Calling", "Scanning", "Reading", "HostToken", "HostStart",
   "Starting", "Hosting", "Drowsy", "Asleep", "Driving", "Ending", "Restoring", "Done"}
Service == INSTANCE DeviceService
  WITH Requests <- Ids, accepted <- 1 .. accepted

Overtaking == Payloads \X Written
RequestType == [id : Ids \cup {None}, kind : FiniteKinds \cup {"Host"}, token : Tokens]
ReplyType == [id : Ids, outcome : Service!Outcomes, stale : SUBSET Overtaking]
ScanType == [id : Ids, token : Tokens, read : 0 .. CatalogSlots, stale : SUBSET Overtaking]
\* None is no scan and no outcome.
ASSUME ApartAssumption == None \notin ScanType \cup Service!Outcomes
Reasons == {"none", "user", "device"}
EventType ==
  [kind : {"Started", "Finished"}, ticket : Tokens, problem : Reasons,
   recovery : {"none", "NotAttempted", "Unverified", "Restored"}]
MailboxType ==
  [ticket : Tokens \cup {None}, latest : Tokens \cup {None}, inputs : SUBSET {"frame", "setting"},
   stop : Reasons \cup {None}, events : Seq(EventType), closed : BOOLEAN]

\* Every variable has the type of its Rust field; both channels and the mailbox
\* stay within their capacity.
TypeOK ==
  /\ client \in ClientSteps
  /\ generation \in 0 .. MaxGeneration
  /\ published \in 0 .. MaxGeneration
  /\ catalogSubmitted \in 0 .. MaxOperation
  /\ catalogCancelled \in 0 .. catalogSubmitted
  /\ commands \in Seq(RequestType) /\ Len(commands) <= QueueSize
  /\ completions \in Seq(ReplyType) /\ Len(completions) <= 1
  /\ mailbox \in MailboxType /\ Len(mailbox.events) <= 2
  /\ pc \in WorkerSteps
  /\ current \in RequestType \cup {None}
  /\ latest \in Tokens \cup {None}
  /\ replies \in Seq(ReplyType) /\ Len(replies) <= 2
  /\ catalog \in ScanType \cup {None}
  /\ problem \in Reasons
  /\ accepted \in 0 .. MaxRequests
  /\ started \in SUBSET Ids
  /\ answer \in [Ids -> Service!Outcomes \cup {None}]
  /\ asked \in {"none", "user", None}
  /\ late \in Nat
  /\ beside \in Nat

-----------------------------------------------------------------------------
(* Finite requests. *)

\* A request answered "Rejected" (NotAttempted) has not touched the device and
\* never will; "Executed" comes from its own call; no request is answered twice.
ServiceSpec == Service!Spec

\* The request the worker has taken from the queue and not yet answered.
OnWorker == pc \in {"Pending", "Token", "Calling"}

In(queue, id) == Cardinality({i \in DOMAIN queue : queue[i].id = id})

\* How many answers to request id are still to come.
Outstanding(id) ==
  In(commands, id) + In(replies, id) + In(completions, id)
    + (IF catalog # None /\ catalog.id = id THEN 1 ELSE 0)
    + (IF OnWorker /\ current.id = id THEN 1 ELSE 0)

\* An accepted request is in exactly one place until its one answer has been
\* received: none is lost when a scan is replaced, invalidated or cancelled, and
\* none is answered by two of them.
OneAnswerComing ==
  Open => \A id \in Ids :
    Outstanding(id) = IF id <= accepted /\ answer[id] = None THEN 1 ELSE 0

\* No catalog delivered as complete was overtaken by a write that may have changed
\* macro slots during its scan, with the one exception the code makes: an archive
\* that was written does not end the scan (executor.rs:474).
ArchiveWritten == <<"Archive", "ok">>
CatalogIsCurrent ==
  \A i \in DOMAIN completions :
    completions[i].outcome = "Scanned" => completions[i].stale \subseteq {ArchiveWritten}

-----------------------------------------------------------------------------
(* Host lighting. *)

HostRuns == pc \in {"Hosting", "Drowsy", "Asleep", "Driving", "Ending", "Restoring"}

\* From the first host event until the client has received the terminal one, no
\* finite request and no scan calls the device, though the worker checks the
\* reservation before it calls and the client reserves at any time.
HostHoldsDevice == pc \in {"Calling", "Reading"} => mailbox.events = <<>>

\* A host activity is asked for, and not yet over, exactly while its request is in
\* the queue, or the worker is on it, or its terminal event waits to be received:
\* in one of these places only.  So whatever start_host reserved the client comes
\* to know the end of, and a start that was refused blocks nothing.
HostQueued == \E i \in DOMAIN commands : commands[i].kind = "Host"
OnHost == HostRuns \/ pc \in {"HostToken", "HostStart", "Starting"}

ReservationEnds ==
  /\ HostSent <=> HostQueued \/ OnHost \/ HasFinished
  /\ HostQueued => ~OnHost /\ ~HasFinished
  /\ OnHost => ~HasFinished

\* Once start_host has returned, at most one finite call still begins before the
\* host request has its turn: the one the worker had already let through.  What
\* else is queued or scanning gives way, though the worker takes it first.
HostWaitsForOneCall == beside <= 1

\* A stop that came before the host loop ended is the problem its terminal event
\* reports, whatever happened to the connection since; only a failure of the
\* device may take its place.
StopProblemSurvives ==
  \A i \in DOMAIN mailbox.events :
    LET event == mailbox.events[i]
    IN (event.recovery = "Restored" /\ asked # None) => event.problem \in {asked, "device"}

\* Once a generation has been published, or withdrawn by a disconnection or the
\* drop of the executor, at most one device call still begins for another one:
\* the call the worker had already let through.  Restoring host lighting is the
\* end of a call, not a new one.
GenerationFencesCalls == late <= 1

-----------------------------------------------------------------------------
(* What eventually happens. *)

Retired == client \in {"Dropping", "Closing", "Gone"}

\* Every accepted request is answered while the executor lives, also when host
\* lighting is started after it and never stopped.  Both sides of the property
\* are for good once they are true.
RequestsAreAnswered ==
  \A id \in Ids : []<>(accepted >= id => answer[id] # None \/ Retired)

\* A stop, a new or lost connection or the drop of the executor ends host
\* lighting: the worker is never left asleep with the keyboard in a host mode.
\* One of these reasons lasts until the host loop has restored the keyboard.
HostingEnds ==
  []<>~(HostRuns /\ (mailbox.stop # None \/ HostInvalid \/ pc \in {"Ending", "Restoring"}))

\* The worker of a dropped executor returns, so a reconnection that waits for
\* its retirement is not blocked.
RetirementFinishes == []<>(Retired => pc = "Done")
=============================================================================
