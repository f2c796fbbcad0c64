--------------------------- MODULE ExecutorProofs ---------------------------
(***************************************************************************)
(* The executor's safety, for any number of requests, generations, slots   *)
(* and any queue: a published generation fences the device; and, for host  *)
(* lighting, who holds the device, what a reserved activity waits for and  *)
(* which problem its end reports. Last, every accepted request is answered *)
(* at most once and truthfully, so that the executor implements            *)
(* DeviceService; that argument counts the places a request can be in.     *)
(***************************************************************************)
EXTENDS ExecutorSafety, FiniteSetTheorems, FunctionTheorems, TLAPS

(* A published generation fences the device. *)

\* When a call has begun for an older generation, the one the worker has let
\* through and not yet begun is for the published one.
FenceInv ==
  /\ late \in Nat
  /\ late <= 1
  /\ late = 1 => /\ pc \in {"Calling", "Starting"} => current.token[1] = generation
                 /\ pc = "Reading" => catalog.token[1] = generation

\* A step of the client that leaves the generation alone leaves the fence alone.
LEMMA FenceClient ==
  ASSUME FenceInv, Client
  PROVE  FenceInv'
<1>1. ASSUME NEW g \in 0 .. MaxGeneration, SetGeneration(g) PROVE FenceInv'
  BY <1>1 DEF SetGeneration, Publish, FenceInv
<1>2. ASSUME Submissions PROVE FenceInv'
  BY <1>2 DEF Submissions, TrySubmit, Reserve, FenceInv, worker, workerData, connection
<1>3. ASSUME HostCalls PROVE FenceInv'
  BY <1>3 DEF HostCalls, Feed, StopHost, ReceiveHost, FenceInv, Notify, worker, workerData,
              clientSide, connection, history
<1>4. ASSUME CancelCatalog \/ Receive \/ Retire PROVE FenceInv'
  BY <1>4 DEF CancelCatalog, Receive, Retire, Publish, FenceInv, worker, workerData,
              clientSide, connection, history
<1>5. ASSUME ClientContinues PROVE FenceInv'
  BY <1>5 DEF ClientContinues, GenerationChanged, CancelForHost, SendHost, Close,
              DropChannels, FenceInv, Notify, worker, workerData, connection, history
<1> QED BY <1>1, <1>2, <1>3, <1>4, <1>5 DEF Client

\* The worker lets a call through for the published generation, and a call that
\* begins is no longer let through.
LEMMA FenceWorker ==
  ASSUME FenceInv, Worker \/ WakeSpuriously
  PROVE  FenceInv'
<1> USE DEF FenceInv, Turn, WorkerAt, worker, workerData, clientSide, connection, history
<1>1. ASSUME Deliver \/ DeliveryFails \/ TakeRequest \/ QueueClosed \/ ContinueScan \/ CheckPending
      PROVE  FenceInv'
  BY <1>1 DEF Deliver, DeliveryFails, TakeRequest, QueueClosed, ContinueScan, CheckPending
<1>2. ASSUME CheckToken PROVE FenceInv'
  BY <1>2 DEF CheckToken, Fresh
<1>3. ASSUME Call PROVE FenceInv'
  BY <1>3 DEF Call, FiniteBegins, Begins
<1>4. ASSUME ScanStep PROVE FenceInv'
  BY <1>4 DEF ScanStep
<1>5. ASSUME ReadSlot PROVE FenceInv'
  BY <1>5 DEF ReadSlot, FiniteBegins, Begins
<1>6. ASSUME CheckHostToken \/ CheckHostGeneration PROVE FenceInv'
  BY <1>6 DEF CheckHostToken, CheckHostGeneration
<1>7. ASSUME StartHosting PROVE FenceInv'
  BY <1>7 DEF StartHosting, Begins
<1>8. ASSUME HostTurn PROVE FenceInv'
  BY <1>8 DEF HostTurn
<1>9. ASSUME FallAsleep \/ Drive \/ EndHosting \/ Restore \/ WakeSpuriously PROVE FenceInv'
  BY <1>9 DEF FallAsleep, Drive, EndHosting, Restore, WakeSpuriously
<1> QED BY <1>1, <1>2, <1>3, <1>4, <1>5, <1>6, <1>7, <1>8, <1>9
        DEF Worker, FiniteWork, HostWork

\* Once a generation has been replaced, at most one device call still begins for
\* it: the one the worker had already let through (executor.rs, the check of the
\* token and the one of a scan).
THEOREM GenerationFences == Spec => []GenerationFencesCalls
<1>1. Init => FenceInv
  BY DEF Init, FenceInv
<1>2. FenceInv /\ [Next]_vars => FenceInv'
  <2>1. ASSUME FenceInv, UNCHANGED vars PROVE FenceInv'
    BY <2>1 DEF FenceInv, vars, worker, workerData, connection, history
  <2> QED BY <2>1, FenceClient, FenceWorker DEF Next, Terminated
<1>3. FenceInv => GenerationFencesCalls
  BY DEF FenceInv, GenerationFencesCalls
<1> QED BY <1>1, <1>2, <1>3, PTL DEF Spec
-----------------------------------------------------------------------------
(* Types. *)

\* The worker is on a request that it has taken from the queue.
FiniteSteps == {"Pending", "Token", "Calling"}
HostSteps ==
  {"HostToken", "HostStart", "Starting", "Hosting", "Drowsy", "Asleep", "Driving", "Ending",
   "Restoring"}

Typed ==
  /\ commands \in Seq(RequestType)
  /\ completions \in Seq(ReplyType)
  /\ mailbox \in MailboxType
  /\ pc \in WorkerSteps
  /\ current \in RequestType \cup {None}
  /\ replies \in Seq(ReplyType)
  /\ catalog \in ScanType \cup {None}
  /\ problem \in Reasons
  /\ catalogSubmitted \in Nat
  /\ catalogCancelled \in Nat
  /\ accepted \in Nat
  /\ beside \in Nat

\* What each step of the worker works on.
Engaged ==
  /\ pc \in FiniteSteps => current \in RequestType /\ current.kind # "Host" /\ current.id \in Ids
  /\ pc \in HostSteps => current \in RequestType /\ current.kind = "Host"
  /\ pc \in {"Scanning", "Reading"} => catalog \in ScanType /\ catalog # None
  /\ pc = "Reading" => catalog.read < CatalogSlots
  /\ \A i \in DOMAIN commands : commands[i].kind # "Host" => commands[i].id \in Ids
  /\ client \in {"Reserved", "Sending"} => mailbox.ticket # None
  /\ replies # <<>> => pc \in {"Receiving", "HostToken"}

TypeInv == Typed /\ Engaged

\* None is no token, no request and no name of a reason.
LEMMA NoneApart ==
  /\ None \notin Tokens
  /\ None \notin Ids
  /\ None \notin STRING
  BY NoneAssumption

\* Short sequences.
LEMMA Listed ==
  ASSUME NEW S, NEW a \in S
  PROVE  /\ <<a>> \in Seq(S)
         /\ \A b \in S : <<a, b>> \in Seq(S)
  OBVIOUS

\* What Append leaves in a queue.
LEMMA Appended ==
  ASSUME NEW S, NEW q \in Seq(S), NEW e \in S
  PROVE  /\ Append(q, e) \in Seq(S)
         /\ Len(Append(q, e)) = Len(q) + 1
         /\ Append(q, e)[Len(q) + 1] = e
         /\ \A i \in DOMAIN Append(q, e) :
              \/ Append(q, e)[i] = e /\ i = Len(q) + 1
              \/ i \in DOMAIN q /\ Append(q, e)[i] = q[i]
  OBVIOUS

\* What is at the head of a queue and behind it.
LEMMA Dequeued ==
  ASSUME NEW S, NEW q \in Seq(S), q # <<>>
  PROVE  /\ 1 \in DOMAIN q
         /\ Head(q) = q[1]
         /\ Head(q) \in S
         /\ Tail(q) \in Seq(S)
         /\ Len(Tail(q)) = Len(q) - 1
         /\ \A i \in DOMAIN Tail(q) :
              i + 1 \in DOMAIN q /\ Tail(q)[i] = q[i + 1]
  OBVIOUS

\* The calls of the client keep the types.
LEMMA TypesClient ==
  ASSUME TypeInv, Client
  PROVE  TypeInv'
<1> USE DEF TypeInv, Typed
<1>1. ASSUME NEW g \in 0 .. MaxGeneration, SetGeneration(g) PROVE TypeInv'
  BY <1>1 DEF SetGeneration, Engaged, channels, worker, workerData, cancellation
<1>2. ASSUME NEW token \in (0 .. MaxGeneration) \X (1 .. MaxOperation),
             NEW kind \in Kinds \ {"Host"}, TrySubmit(kind, token)
      PROVE  TypeInv'
  <2>1. /\ token \in Tokens
        /\ token[2] \in Nat
        /\ kind \in FiniteKinds
    BY SizesAssumption, KindsAssumption DEF Tokens
  <2>2. catalogSubmitted' \in Nat
    BY <1>2, <2>1 DEF TrySubmit, Maximum
  <2>3. CASE HasRoom
    <3> DEFINE r == Request(accepted + 1, kind, token)
    <3>1. r \in RequestType /\ r.id \in Ids
      BY <1>2, <2>1, SizesAssumption DEF TrySubmit, Request, RequestType, Ids
    <3>2. commands' = Append(commands, r) /\ accepted' = accepted + 1
      BY <1>2, <2>3 DEF TrySubmit
    <3> HIDE DEF r
    <3>3. /\ commands' \in Seq(RequestType)
          /\ \A i \in DOMAIN commands' :
               \/ commands'[i] = r
               \/ i \in DOMAIN commands /\ commands'[i] = commands[i]
      BY <3>1, <3>2, Appended
    <3> QED BY <1>2, <2>2, <3>1, <3>2, <3>3 DEF TrySubmit, Engaged, worker, workerData
  <2>4. CASE ~HasRoom
    BY <1>2, <2>2, <2>4 DEF TrySubmit, Engaged, worker, workerData
  <2> QED BY <2>3, <2>4
<1>3. ASSUME NEW token \in (0 .. MaxGeneration) \X (1 .. MaxOperation), Reserve(token)
      PROVE  TypeInv'
  <2>1. token \in Tokens
    BY SizesAssumption DEF Tokens
  <2>2. mailbox' \in MailboxType /\ mailbox'.ticket # None
    BY <1>3, <2>1, NoneApart DEF Reserve, MailboxType
  <2> QED BY <1>3, <2>2 DEF Reserve, Engaged, channels, worker, workerData, cancellation
<1>4. ASSUME NEW input \in {"frame", "setting"}, Feed(input) PROVE TypeInv'
  <2>1. mailbox' \in MailboxType /\ mailbox'.ticket = mailbox.ticket
    BY <1>4 DEF Feed, MailboxType
  <2> QED BY <1>4, <2>1 DEF Feed, Notify, Engaged, WorkerSteps, HostSteps, FiniteSteps, channels,
                            workerData, clientSide, cancellation, history
<1>5. ASSUME NEW reason \in {"none", "user"}, StopHost(reason) PROVE TypeInv'
  <2>1. mailbox' \in MailboxType /\ mailbox'.ticket = mailbox.ticket
    BY <1>5 DEF StopHost, MailboxType, Reasons
  <2> QED BY <1>5, <2>1 DEF StopHost, Notify, Engaged, WorkerSteps, HostSteps, FiniteSteps,
                            channels, workerData, clientSide, cancellation
<1>6. ASSUME ReceiveHost PROVE TypeInv'
  <2>1. Tail(mailbox.events) \in Seq(EventType)
    BY <1>6 DEF ReceiveHost, MailboxType
  <2>2. mailbox' \in MailboxType
    BY <1>6, <2>1 DEF ReceiveHost, Released, MailboxType
  <2> QED BY <1>6, <2>2 DEF ReceiveHost, Engaged, channels, worker, workerData, clientSide,
                            cancellation, history
<1>7. ASSUME CancelCatalog \/ CancelForHost PROVE TypeInv'
  BY <1>7 DEF CancelCatalog, CancelForHost, Maximum, Engaged, channels, worker, workerData, history
<1>8. ASSUME Receive PROVE TypeInv'
  BY <1>8 DEF Receive, Engaged, worker, workerData, clientSide, cancellation
<1>9. ASSUME Retire PROVE TypeInv'
  BY <1>9 DEF Retire, Engaged, worker, workerData, channels, cancellation
<1>10. ASSUME GenerationChanged \/ Close PROVE TypeInv'
  <2>1. mailbox' \in MailboxType /\ mailbox'.ticket = mailbox.ticket
    BY <1>10 DEF GenerationChanged, Close, MailboxType
  <2> QED BY <1>10, <2>1 DEF GenerationChanged, Close, Notify, Engaged, WorkerSteps, HostSteps,
                             FiniteSteps, channels, workerData, cancellation, history
<1>11. ASSUME SendHost PROVE TypeInv'
  <2>1. CASE HasRoom /\ commands' = Append(commands, Request(None, "Host", mailbox.ticket))
                     /\ UNCHANGED mailbox
    <3> DEFINE r == Request(None, "Host", mailbox.ticket)
    <3>1. mailbox.ticket \in Tokens
      BY <1>11 DEF SendHost, Engaged, MailboxType
    <3>2. r \in RequestType /\ r.kind = "Host"
      BY <3>1 DEF Request, RequestType
    <3> HIDE DEF r
    <3>3. /\ commands' \in Seq(RequestType)
          /\ \A i \in DOMAIN commands' :
               \/ commands'[i] = r
               \/ i \in DOMAIN commands /\ commands'[i] = commands[i]
      BY <2>1, <3>2, Appended DEF r
    <3> QED BY <1>11, <2>1, <3>2, <3>3 DEF SendHost, Engaged, worker, workerData, cancellation
  <2>2. CASE UNCHANGED commands /\ mailbox' = [mailbox EXCEPT !.ticket = None]
    BY <1>11, <2>2 DEF SendHost, Engaged, MailboxType, worker, workerData, cancellation
  <2> QED BY <1>11, <2>1, <2>2 DEF SendHost, Unreserved
<1>12. ASSUME DropChannels PROVE TypeInv'
  BY <1>12 DEF DropChannels, Engaged, worker, workerData, cancellation, history
<1> QED BY <1>1, <1>2, <1>3, <1>4, <1>5, <1>6, <1>7, <1>8, <1>9, <1>10, <1>11, <1>12
        DEF Client, Submissions, HostCalls, ClientContinues

\* The scan in progress after an archive was written under it.
Overtaken == [catalog EXCEPT !.stale = @ \cup {ArchiveWritten}]

\* A call ends the scan, or leaves it, or overtakes it with an archive.
LEMMA CallCases ==
  ASSUME Call
  PROVE  \/ /\ catalog # None /\ catalog' = None
            /\ replies' = <<Reply(current.id, "Executed", {}), FinishScan("Ended")>>
         \/ /\ replies' = <<Reply(current.id, "Executed", {})>>
            /\ catalog' = catalog \/ (catalog # None /\ catalog' = Overtaken)
<1>1. ASSUME NEW payload \in Payloads, NEW written \in Written,
             ~InvalidatesCatalog(payload, written), ChangesSlots(payload, written)
      PROVE  <<payload, written>> = ArchiveWritten
  BY <1>1 DEF InvalidatesCatalog, ChangesSlots, Payloads, Written, ArchiveWritten
<1> QED BY <1>1 DEF Call, Overtaken

\* It is the same scan otherwise.
LEMMA OvertakenFacts ==
  ASSUME catalog \in ScanType
  PROVE  /\ Overtaken \in ScanType /\ Overtaken # None
         /\ Overtaken.id = catalog.id /\ Overtaken.read = catalog.read
         /\ Overtaken.stale = catalog.stale \cup {ArchiveWritten}
<1>1. ArchiveWritten \in Overtaking
  BY DEF ArchiveWritten, Overtaking, Payloads, Written
<1>2. Overtaken \in ScanType
  BY <1>1 DEF Overtaken, ScanType
<1> QED BY <1>2, ApartAssumption DEF Overtaken, ScanType

\* The steps of the worker keep the types.
LEMMA TypesWorker ==
  ASSUME TypeInv, Worker \/ WakeSpuriously
  PROVE  TypeInv'
<1> USE DEF TypeInv, Typed, Turn, WorkerAt, FiniteSteps, HostSteps, WorkerSteps, workerData,
            clientSide, cancellation, channels, history
<1>1. ASSUME NEW id \in Ids, NEW outcome \in Service!Outcomes, NEW stale \in SUBSET Overtaking
      PROVE  Reply(id, outcome, stale) \in ReplyType
  BY DEF Reply, ReplyType
<1>2. ASSUME NEW outcome \in Service!Outcomes, catalog # None
      PROVE  FinishScan(outcome) \in ReplyType
  <2>1. catalog.id \in Ids /\ catalog.stale \in SUBSET Overtaking
    BY <1>2 DEF ScanType
  <2> QED BY <1>1, <2>1 DEF FinishScan
<1>3. EndScan \in Seq(ReplyType)
  <2>1. CASE catalog = None
    BY <2>1 DEF EndScan
  <2>2. CASE catalog # None
    <3>1. FinishScan("Ended") \in ReplyType
      BY <1>2, <2>2 DEF Service!Outcomes
    <3>2. EndScan = <<FinishScan("Ended")>>
      BY <2>2 DEF EndScan
    <3> HIDE DEF ReplyType
    <3> QED BY <3>1, <3>2
  <2> QED BY <2>1, <2>2
<1>4. ASSUME pc \in FiniteSteps, Reject PROVE replies' \in Seq(ReplyType)
  <2>1. Reply(current.id, "Rejected", {}) \in ReplyType
    BY <1>1, <1>4 DEF Engaged, Service!Outcomes
  <2> QED BY <1>4, <2>1, Listed DEF Reject
<1>5. ASSUME Deliver PROVE TypeInv'
  <2>1. <<Head(replies)>> \in Seq(ReplyType) /\ Tail(replies) \in Seq(ReplyType)
    BY <1>5, Dequeued DEF Deliver
  <2> QED BY <1>5, <2>1 DEF Deliver, Engaged
<1>6. ASSUME DeliveryFails PROVE TypeInv'
  BY <1>6 DEF DeliveryFails, Engaged
<1>7. ASSUME TakeRequest PROVE TypeInv'
  <2>1. /\ Head(commands) \in RequestType
        /\ Head(commands).kind # "Host" => Head(commands).id \in Ids
        /\ Tail(commands) \in Seq(RequestType)
        /\ \A i \in DOMAIN Tail(commands) :
             i + 1 \in DOMAIN commands /\ Tail(commands)[i] = commands[i + 1]
    BY <1>7, Dequeued DEF TakeRequest, Engaged
  <2>2. CASE Head(commands).kind = "Host"
    BY <1>3, <1>7, <2>1, <2>2 DEF TakeRequest, Engaged
  <2>3. CASE Head(commands).kind # "Host"
    BY <1>7, <2>1, <2>3 DEF TakeRequest, Engaged
  <2> QED BY <2>2, <2>3
<1>8. ASSUME QueueClosed \/ ContinueScan PROVE TypeInv'
  BY <1>8 DEF QueueClosed, ContinueScan, Engaged
<1>9. ASSUME CheckPending PROVE TypeInv'
  <2>1. CASE HostPending
    BY <1>9, <1>4, <2>1 DEF CheckPending, Engaged
  <2>2. CASE ~HostPending
    BY <1>9, <2>2 DEF CheckPending, Engaged
  <2> QED BY <2>1, <2>2
<1>10. ASSUME CheckToken PROVE TypeInv'
  <2>1. CASE ~Fresh(current.token)
    BY <1>10, <1>4, <2>1 DEF CheckToken, Engaged
  <2>2. CASE Fresh(current.token) /\ current.kind = "Catalog"
    <3>1. Scan(current.id, current.token) \in ScanType
      BY <1>10, SizesAssumption DEF CheckToken, Engaged, Scan, ScanType, RequestType
    <3> QED BY <1>3, <1>10, <2>2, <3>1 DEF CheckToken, Engaged
  <2>3. CASE Fresh(current.token) /\ current.kind # "Catalog"
    BY <1>10, <2>3 DEF CheckToken, Engaged
  <2> QED BY <2>1, <2>2, <2>3
<1>11. ASSUME Call PROVE TypeInv'
  <2>1. Reply(current.id, "Executed", {}) \in ReplyType
    BY <1>1, <1>11 DEF Call, Engaged, Service!Outcomes
  <2>2. beside' \in Nat
    BY <1>11 DEF Call, FiniteBegins
  <2>3. \/ /\ catalog # None /\ catalog' = None
           /\ replies' = <<Reply(current.id, "Executed", {}), FinishScan("Ended")>>
        \/ /\ replies' = <<Reply(current.id, "Executed", {})>>
           /\ catalog' = catalog \/ (catalog # None /\ catalog' = Overtaken)
    BY <1>11, CallCases
  <2>4. replies' \in Seq(ReplyType)
    <3>1. CASE replies' = <<Reply(current.id, "Executed", {})>>
      BY <2>1, <3>1, Listed
    <3>2. CASE catalog # None
               /\ replies' = <<Reply(current.id, "Executed", {}), FinishScan("Ended")>>
      <4>1. FinishScan("Ended") \in ReplyType
        BY <1>2, <3>2 DEF Service!Outcomes
      <4> QED BY <2>1, <3>2, <4>1, Listed
    <3> QED BY <2>3, <3>1, <3>2
  <2>5. catalog' \in ScanType \cup {None}
    BY <2>3, OvertakenFacts
  <2> QED BY <1>11, <2>2, <2>4, <2>5 DEF Call, Engaged
<1>12. ASSUME ScanStep PROVE TypeInv'
  <2>1. catalog \in ScanType /\ catalog # None /\ catalog.read \in 0 .. CatalogSlots
    BY <1>12 DEF ScanStep, Engaged, ScanType
  <2>2. CASE /\ catalog' = None
             /\ \E outcome \in Service!Outcomes : replies' = <<FinishScan(outcome)>>
             /\ Turn("Receiving")
    <3>1. replies' \in Seq(ReplyType)
      BY <1>2, <2>1, <2>2
    <3> QED BY <1>12, <2>2, <3>1 DEF ScanStep, Engaged
  <2>3. CASE pc' = "Reading" /\ UNCHANGED <<replies, catalog>> /\ catalog.read # CatalogSlots
    BY <1>12, <2>1, <2>3, SizesAssumption DEF ScanStep, Engaged
  <2> QED BY <1>12, <2>2, <2>3 DEF ScanStep, Service!Outcomes
<1>13. ASSUME ReadSlot PROVE TypeInv'
  <2>1. catalog \in ScanType /\ catalog.read < CatalogSlots
    BY <1>13 DEF ReadSlot, Engaged
  <2>2. beside' \in Nat
    BY <1>13 DEF ReadSlot, FiniteBegins
  <2>3. CASE catalog' = [catalog EXCEPT !.read = @ + 1] /\ UNCHANGED replies
    <3>1. catalog.read + 1 \in 0 .. CatalogSlots
      BY <2>1, SizesAssumption DEF ScanType
    <3>2. catalog' \in ScanType
      BY <2>1, <2>3, <3>1 DEF ScanType
    <3> QED BY <1>13, <2>2, <2>3, <3>2 DEF ReadSlot, Engaged
  <2>4. CASE replies' = <<FinishScan("Ended")>> /\ catalog' = None
    <3>1. FinishScan("Ended") \in ReplyType
      BY <2>1, <1>1 DEF FinishScan, ScanType, Service!Outcomes
    <3> QED BY <1>13, <2>2, <2>4, <3>1 DEF ReadSlot, Engaged
  <2> QED BY <1>13, <2>3, <2>4 DEF ReadSlot
<1>14. ASSUME NEW event \in EventType, Emit(event)
       PROVE  mailbox' \in MailboxType /\ mailbox'.ticket = mailbox.ticket
  <2>1. Append(mailbox.events, event) \in Seq(EventType)
    BY DEF MailboxType
  <2> QED BY <1>14, <2>1 DEF Emit, MailboxType
<1>15. ASSUME pc \in HostSteps, NEW kind \in {"Started", "Finished"}, NEW why \in Reasons,
              NEW recovery \in {"none", "NotAttempted", "Unverified", "Restored"}
       PROVE  Event(kind, recovery, why) \in EventType
  BY <1>15 DEF Event, EventType, Engaged, RequestType
<1>16. ASSUME CheckHostToken \/ CheckHostGeneration PROVE TypeInv'
  <2>1. CASE Emit(Rejection)
    <3>1. Rejection \in EventType
      BY <1>15, <1>16 DEF CheckHostToken, CheckHostGeneration, Rejection, Reasons
    <3>2. mailbox' \in MailboxType /\ mailbox'.ticket = mailbox.ticket
      BY <1>14, <2>1, <3>1
    <3> QED BY <1>16, <3>2 DEF CheckHostToken, CheckHostGeneration, Engaged
  <2>2. CASE UNCHANGED mailbox
    BY <1>16, <2>2 DEF CheckHostToken, CheckHostGeneration, Engaged
  <2> QED BY <1>16, <2>1, <2>2 DEF CheckHostToken, CheckHostGeneration
<1>17. ASSUME StartHosting PROVE TypeInv'
  <2>1. \E event \in EventType : Emit(event)
    BY <1>15, <1>17 DEF StartHosting, Reasons
  <2>2. mailbox' \in MailboxType /\ mailbox'.ticket = mailbox.ticket
    BY <1>14, <2>1
  <2> QED BY <1>17, <2>2 DEF StartHosting, Engaged
<1>18. ASSUME HostTurn PROVE TypeInv'
  <2>1. CASE StopFirst
    <3>1. mailbox.stop \in Reasons
      BY <2>1 DEF StopFirst, MailboxType
    <3>2. mailbox' \in MailboxType /\ mailbox'.ticket = mailbox.ticket
      BY <1>18, <2>1 DEF HostTurn, StopFirst, MailboxType
    <3>3. /\ problem' \in Reasons /\ WorkerAt("Hosting") /\ Turn("Ending")
          /\ UNCHANGED <<clientSide, channels, latest, replies, catalog, history>>
      BY <1>18, <2>1, <3>1 DEF HostTurn, StopFirst
    <3> QED BY <3>2, <3>3 DEF Engaged
  <2>2. CASE ~StopFirst /\ HostInvalid
    BY <1>18, <2>2 DEF HostTurn, Engaged, Reasons
  <2>3. CASE ~StopFirst /\ ~HostInvalid /\ mailbox.inputs # {}
    <3>1. PICK inputs \in SUBSET {"frame", "setting"} : mailbox' = [mailbox EXCEPT !.inputs = inputs]
      BY <1>18, <2>3 DEF HostTurn, MailboxType
    <3> QED BY <1>18, <2>3, <3>1 DEF HostTurn, Engaged, MailboxType
  <2>4. CASE ~StopFirst /\ ~HostInvalid /\ mailbox.inputs = {}
    BY <1>18, <2>4 DEF HostTurn, Engaged
  <2> QED BY <2>1, <2>2, <2>3, <2>4
<1>19. ASSUME FallAsleep \/ WakeSpuriously \/ Drive PROVE TypeInv'
  BY <1>19 DEF FallAsleep, WakeSpuriously, Drive, Engaged, Reasons
<1>20. ASSUME EndHosting PROVE TypeInv'
  BY <1>20 DEF EndHosting, Engaged, MailboxType
<1>21. ASSUME Restore PROVE TypeInv'
  <2>1. \E event \in EventType : Emit(event)
    BY <1>15, <1>21 DEF Restore
  <2>2. mailbox' \in MailboxType /\ mailbox'.ticket = mailbox.ticket
    BY <1>14, <2>1
  <2> QED BY <1>21, <2>2 DEF Restore, Engaged, Reasons
<1> QED BY <1>5, <1>6, <1>7, <1>8, <1>9, <1>10, <1>11, <1>12, <1>13, <1>16, <1>17, <1>18, <1>19,
           <1>20, <1>21
        DEF Worker, FiniteWork, HostWork
\* The types hold in every state of the executor.
LEMMA TypeInvariant == Spec => []TypeInv
<1>1. Init => TypeInv
  BY SizesAssumption, NoneApart
     DEF Init, TypeInv, Typed, Engaged, EmptyMailbox, MailboxType, WorkerSteps, FiniteSteps,
         HostSteps, Reasons
<1>2. TypeInv /\ [Next]_vars => TypeInv'
  <2>1. ASSUME TypeInv, UNCHANGED vars PROVE TypeInv'
    BY <2>1 DEF TypeInv, Typed, Engaged, vars, channels, cancellation, worker, workerData, history
  <2> QED BY <2>1, TypesClient, TypesWorker DEF Next, Terminated
<1> QED BY <1>1, <1>2, PTL DEF Spec
-----------------------------------------------------------------------------
(* Host lighting. *)

\* A host activity is in one place: in the queue, on the worker, or in the events
\* the client has yet to receive, its terminal event last.  It is reserved in all
\* of them, and once it has left the queue no finite request gets past the check
\* of the reservation and no scan exists.
HostInv ==
  /\ HostQueued \/ pc \in HostSteps \/ mailbox.events # <<>> => HostSent
  /\ HostSent => HostQueued \/ pc \in HostSteps \/ HasFinished
  /\ HostSent /\ ~HostQueued =>
       /\ pc \in {"Receiving", "Pending", "Done"} \cup HostSteps
       /\ catalog = None
  /\ HostQueued => pc \notin HostSteps /\ mailbox.events = <<>>
  /\ \A i, j \in DOMAIN commands :
       commands[i].kind = "Host" /\ commands[j].kind = "Host" => i = j
  /\ pc \in HostSteps => ~HasFinished
  /\ \A i \in DOMAIN mailbox.events : Finished(mailbox.events[i]) => i = Len(mailbox.events)

\* What does not move the host activity.
LEMMA HostStays ==
  ASSUME HostInv, UNCHANGED <<commands, mailbox, catalog>>,
         pc' = pc \/ (pc' = "Hosting" /\ pc = "Asleep"),
         client \in {"Reserved", "Sending"} <=> client' \in {"Reserved", "Sending"}
  PROVE  HostInv'
  BY DEF HostInv, HostSent, HostQueued, HostSteps, HasFinished

\* The calls of the client keep a host activity in one place.
LEMMA HostClient ==
  ASSUME TypeInv, HostInv, Client
  PROVE  HostInv'
<1> USE DEF HostInv, HostSent, HasFinished
<1>1. ASSUME NEW g \in 0 .. MaxGeneration, SetGeneration(g) PROVE HostInv'
  BY HostStays, <1>1 DEF SetGeneration, channels, worker, workerData
<1>2. ASSUME NEW token \in (0 .. MaxGeneration) \X (1 .. MaxOperation),
             NEW kind \in Kinds \ {"Host"}, TrySubmit(kind, token)
      PROVE  HostInv'
  <2>1. CASE HasRoom
    <3> DEFINE r == Request(accepted + 1, kind, token)
    <3>1. r \in RequestType /\ r.kind # "Host"
      <4>1. token \in Tokens /\ kind \in FiniteKinds
        BY SizesAssumption, KindsAssumption DEF Tokens
      <4> QED BY <1>2, <4>1, SizesAssumption DEF TypeInv, Typed, TrySubmit, Request, RequestType, Ids
    <3>2. commands' = Append(commands, r)
      BY <1>2, <2>1 DEF TrySubmit
    <3> HIDE DEF r
    <3>3. \A i \in DOMAIN commands' :
            \/ commands'[i] = r /\ i = Len(commands) + 1
            \/ i \in DOMAIN commands /\ commands'[i] = commands[i]
      BY <3>1, <3>2, Appended DEF TypeInv, Typed
    <3>4. \A i \in DOMAIN commands : i \in DOMAIN commands' /\ commands'[i] = commands[i]
      BY <3>1, <3>2 DEF TypeInv, Typed
    <3>5. HostQueued' <=> HostQueued
      BY <3>1, <3>3, <3>4 DEF HostQueued
    <3> QED BY <1>2, <3>1, <3>3, <3>5 DEF TrySubmit, worker, workerData
  <2>2. CASE ~HasRoom
    BY HostStays, <1>2, <2>2 DEF TrySubmit, worker, workerData
  <2> QED BY <2>1, <2>2
<1>3. ASSUME NEW token \in (0 .. MaxGeneration) \X (1 .. MaxOperation), Reserve(token)
      PROVE  HostInv'
  BY <1>3 DEF Reserve, HostQueued, TypeInv, Typed, MailboxType, channels, worker, workerData
<1>4. ASSUME NEW input \in {"frame", "setting"}, Feed(input) PROVE HostInv'
  BY <1>4 DEF Feed, Notify, HostQueued, HostSteps, TypeInv, Typed, MailboxType, channels,
              workerData, clientSide
<1>5. ASSUME NEW reason \in {"none", "user"}, StopHost(reason) PROVE HostInv'
  BY <1>5 DEF StopHost, Notify, HostQueued, HostSteps, TypeInv, Typed, MailboxType, channels,
              workerData, clientSide
<1>6. ASSUME ReceiveHost PROVE HostInv'
  <2> DEFINE event == Head(mailbox.events)
  <2>1. /\ 1 \in DOMAIN mailbox.events
        /\ event = mailbox.events[1]
        /\ Tail(mailbox.events) \in Seq(EventType)
        /\ Len(Tail(mailbox.events)) = Len(mailbox.events) - 1
        /\ \A i \in DOMAIN Tail(mailbox.events) :
             i + 1 \in DOMAIN mailbox.events /\ Tail(mailbox.events)[i] = mailbox.events[i + 1]
    BY <1>6, Dequeued DEF ReceiveHost, TypeInv, Typed, MailboxType
  <2>2. mailbox'.events = Tail(mailbox.events)
    BY <1>6 DEF ReceiveHost, Released, TypeInv, Typed, MailboxType
  <2>3. CASE Finished(event)
    <3>1. Len(mailbox.events) = 1
      BY <2>1, <2>3
    <3>2. mailbox'.events = <<>>
      BY <2>1, <2>2, <3>1
    <3> QED BY <1>6, <2>1, <2>3, <3>2
            DEF ReceiveHost, Released, HostQueued, TypeInv, Typed, MailboxType, channels, worker,
                workerData, clientSide
  <2>4. CASE ~Finished(event)
    <3>1. mailbox'.ticket = mailbox.ticket
      BY <1>6, <2>4 DEF ReceiveHost, Released, TypeInv, Typed, MailboxType
    <3>2. HostSent /\ ~HostQueued
      BY <1>6 DEF ReceiveHost
    <3>3. \A i \in DOMAIN mailbox'.events :
            Finished(mailbox'.events[i]) => i = Len(mailbox'.events)
      BY <2>1, <2>2
    <3>4. pc \in HostSteps => ~HasFinished'
      BY <2>1, <2>2
    <3>5. HasFinished => HasFinished'
      <4>1. ASSUME NEW i \in DOMAIN mailbox.events, Finished(mailbox.events[i])
            PROVE  HasFinished'
        <5>1. i \in 1 .. Len(mailbox.events) /\ Len(mailbox.events) \in Nat /\ i # 1
          BY <2>1, <2>4, <4>1 DEF TypeInv, Typed, MailboxType
        <5>2. i - 1 \in DOMAIN mailbox'.events /\ mailbox'.events[i - 1] = mailbox.events[i]
          BY <2>1, <2>2, <5>1
        <5> QED BY <4>1, <5>2
      <4> QED BY <4>1
    <3> QED BY <1>6, <3>1, <3>2, <3>3, <3>4, <3>5
            DEF ReceiveHost, HostQueued, channels, worker, workerData, clientSide
  <2> QED BY <2>3, <2>4
<1>7. ASSUME CancelCatalog \/ CancelForHost PROVE HostInv'
  BY HostStays, <1>7 DEF CancelCatalog, CancelForHost, channels, worker, workerData
<1>8. ASSUME Receive \/ Retire \/ DropChannels PROVE HostInv'
  BY HostStays, <1>8 DEF Receive, Retire, DropChannels, clientSide, channels, worker, workerData
<1>9. ASSUME GenerationChanged PROVE HostInv'
  BY HostStays, <1>9 DEF GenerationChanged, Notify, channels, workerData
<1>10. ASSUME Close PROVE HostInv'
  BY <1>10 DEF Close, Notify, HostQueued, HostSteps, TypeInv, Typed, MailboxType, channels,
               workerData
<1>11. ASSUME SendHost PROVE HostInv'
  <2>1. ~HostQueued /\ pc \notin HostSteps /\ mailbox.events = <<>>
    BY <1>11 DEF SendHost
  <2>2. CASE HasRoom /\ commands' = Append(commands, Request(None, "Host", mailbox.ticket))
                     /\ UNCHANGED mailbox
    <3> DEFINE r == Request(None, "Host", mailbox.ticket)
    <3>1. mailbox.ticket \in Tokens /\ mailbox.ticket # None
      BY <1>11 DEF SendHost, TypeInv, Typed, Engaged, MailboxType
    <3>2. r \in RequestType /\ r.kind = "Host"
      BY <3>1 DEF Request, RequestType
    <3> HIDE DEF r
    <3>3. /\ \A i \in DOMAIN commands' :
               \/ commands'[i] = r /\ i = Len(commands) + 1
               \/ i \in DOMAIN commands /\ commands'[i] = commands[i]
          /\ Len(commands) + 1 \in DOMAIN commands'
          /\ commands'[Len(commands) + 1] = r
      BY <2>2, <3>2, Appended DEF r, TypeInv, Typed
    <3>4. HostQueued'
      BY <3>2, <3>3 DEF HostQueued
    <3>5. \A i \in DOMAIN commands' : commands'[i].kind = "Host" => i = Len(commands) + 1
      BY <2>1, <3>3 DEF HostQueued
    <3> QED BY <1>11, <2>1, <2>2, <3>1, <3>4, <3>5 DEF SendHost, worker, workerData
  <2>3. CASE UNCHANGED commands /\ mailbox' = [mailbox EXCEPT !.ticket = None]
    BY <1>11, <2>1, <2>3 DEF SendHost, HostQueued, TypeInv, Typed, MailboxType, worker, workerData
  <2> QED BY <1>11, <2>2, <2>3 DEF SendHost, Unreserved
<1> QED BY <1>1, <1>2, <1>3, <1>4, <1>5, <1>6, <1>7, <1>8, <1>9, <1>10, <1>11
        DEF Client, Submissions, HostCalls, ClientContinues
\* The worker takes the host activity out of the queue, ends the scan with it, and
\* leaves it behind as its terminal event.
LEMMA HostWorker ==
  ASSUME TypeInv, HostInv, Worker \/ WakeSpuriously
  PROVE  HostInv'
<1> USE DEF HostSent, WorkerAt, Turn, clientSide, channels, history
<1>1. ASSUME Deliver \/ FallAsleep \/ WakeSpuriously PROVE HostInv'
  BY <1>1 DEF Deliver, FallAsleep, WakeSpuriously, HostInv, HostQueued, HostSteps, HasFinished
<1>2. ASSUME DeliveryFails \/ QueueClosed PROVE HostInv'
  BY <1>2 DEF DeliveryFails, QueueClosed, HostInv, HostQueued, HostSteps, HasFinished, TypeInv,
              Engaged
<1>3. ASSUME TakeRequest PROVE HostInv'
  <2>1. /\ 1 \in DOMAIN commands
        /\ Head(commands) = commands[1]
        /\ commands' = Tail(commands)
        /\ \A i \in DOMAIN commands' :
             i + 1 \in DOMAIN commands /\ commands'[i] = commands[i + 1]
        /\ commands' \in Seq(RequestType)
    BY <1>3, Dequeued DEF TakeRequest, TypeInv, Typed
  <2>2. \A i, j \in DOMAIN commands' :
          commands'[i].kind = "Host" /\ commands'[j].kind = "Host" => i = j
    <3> SUFFICES ASSUME NEW i \in DOMAIN commands', NEW j \in DOMAIN commands',
                        commands'[i].kind = "Host", commands'[j].kind = "Host"
                 PROVE  i = j
      OBVIOUS
    <3>1. i + 1 = j + 1
      BY <2>1 DEF HostInv
    <3>2. i \in Int /\ j \in Int
      BY <2>1
    <3> QED BY <3>1, <3>2
  <2>3. CASE Head(commands).kind = "Host"
    <3>1. HostQueued
      BY <2>1, <2>3 DEF HostQueued
    <3>2. ~HostQueued'
      <4> SUFFICES ASSUME NEW i \in DOMAIN commands', commands'[i].kind = "Host"
                   PROVE  FALSE
        BY DEF HostQueued
      <4>1. i + 1 = 1
        BY <2>1, <2>3 DEF HostInv
      <4>2. i \in Nat \ {0}
        BY <2>1
      <4> QED BY <4>1, <4>2
    <3> QED BY <1>3, <2>2, <2>3, <3>1, <3>2 DEF TakeRequest, HostInv, HostSteps, HasFinished
  <2>4. CASE Head(commands).kind # "Host"
    <3>1. HostQueued' <=> HostQueued
      <4>1. HostQueued' => HostQueued
        BY <2>1 DEF HostQueued
      <4>2. ASSUME HostQueued PROVE HostQueued'
        <5>1. PICK i \in DOMAIN commands : commands[i].kind = "Host"
          BY <4>2 DEF HostQueued
        <5>2. i # 1
          BY <2>1, <2>4, <5>1
        <5>3. i - 1 \in DOMAIN commands' /\ commands'[i - 1] = commands[i]
          BY <2>1, <5>2 DEF TypeInv, Typed
        <5> QED BY <5>1, <5>3 DEF HostQueued
      <4> QED BY <4>1, <4>2
    <3> QED BY <1>3, <2>2, <2>4, <3>1 DEF TakeRequest, HostInv, HostSteps, HasFinished
  <2> QED BY <2>3, <2>4
<1>4. ASSUME ContinueScan PROVE HostInv'
  BY <1>4 DEF ContinueScan, HostInv, HostQueued, HostSteps, HasFinished
<1>5. ASSUME CheckPending PROVE HostInv'
  BY <1>5 DEF CheckPending, HostPending, Reject, HostInv, HostQueued, HostSteps, HasFinished
<1>6. ASSUME CheckToken PROVE HostInv'
  BY <1>6 DEF CheckToken, HostInv, HostQueued, HostSteps, HasFinished
<1>7. ASSUME Call PROVE HostInv'
  BY <1>7 DEF Call, HostInv, HostQueued, HostSteps, HasFinished
<1>8. ASSUME ScanStep \/ ReadSlot PROVE HostInv'
  BY <1>8 DEF ScanStep, ReadSlot, HostInv, HostQueued, HostSteps, HasFinished
<1>9. ASSUME pc \in HostSteps, UNCHANGED <<client, commands, catalog>>, NEW event \in EventType,
             Emit(event),
             \/ pc' = "Receiving" /\ Finished(event)
             \/ pc' \in HostSteps /\ ~Finished(event)
      PROVE  HostInv'
  <2>1. /\ HostSent /\ ~HostQueued
        /\ catalog = None
        /\ \A i \in DOMAIN mailbox.events : ~Finished(mailbox.events[i])
    BY <1>9 DEF HostInv, HasFinished
  <2>2. mailbox.events \in Seq(EventType)
    BY DEF TypeInv, Typed, MailboxType
  <2>3. /\ mailbox'.events = Append(mailbox.events, event)
        /\ mailbox'.ticket = mailbox.ticket
    BY <1>9 DEF Emit, TypeInv, Typed, MailboxType
  <2>4. /\ \A i \in DOMAIN mailbox'.events :
             \/ mailbox'.events[i] = event /\ i = Len(mailbox.events) + 1
             \/ i \in DOMAIN mailbox.events /\ mailbox'.events[i] = mailbox.events[i]
        /\ Len(mailbox'.events) = Len(mailbox.events) + 1
    BY <2>2, <2>3, Appended
  <2>5. \A i \in DOMAIN mailbox'.events :
          Finished(mailbox'.events[i]) => i = Len(mailbox'.events) /\ mailbox'.events[i] = event
    BY <2>1, <2>4
  <2>6. pc' \in HostSteps => ~HasFinished'
    BY <1>9, <2>5 DEF HasFinished, HostSteps
  <2>7. HostSent' /\ ~HostQueued'
    BY <1>9, <2>1, <2>3 DEF HostQueued
  <2>8. Finished(event) => HasFinished'
    <3>1. Len(mailbox'.events) \in DOMAIN mailbox'.events
          /\ mailbox'.events[Len(mailbox'.events)] = event
      BY <2>2, <2>3
    <3> QED BY <3>1 DEF HasFinished
  <2> QED BY <1>9, <2>1, <2>5, <2>6, <2>7, <2>8 DEF HostInv
<1>10. ASSUME pc \in HostSteps, NEW kind \in {"Started", "Finished"}, NEW why \in Reasons,
              NEW recovery \in {"none", "NotAttempted", "Unverified", "Restored"}
       PROVE  Event(kind, recovery, why) \in EventType
  BY <1>10 DEF Event, EventType, TypeInv, Typed, Engaged, RequestType
<1>11. ASSUME pc \in HostSteps, pc' \in HostSteps, UNCHANGED <<client, commands, catalog>>,
              mailbox'.ticket = mailbox.ticket, mailbox'.events = mailbox.events
       PROVE  HostInv'
  BY <1>11 DEF HostInv, HostQueued, HasFinished
<1>12. ASSUME CheckHostToken \/ CheckHostGeneration PROVE HostInv'
  <2>1. CASE Emit(Rejection) /\ pc' = "Receiving"
    <3>1. pc \in HostSteps /\ UNCHANGED <<client, commands, catalog>>
      BY <1>12 DEF CheckHostToken, CheckHostGeneration, HostSteps
    <3>2. Rejection \in EventType
      BY <1>10, <3>1 DEF Rejection, Reasons
    <3>3. Finished(Rejection)
      BY DEF Finished, Rejection, Event
    <3> QED BY <1>9, <2>1, <3>1, <3>2, <3>3
  <2>2. CASE UNCHANGED mailbox /\ pc' \in HostSteps
    <3>1. pc \in HostSteps /\ UNCHANGED <<client, commands, catalog>>
      BY <1>12 DEF CheckHostToken, CheckHostGeneration, HostSteps
    <3> QED BY <1>11, <2>2, <3>1
  <2> QED BY <1>12, <2>1, <2>2 DEF CheckHostToken, CheckHostGeneration, HostSteps
<1>13. ASSUME StartHosting PROVE HostInv'
  <2>1. pc \in HostSteps /\ UNCHANGED <<client, commands, catalog>>
    BY <1>13 DEF StartHosting, HostSteps
  <2>2. CASE Emit(Event("Started", "none", "none")) /\ pc' = "Hosting"
    <3>1. Event("Started", "none", "none") \in EventType
      BY <1>10, <2>1 DEF Reasons
    <3>2. ~Finished(Event("Started", "none", "none"))
      BY DEF Finished, Event
    <3> QED BY <1>9, <2>1, <2>2, <3>1, <3>2 DEF HostSteps
  <2>3. ASSUME NEW recovery \in {"NotAttempted", "Unverified"},
               Emit(Event("Finished", recovery, "none")), pc' = "Receiving"
        PROVE  HostInv'
    <3>1. Event("Finished", recovery, "none") \in EventType
      BY <1>10, <2>1 DEF Reasons
    <3>2. Finished(Event("Finished", recovery, "none"))
      BY DEF Finished, Event
    <3> QED BY <1>9, <2>1, <2>3, <3>1, <3>2
  <2> QED BY <1>13, <2>2, <2>3 DEF StartHosting
<1>14. ASSUME HostTurn PROVE HostInv'
  <2>1. pc \in HostSteps /\ pc' \in HostSteps /\ UNCHANGED <<client, commands, catalog>>
    BY <1>14 DEF HostTurn, HostSteps
  <2>2. mailbox'.ticket = mailbox.ticket /\ mailbox'.events = mailbox.events
    BY <1>14 DEF HostTurn, TypeInv, Typed, MailboxType
  <2> QED BY <1>11, <2>1, <2>2
<1>15. ASSUME Drive \/ EndHosting PROVE HostInv'
  <2>1. pc \in HostSteps /\ pc' \in HostSteps /\ UNCHANGED <<client, commands, catalog>>
    BY <1>15 DEF Drive, EndHosting, HostSteps
  <2>2. mailbox'.ticket = mailbox.ticket /\ mailbox'.events = mailbox.events
    BY <1>15 DEF Drive, EndHosting, TypeInv, Typed, MailboxType
  <2> QED BY <1>11, <2>1, <2>2
<1>16. ASSUME Restore PROVE HostInv'
  <2>1. pc \in HostSteps /\ UNCHANGED <<client, commands, catalog>> /\ pc' = "Receiving"
    BY <1>16 DEF Restore, HostSteps
  <2>2. Event("Finished", "Restored", problem) \in EventType
    BY <1>10, <2>1 DEF TypeInv, Typed
  <2>3. Finished(Event("Finished", "Restored", problem))
    BY DEF Finished, Event
  <2> QED BY <1>9, <1>16, <2>1, <2>2, <2>3 DEF Restore
<1> QED BY <1>1, <1>2, <1>3, <1>4, <1>5, <1>6, <1>7, <1>8, <1>12, <1>13, <1>14, <1>15, <1>16
        DEF Worker, FiniteWork, HostWork

\* The invariant of host lighting holds in every state of the executor.
LEMMA HostInvariant == Spec => [](TypeInv /\ HostInv)
<1>1. Init => HostInv
  BY DEF Init, HostInv, HostQueued, HostSent, HostSteps, EmptyMailbox, HasFinished
<1>2. TypeInv /\ HostInv /\ [Next]_vars => HostInv'
  <2>1. ASSUME HostInv, UNCHANGED vars PROVE HostInv'
    BY <2>1 DEF HostInv, HostQueued, HostSent, HasFinished, vars, channels, worker, workerData
  <2> QED BY <2>1, HostClient, HostWorker DEF Next, Terminated
<1> QED BY <1>1, <1>2, TypeInvariant, PTL DEF Spec

\* A host activity that was reserved and sent is in one place until its end has
\* been received (executor.rs, start_host, and executor/host.rs).
THEOREM ReservationsEnd == Spec => []ReservationEnds
<1>1. HostInv => ReservationEnds
  BY DEF HostInv, ReservationEnds, HostSteps, OnHost, HostRuns, HasFinished
<1> QED BY <1>1, HostInvariant, PTL

\* From the first host event until the client has received the terminal one no
\* finite call and no slot of a scan runs (executor.rs, the check of the
\* reservation, and executor/host.rs).
THEOREM HostingHoldsDevice == Spec => []HostHoldsDevice
<1>1. HostInv => HostHoldsDevice
  BY DEF HostInv, HostHoldsDevice, HostSteps
<1> QED BY <1>1, HostInvariant, PTL
-----------------------------------------------------------------------------
(* What a host activity waits for. *)

\* A scan is known to its submitter: cancelling what was submitted cancels it.
Known(token) == token[2] <= catalogSubmitted

\* Once a finite call has begun beside a host request, none is let through and
\* every scan is cancelled.
WaitInv ==
  /\ beside <= 1
  /\ HostSent /\ beside = 1 => pc \notin {"Token", "Calling", "Reading"}
  /\ catalog # None => Known(catalog.token)
  /\ pc \in FiniteSteps /\ current.kind = "Catalog" => Known(current.token)
  /\ \A i \in DOMAIN commands : commands[i].kind = "Catalog" => Known(commands[i].token)
  /\ client = "Sending" \/ HostSent => catalogSubmitted <= catalogCancelled

\* A submission comes before the reservation, and the reservation cancels.
LEMMA WaitClient ==
  ASSUME TypeInv, WaitInv, Client
  PROVE  WaitInv'
<1> USE DEF WaitInv, HostSent, Known
<1>1. catalogSubmitted \in Nat /\ catalogCancelled \in Nat
  BY DEF TypeInv, Typed
<1>2. ASSUME NEW g \in 0 .. MaxGeneration, SetGeneration(g) PROVE WaitInv'
  BY <1>2 DEF SetGeneration, channels, worker, workerData, cancellation
<1>3. ASSUME NEW token \in (0 .. MaxGeneration) \X (1 .. MaxOperation),
             NEW kind \in Kinds \ {"Host"}, TrySubmit(kind, token)
      PROVE  WaitInv'
  <2>1. token[2] \in Nat /\ token \in Tokens /\ kind \in FiniteKinds
    BY SizesAssumption, KindsAssumption DEF Tokens
  <2>2. /\ catalogSubmitted' \in Nat
        /\ catalogSubmitted <= catalogSubmitted'
        /\ kind = "Catalog" => token[2] <= catalogSubmitted'
    BY <1>1, <1>3, <2>1 DEF TrySubmit, Maximum
  <2>3. \A t \in Tokens : t[2] <= catalogSubmitted => t[2] <= catalogSubmitted'
    BY <1>1, <2>2, SizesAssumption DEF Tokens
  <2>4. \A i \in DOMAIN commands : commands[i].token \in Tokens
    <3>1. \A i \in DOMAIN commands : commands[i] \in RequestType
      BY DEF TypeInv, Typed
    <3> QED BY <3>1 DEF RequestType
  <2>5. /\ catalog # None => catalog.token \in Tokens
        /\ pc \in FiniteSteps => current.token \in Tokens
    BY DEF TypeInv, Typed, Engaged, RequestType, ScanType
  <2>6. client' = client /\ client = "Free" /\ mailbox.ticket = None /\ mailbox' = mailbox
    BY <1>3 DEF TrySubmit, MaySubmit
  <2>7. \A i \in DOMAIN commands' :
          commands'[i].kind = "Catalog" => commands'[i].token[2] <= catalogSubmitted'
    <3>1. CASE HasRoom
      <4> DEFINE r == Request(accepted + 1, kind, token)
      <4>1. r \in RequestType /\ r.kind = kind /\ r.token = token
        BY <1>3, <2>1, SizesAssumption DEF TypeInv, Typed, TrySubmit, Request, RequestType, Ids
      <4>2. commands' = Append(commands, r)
        BY <1>3, <3>1 DEF TrySubmit
      <4> HIDE DEF r
      <4>3. \A i \in DOMAIN commands' :
              \/ commands'[i] = r
              \/ i \in DOMAIN commands /\ commands'[i] = commands[i]
        BY <4>1, <4>2, Appended DEF TypeInv, Typed
      <4> QED BY <2>2, <2>3, <2>4, <4>1, <4>3
    <3>2. CASE ~HasRoom
      BY <1>3, <2>3, <2>4, <3>2 DEF TrySubmit
    <3> QED BY <3>1, <3>2
  <2> QED BY <1>3, <2>3, <2>5, <2>6, <2>7 DEF TrySubmit, worker, workerData
<1>4. ASSUME NEW token \in (0 .. MaxGeneration) \X (1 .. MaxOperation), Reserve(token)
      PROVE  WaitInv'
  BY <1>4 DEF Reserve, channels, worker, workerData, cancellation
<1>5. ASSUME NEW input \in {"frame", "setting"}, Feed(input) PROVE WaitInv'
  BY <1>5 DEF Feed, Notify, TypeInv, Typed, MailboxType, FiniteSteps, channels, workerData,
              clientSide, cancellation, history
<1>6. ASSUME NEW reason \in {"none", "user"}, StopHost(reason) PROVE WaitInv'
  BY <1>6 DEF StopHost, Notify, TypeInv, Typed, MailboxType, FiniteSteps, channels, workerData,
              clientSide, cancellation
<1>7. ASSUME ReceiveHost PROVE WaitInv'
  <2>1. mailbox'.ticket = None \/ mailbox'.ticket = mailbox.ticket
    BY <1>7 DEF ReceiveHost, Released, TypeInv, Typed, MailboxType
  <2> QED BY <1>7, <2>1 DEF ReceiveHost, channels, worker, workerData, clientSide, cancellation,
                            history
<1>8. ASSUME CancelCatalog PROVE WaitInv'
  BY <1>1, <1>8 DEF CancelCatalog, Maximum, channels, worker, workerData, history
<1>9. ASSUME CancelForHost PROVE WaitInv'
  BY <1>1, <1>9 DEF CancelForHost, Maximum, channels, worker, workerData, history
<1>10. ASSUME Receive \/ Retire \/ DropChannels PROVE WaitInv'
  BY <1>10 DEF Receive, Retire, DropChannels, clientSide, channels, worker, workerData,
               cancellation, history
<1>11. ASSUME GenerationChanged \/ Close PROVE WaitInv'
  BY <1>11 DEF GenerationChanged, Close, Notify, TypeInv, Typed, MailboxType, FiniteSteps,
               channels, workerData, cancellation, history
<1>12. ASSUME SendHost PROVE WaitInv'
  <2>1. \A i \in DOMAIN commands' :
          commands'[i].kind = "Catalog" => i \in DOMAIN commands /\ commands'[i] = commands[i]
    <3>1. CASE commands' = Append(commands, Request(None, "Host", mailbox.ticket))
      <4> DEFINE r == Request(None, "Host", mailbox.ticket)
      <4>1. r \in RequestType /\ r.kind = "Host"
        BY <1>12 DEF SendHost, TypeInv, Typed, Engaged, MailboxType, Request, RequestType
      <4> HIDE DEF r
      <4> QED BY <3>1, <4>1, Appended DEF r, TypeInv, Typed
    <3>2. CASE UNCHANGED commands
      BY <3>2
    <3> QED BY <1>12, <3>1, <3>2 DEF SendHost
  <2> QED BY <1>12, <2>1 DEF SendHost, worker, workerData, cancellation
<1> QED BY <1>2, <1>3, <1>4, <1>5, <1>6, <1>7, <1>8, <1>9, <1>10, <1>11, <1>12
        DEF Client, Submissions, HostCalls, ClientContinues

\* Whatever the worker takes while a host request is sent gives way, but for the
\* one request that had passed the check of the reservation.
LEMMA WaitWorker ==
  ASSUME TypeInv, WaitInv, Worker \/ WakeSpuriously
  PROVE  WaitInv'
<1> USE DEF WaitInv, HostSent, Known, WorkerAt, Turn, FiniteSteps, workerData, clientSide,
            cancellation, channels, history
<1>1. ASSUME Deliver \/ DeliveryFails \/ QueueClosed \/ ContinueScan PROVE WaitInv'
  BY <1>1 DEF Deliver, DeliveryFails, QueueClosed, ContinueScan
<1>2. ASSUME TakeRequest PROVE WaitInv'
  <2>1. /\ 1 \in DOMAIN commands
        /\ Head(commands) = commands[1]
        /\ commands' = Tail(commands)
        /\ \A i \in DOMAIN commands' :
             i + 1 \in DOMAIN commands /\ commands'[i] = commands[i + 1]
    BY <1>2, Dequeued DEF TakeRequest, TypeInv, Typed
  <2> QED BY <1>2, <2>1 DEF TakeRequest
<1>3. ASSUME CheckPending PROVE WaitInv'
  BY <1>3 DEF CheckPending, HostPending, Reject
<1>4. ASSUME CheckToken PROVE WaitInv'
  BY <1>4 DEF CheckToken, Scan
<1>5. beside \in Nat
  BY DEF TypeInv, Typed
<1>6. ASSUME Call PROVE WaitInv'
  <2>1. catalog' # None => catalog # None /\ catalog'.token = catalog.token
    BY <1>6 DEF Call, TypeInv, Typed, ScanType
  <2> QED BY <1>5, <1>6, <2>1 DEF Call, FiniteBegins
<1>7. ASSUME ScanStep PROVE WaitInv'
  BY <1>7 DEF ScanStep, TypeInv, Typed, Engaged, ScanType, Tokens
<1>8. ASSUME ReadSlot PROVE WaitInv'
  BY <1>5, <1>8 DEF ReadSlot, FiniteBegins, TypeInv, Engaged, ScanType
<1>9. ASSUME CheckHostToken \/ CheckHostGeneration \/ StartHosting PROVE WaitInv'
  <2>1. CASE CheckHostToken \/ CheckHostGeneration
    BY <2>1 DEF CheckHostToken, CheckHostGeneration, Emit, TypeInv, Typed, MailboxType
  <2>2. CASE StartHosting
    BY <2>2 DEF StartHosting, Emit, TypeInv, Typed, MailboxType
  <2> QED BY <1>9, <2>1, <2>2
<1>10. ASSUME HostTurn PROVE WaitInv'
  BY <1>10 DEF HostTurn, TypeInv, Typed, MailboxType
<1>11. ASSUME FallAsleep \/ WakeSpuriously \/ Drive \/ EndHosting \/ Restore PROVE WaitInv'
  BY <1>11 DEF FallAsleep, WakeSpuriously, Drive, EndHosting, Restore, Emit, TypeInv, Typed,
               MailboxType
<1> QED BY <1>1, <1>2, <1>3, <1>4, <1>6, <1>7, <1>8, <1>9, <1>10, <1>11
        DEF Worker, FiniteWork, HostWork

\* A host request waits for at most one finite call that begins after it was sent
\* (executor.rs, start_host and the check of the reservation).
THEOREM HostingWaitsForOneCall == Spec => []HostWaitsForOneCall
<1>1. Init => WaitInv
  BY DEF Init, WaitInv, HostSent, EmptyMailbox, FiniteSteps
<1>2. TypeInv /\ WaitInv /\ [Next]_vars => WaitInv'
  <2>1. ASSUME WaitInv, UNCHANGED vars PROVE WaitInv'
    BY <2>1 DEF WaitInv, HostSent, Known, vars, channels, cancellation, worker, workerData, history
  <2> QED BY <2>1, WaitClient, WaitWorker DEF Next, Terminated
<1>3. WaitInv => HostWaitsForOneCall
  BY DEF WaitInv, HostWaitsForOneCall
<1> QED BY <1>1, <1>2, <1>3, TypeInvariant, PTL DEF Spec
-----------------------------------------------------------------------------
(* The problem a host activity ends with. *)

Ends == {"Ending", "Restoring"}
Answers(why) == asked = None \/ why \in {asked, "device"}

\* The first stop of an activity stays in the mailbox until the host loop ends,
\* is then its problem, and ends up in its terminal event.
StopInv ==
  /\ mailbox.ticket # None /\ asked # None /\ pc \notin Ends /\ ~HasFinished
       => mailbox.stop = asked
  /\ pc \in Ends => Answers(problem)
  /\ \A i \in DOMAIN mailbox.events :
       mailbox.events[i].recovery = "Restored" =>
         Finished(mailbox.events[i]) /\ Answers(mailbox.events[i].problem)

\* What changes neither the stop nor the events.
LEMMA StopStays ==
  ASSUME StopInv,
         mailbox'.stop = mailbox.stop, mailbox'.ticket = mailbox.ticket,
         mailbox'.events = mailbox.events,
         UNCHANGED <<asked, problem>>, pc' \in Ends <=> pc \in Ends
  PROVE  StopInv'
  BY DEF StopInv, HasFinished, Answers

\* A stop is recorded once, while the activity can still answer it.
LEMMA StopClient ==
  ASSUME TypeInv, HostInv, StopInv, Client
  PROVE  StopInv'
<1>1. ASSUME NEW g \in 0 .. MaxGeneration, SetGeneration(g) PROVE StopInv'
  BY StopStays, <1>1 DEF SetGeneration, worker, workerData
<1>2. ASSUME NEW token \in (0 .. MaxGeneration) \X (1 .. MaxOperation),
             NEW kind \in Kinds \ {"Host"}, TrySubmit(kind, token)
      PROVE  StopInv'
  BY StopStays, <1>2 DEF TrySubmit, worker, workerData
<1>3. ASSUME NEW token \in (0 .. MaxGeneration) \X (1 .. MaxOperation), Reserve(token)
      PROVE  StopInv'
  <2>1. mailbox'.events = mailbox.events /\ asked' = None /\ UNCHANGED <<pc, problem>>
    BY <1>3 DEF Reserve, TypeInv, Typed, MailboxType, worker, workerData
  <2> QED BY <2>1 DEF StopInv, Answers
<1>4. ASSUME NEW input \in {"frame", "setting"}, Feed(input) PROVE StopInv'
  BY StopStays, <1>4 DEF Feed, Notify, Ends, TypeInv, Typed, MailboxType, workerData, history
<1>5. ASSUME NEW reason \in {"none", "user"}, StopHost(reason) PROVE StopInv'
  <2>1. /\ mailbox'.stop = reason /\ mailbox'.events = mailbox.events
        /\ mailbox'.ticket = mailbox.ticket
        /\ UNCHANGED problem
        /\ pc' \in Ends <=> pc \in Ends
    BY <1>5 DEF StopHost, Notify, Ends, TypeInv, Typed, MailboxType, workerData
  <2>2. HasFinished' <=> HasFinished
    BY <2>1 DEF HasFinished
  <2>3. mailbox.ticket # None /\ mailbox.stop = None
    BY <1>5 DEF StopHost
  <2>4. CASE asked = None /\ pc \notin Ends /\ ~HasFinished
    <3>1. asked' = reason
      BY <1>5, <2>4 DEF StopHost, Ends
    <3>2. \A i \in DOMAIN mailbox.events : mailbox.events[i].recovery # "Restored"
      BY <2>4 DEF StopInv, HasFinished
    <3> QED BY <2>1, <2>4, <3>1, <3>2 DEF StopInv
  <2>5. CASE ~(asked = None /\ pc \notin Ends /\ ~HasFinished)
    <3>1. asked' = asked
      BY <1>5, <2>5 DEF StopHost, Ends
    <3>2. asked # None /\ pc \notin Ends /\ ~HasFinished => FALSE
      BY <2>3 DEF StopInv
    <3> QED BY <2>1, <2>2, <3>1, <3>2 DEF StopInv, Answers
  <2> QED BY <2>4, <2>5
<1>6. ASSUME ReceiveHost PROVE StopInv'
  <2> DEFINE event == Head(mailbox.events)
  <2>1. /\ 1 \in DOMAIN mailbox.events
        /\ event = mailbox.events[1]
        /\ \A i \in DOMAIN Tail(mailbox.events) :
             i + 1 \in DOMAIN mailbox.events /\ Tail(mailbox.events)[i] = mailbox.events[i + 1]
        /\ \A i \in DOMAIN mailbox.events : i # 1 => i - 1 \in DOMAIN Tail(mailbox.events)
                                                   /\ Tail(mailbox.events)[i - 1] = mailbox.events[i]
    BY <1>6, Dequeued DEF ReceiveHost, TypeInv, Typed, MailboxType
  <2>2. mailbox'.events = Tail(mailbox.events) /\ UNCHANGED <<pc, problem, asked>>
    BY <1>6 DEF ReceiveHost, Released, TypeInv, Typed, MailboxType, worker, workerData, history
  <2>3. CASE Finished(event)
    <3>1. mailbox'.ticket = None
      BY <1>6, <2>3 DEF ReceiveHost, Released, TypeInv, Typed, MailboxType
    <3> QED BY <2>1, <2>2, <3>1 DEF StopInv, Answers
  <2>4. CASE ~Finished(event)
    <3>1. mailbox'.ticket = mailbox.ticket /\ mailbox'.stop = mailbox.stop
      BY <1>6, <2>4 DEF ReceiveHost, Released, TypeInv, Typed, MailboxType
    <3>2. HasFinished' <=> HasFinished
      BY <2>1, <2>2, <2>4 DEF HasFinished
    <3> QED BY <2>1, <2>2, <3>1, <3>2 DEF StopInv, Answers
  <2> QED BY <2>3, <2>4
<1>7. ASSUME CancelCatalog \/ CancelForHost \/ Receive \/ Retire \/ DropChannels PROVE StopInv'
  BY StopStays, <1>7 DEF CancelCatalog, CancelForHost, Receive, Retire, DropChannels, worker,
                         workerData, history
<1>8. ASSUME GenerationChanged \/ Close PROVE StopInv'
  BY StopStays, <1>8 DEF GenerationChanged, Close, Notify, Ends, TypeInv, Typed, MailboxType,
                         workerData, history
<1>9. ASSUME SendHost PROVE StopInv'
  <2>1. CASE UNCHANGED mailbox
    BY StopStays, <1>9, <2>1 DEF SendHost, worker, workerData
  <2>2. CASE mailbox' = [mailbox EXCEPT !.ticket = None]
    BY <1>9, <2>2 DEF SendHost, StopInv, Answers, HasFinished, TypeInv, Typed, MailboxType, worker,
                      workerData
  <2> QED BY <1>9, <2>1, <2>2 DEF SendHost, Unreserved
<1> QED BY <1>1, <1>2, <1>3, <1>4, <1>5, <1>6, <1>7, <1>8, <1>9
        DEF Client, Submissions, HostCalls, ClientContinues

\* The host loop looks at the stop first, and only the device may speak after it.
LEMMA StopWorker ==
  ASSUME TypeInv, HostInv, StopInv, Worker \/ WakeSpuriously
  PROVE  StopInv'
<1> USE DEF WorkerAt, Turn, workerData, history
<1>1. ASSUME FiniteWork PROVE StopInv'
  <2>1. UNCHANGED <<mailbox, asked, problem>>
    BY <1>1 DEF FiniteWork, Deliver, DeliveryFails, TakeRequest, QueueClosed, ContinueScan,
                CheckPending, CheckToken, Call, ScanStep, ReadSlot
  <2>2. CASE pc' = pc
    BY StopStays, <2>1, <2>2
  <2>3. CASE pc' # pc /\ replies = <<>>
    <3>1. pc \notin Ends /\ pc' \notin Ends
      BY <1>1, <2>3 DEF FiniteWork, Deliver, DeliveryFails, TakeRequest, QueueClosed, ContinueScan,
                  CheckPending, CheckToken, Call, ScanStep, ReadSlot, Ends
    <3> QED BY StopStays, <2>1, <3>1
  <2>4. CASE DeliveryFails
    <3>1. pc \notin Ends /\ pc' \notin Ends
      BY <2>4 DEF DeliveryFails, TypeInv, Engaged, Ends
    <3> QED BY StopStays, <2>1, <3>1
  <2> QED BY <1>1, <2>2, <2>3, <2>4
          DEF FiniteWork, Deliver, TakeRequest, QueueClosed, ContinueScan, CheckPending, CheckToken,
              Call, ScanStep, ReadSlot
<1>2. ASSUME FallAsleep \/ WakeSpuriously PROVE StopInv'
  BY StopStays, <1>2 DEF FallAsleep, WakeSpuriously, Ends
<1>3. ASSUME NEW event \in EventType, Emit(event),
             event.recovery = "Restored" => Answers(event.problem),
             Finished(event) \/ (event.recovery = "none" /\ pc' \notin Ends /\ pc \notin Ends),
             pc' \notin Ends, UNCHANGED asked
      PROVE  StopInv'
  <2>1. mailbox.events \in Seq(EventType)
    BY DEF TypeInv, Typed, MailboxType
  <2>2. /\ mailbox'.events = Append(mailbox.events, event)
        /\ mailbox'.ticket = mailbox.ticket
        /\ mailbox'.stop = mailbox.stop
    BY <1>3 DEF Emit, TypeInv, Typed, MailboxType
  <2>3. /\ \A i \in DOMAIN mailbox'.events :
             \/ mailbox'.events[i] = event /\ i = Len(mailbox.events) + 1
             \/ i \in DOMAIN mailbox.events /\ mailbox'.events[i] = mailbox.events[i]
        /\ \A i \in DOMAIN mailbox.events :
             i \in DOMAIN mailbox'.events /\ mailbox'.events[i] = mailbox.events[i]
        /\ Len(mailbox.events) + 1 \in DOMAIN mailbox'.events
        /\ mailbox'.events[Len(mailbox.events) + 1] = event
    BY <2>1, <2>2, Appended
  <2>4. Finished(event) => HasFinished'
    BY <2>3 DEF HasFinished
  <2>5. HasFinished => HasFinished'
    BY <2>3 DEF HasFinished
  <2>6. \A i \in DOMAIN mailbox'.events :
          mailbox'.events[i].recovery = "Restored" =>
            Finished(mailbox'.events[i]) /\ Answers(mailbox'.events[i].problem)
    BY <1>3, <2>3 DEF StopInv
  <2> QED BY <1>3, <2>2, <2>4, <2>5, <2>6 DEF StopInv, Answers
<1>4. ASSUME pc \in HostSteps, NEW kind \in {"Started", "Finished"}, NEW why \in Reasons,
             NEW recovery \in {"none", "NotAttempted", "Unverified", "Restored"}
      PROVE  /\ Event(kind, recovery, why) \in EventType
             /\ Event(kind, recovery, why).recovery = recovery
             /\ Event(kind, recovery, why).problem = why
             /\ Finished(Event(kind, recovery, why)) <=> kind = "Finished"
  BY <1>4 DEF Event, EventType, Finished, TypeInv, Typed, Engaged, RequestType
<1>5. ASSUME CheckHostToken \/ CheckHostGeneration PROVE StopInv'
  <2>1. pc \in HostSteps \ Ends /\ pc' \notin Ends /\ UNCHANGED <<asked, problem>>
    BY <1>5 DEF CheckHostToken, CheckHostGeneration, HostSteps, Ends
  <2>2. CASE UNCHANGED mailbox
    BY StopStays, <2>1, <2>2
  <2>3. CASE Emit(Rejection)
    BY <1>3, <1>4, <2>1, <2>3 DEF Rejection, Reasons
  <2> QED BY <1>5, <2>2, <2>3 DEF CheckHostToken, CheckHostGeneration
<1>6. ASSUME StartHosting PROVE StopInv'
  <2>1. pc \in HostSteps \ Ends /\ pc' \notin Ends /\ UNCHANGED <<asked, problem>>
    BY <1>6 DEF StartHosting, HostSteps, Ends
  <2>2. CASE Emit(Event("Started", "none", "none"))
    BY <1>3, <1>4, <2>1, <2>2 DEF Reasons
  <2>3. ASSUME NEW recovery \in {"NotAttempted", "Unverified"},
               Emit(Event("Finished", recovery, "none"))
        PROVE  StopInv'
    BY <1>3, <1>4, <2>1, <2>3 DEF Reasons
  <2> QED BY <1>6, <2>2, <2>3 DEF StartHosting
<1>7. ASSUME HostTurn PROVE StopInv'
  <2>1. /\ pc = "Hosting" /\ UNCHANGED asked
        /\ mailbox'.events = mailbox.events /\ mailbox'.ticket = mailbox.ticket
    BY <1>7 DEF HostTurn, TypeInv, Typed, MailboxType
  <2>2. mailbox.ticket # None /\ ~HasFinished
    BY <2>1 DEF HostInv, HostSteps, HostSent
  <2>3. asked = None \/ mailbox.stop = asked
    BY <2>1, <2>2 DEF StopInv, Ends
  <2>4. CASE StopFirst
    <3>1. problem' = mailbox.stop /\ pc' = "Ending"
      BY <1>7, <2>4 DEF HostTurn
    <3> QED BY <2>1, <2>3, <3>1 DEF StopInv, Answers, Ends
  <2>5. CASE ~StopFirst /\ HostInvalid
    <3>1. pc' = "Ending" /\ asked = None
      BY <1>7, <2>3, <2>5 DEF HostTurn, StopFirst
    <3> QED BY <2>1, <3>1 DEF StopInv, Answers, Ends
  <2>6. CASE ~StopFirst /\ ~HostInvalid
    <3>1. pc' \notin Ends /\ UNCHANGED problem /\ mailbox'.stop = mailbox.stop
      BY <1>7, <2>6 DEF HostTurn, Ends, TypeInv, Typed, MailboxType
    <3> QED BY StopStays, <2>1, <3>1 DEF Ends
  <2> QED BY <2>4, <2>5, <2>6
<1>8. ASSUME Drive PROVE StopInv'
  <2>1. CASE pc' = "Hosting" /\ UNCHANGED problem
    BY StopStays, <1>8, <2>1 DEF Drive, Ends
  <2>2. CASE pc' = "Ending" /\ problem' = "device"
    BY <1>8, <2>2 DEF Drive, StopInv, Answers, HasFinished, Ends
  <2> QED BY <1>8, <2>1, <2>2 DEF Drive
<1>9. ASSUME EndHosting PROVE StopInv'
  <2>1. /\ mailbox'.events = mailbox.events
        /\ pc = "Ending" /\ pc' = "Restoring" /\ UNCHANGED <<asked, problem>>
    BY <1>9 DEF EndHosting, TypeInv, Typed, MailboxType
  <2> QED BY <2>1 DEF StopInv, Answers, Ends
<1>10. ASSUME Restore PROVE StopInv'
  <2>1. /\ pc \in HostSteps /\ pc' \notin Ends /\ UNCHANGED asked
        /\ Answers(problem) /\ problem \in Reasons
        /\ Emit(Event("Finished", "Restored", problem))
    BY <1>10 DEF Restore, HostSteps, Ends, StopInv, TypeInv, Typed
  <2> QED BY <1>3, <1>4, <2>1
<1> QED BY <1>1, <1>2, <1>5, <1>6, <1>7, <1>8, <1>9, <1>10 DEF Worker, HostWork

\* The first stop of a host activity is what its terminal event reports, unless
\* the device failed after it (executor/host.rs, the host loop).
THEOREM FirstStopSurvives == Spec => []StopProblemSurvives
<1>1. Init => StopInv
  BY DEF Init, StopInv, EmptyMailbox, HasFinished, Answers, Ends
<1>2. TypeInv /\ HostInv /\ StopInv /\ [Next]_vars => StopInv'
  <2>1. ASSUME StopInv, UNCHANGED vars PROVE StopInv'
    BY StopStays, <2>1 DEF vars, worker, workerData, history
  <2> QED BY <2>1, StopClient, StopWorker DEF Next, Terminated
<1>3. StopInv => StopProblemSurvives
  BY DEF StopInv, StopProblemSurvives, Answers
<1> QED BY <1>1, <1>2, <1>3, HostInvariant, PTL DEF Spec
-----------------------------------------------------------------------------
(* Counting a request in a queue. *)

At(queue, id) == {i \in DOMAIN queue : queue[i].id = id}

\* The count is that of the places in the queue.
LEMMA CountAt ==
  ASSUME NEW q, NEW id PROVE In(q, id) = Cardinality(At(q, id))
  BY DEF In, At

\* A queue holds a request a natural number of times.
LEMMA CountType ==
  ASSUME NEW S, NEW q \in Seq(S), NEW id
  PROVE  IsFiniteSet(At(q, id)) /\ In(q, id) \in Nat
<1>1. IsFiniteSet(1 .. Len(q))
  BY FS_Interval
<1>2. At(q, id) \in SUBSET (1 .. Len(q))
  BY DEF At
<1>3. IsFiniteSet(At(q, id))
  BY <1>1, <1>2, FS_Subset
<1> QED BY <1>3, FS_CardinalityType, CountAt

\* The empty queue holds nothing.
LEMMA CountEmpty ==
  ASSUME NEW id PROVE In(<<>>, id) = 0
<1>1. At(<<>>, id) = {}
  BY DEF At
<1> QED BY <1>1, FS_EmptySet, CountAt

\* What is in a queue is counted.
LEMMA CountMember ==
  ASSUME NEW S, NEW q \in Seq(S), NEW id, NEW i \in DOMAIN q, q[i].id = id
  PROVE  In(q, id) >= 1
<1>1. i \in At(q, id)
  BY DEF At
<1>2. IsFiniteSet(At(q, id)) /\ In(q, id) \in Nat
  BY CountType
<1>3. In(q, id) # 0
  BY <1>1, <1>2, FS_EmptySet, CountAt
<1> QED BY <1>2, <1>3

\* Append adds one to the count of the request it appends.
LEMMA CountAppend ==
  ASSUME NEW S, NEW q \in Seq(S), NEW e \in S, NEW id
  PROVE  In(Append(q, e), id) = In(q, id) + (IF e.id = id THEN 1 ELSE 0)
<1>1. IsFiniteSet(At(q, id)) /\ In(q, id) \in Nat
  BY CountType
<1>2. Len(q) + 1 \notin At(q, id)
  BY DEF At
<1>3. CASE e.id = id
  <2>1. At(Append(q, e), id) = At(q, id) \cup {Len(q) + 1}
    BY <1>3, Appended DEF At
  <2> QED BY <1>1, <1>2, <1>3, <2>1, FS_AddElement, CountAt
<1>4. CASE e.id # id
  <2>1. At(Append(q, e), id) = At(q, id)
    BY <1>4, Appended DEF At
  <2> QED BY <1>1, <1>4, <2>1, CountAt
<1> QED BY <1>3, <1>4

\* Tail takes one from the count of the request at the head.
LEMMA CountTail ==
  ASSUME NEW S, NEW q \in Seq(S), q # <<>>, NEW id
  PROVE  In(q, id) = In(Tail(q), id) + (IF Head(q).id = id THEN 1 ELSE 0)
<1> DEFINE Rest == At(q, id) \ {1}
           Next1 == [i \in At(Tail(q), id) |-> i + 1]
<1>1. /\ 1 \in DOMAIN q /\ Head(q) = q[1] /\ Tail(q) \in Seq(S)
      /\ Len(Tail(q)) = Len(q) - 1
      /\ \A i \in DOMAIN Tail(q) : i + 1 \in DOMAIN q /\ Tail(q)[i] = q[i + 1]
  BY Dequeued
<1>2. /\ IsFiniteSet(At(q, id)) /\ In(q, id) \in Nat
      /\ IsFiniteSet(At(Tail(q), id)) /\ In(Tail(q), id) \in Nat
  BY <1>1, CountType
<1>3. Next1 \in Bijection(At(Tail(q), id), Rest)
  <2>1. Next1 \in [At(Tail(q), id) -> Rest]
    BY <1>1 DEF At
  <2>2. \A i, j \in At(Tail(q), id) : Next1[i] = Next1[j] => i = j
    BY <1>1 DEF At
  <2>3. \A j \in Rest : \E i \in At(Tail(q), id) : Next1[i] = j
    <3> SUFFICES ASSUME NEW j \in Rest PROVE \E i \in At(Tail(q), id) : Next1[i] = j
      OBVIOUS
    <3>1. j - 1 \in DOMAIN Tail(q) /\ Tail(q)[j - 1] = q[j] /\ (j - 1) + 1 = j
      BY <1>1 DEF At
    <3>2. j - 1 \in At(Tail(q), id)
      BY <3>1 DEF At
    <3> QED BY <3>1, <3>2
  <2> HIDE DEF Next1, Rest
  <2> QED BY <2>1, <2>2, <2>3, Fun_IsBij
<1>4. Cardinality(Rest) = In(Tail(q), id)
  BY <1>2, <1>3, FS_Bijection, Fun_ExistsBij, CountAt
<1>5. CASE Head(q).id = id
  <2>1. 1 \in At(q, id)
    BY <1>1, <1>5 DEF At
  <2>2. Cardinality(Rest) = Cardinality(At(q, id)) - 1
    BY <1>2, <2>1, FS_RemoveElement
  <2>3. In(q, id) = Cardinality(At(q, id))
    BY CountAt
  <2> HIDE DEF Rest
  <2> QED BY <1>2, <1>4, <1>5, <2>2, <2>3
<1>6. CASE Head(q).id # id
  <2>1. Rest = At(q, id)
    BY <1>1, <1>6 DEF At
  <2>2. In(q, id) = Cardinality(At(q, id))
    BY CountAt
  <2> HIDE DEF Rest
  <2> QED BY <1>2, <1>4, <1>6, <2>1, <2>2
<1> QED BY <1>5, <1>6

\* A queue of one reply.
LEMMA CountOne ==
  ASSUME NEW a \in ReplyType, NEW id
  PROVE  In(<<a>>, id) = (IF a.id = id THEN 1 ELSE 0)
<1>1. <<>> \in Seq(ReplyType) /\ <<a>> = Append(<<>>, a)
  OBVIOUS
<1>2. In(Append(<<>>, a), id) = In(<<>>, id) + (IF a.id = id THEN 1 ELSE 0)
  BY <1>1, CountAppend, Zenon
<1>3. In(<<>>, id) = 0
  BY CountEmpty
<1>4. In(<<a>>, id) = In(<<>>, id) + (IF a.id = id THEN 1 ELSE 0)
  BY <1>1, <1>2, Zenon
<1> QED BY <1>3, <1>4

\* A queue of two.
LEMMA CountTwo ==
  ASSUME NEW a \in ReplyType, NEW b \in ReplyType, NEW id
  PROVE  In(<<a, b>>, id) = (IF a.id = id THEN 1 ELSE 0) + (IF b.id = id THEN 1 ELSE 0)
<1>1. <<a>> \in Seq(ReplyType) /\ <<a, b>> = Append(<<a>>, b)
  OBVIOUS
<1>2. In(Append(<<a>>, b), id) = In(<<a>>, id) + (IF b.id = id THEN 1 ELSE 0)
  BY <1>1, CountAppend, Zenon
<1>3. In(<<a>>, id) = (IF a.id = id THEN 1 ELSE 0)
  BY CountOne
<1>4. In(<<a, b>>, id) = In(<<a>>, id) + (IF b.id = id THEN 1 ELSE 0)
  BY <1>1, <1>2, Zenon
<1> QED BY <1>3, <1>4

-----------------------------------------------------------------------------
(* Where a request is. *)

OnScan(id) == IF catalog # None /\ catalog.id = id THEN 1 ELSE 0
OnCall(id) == IF OnWorker /\ current.id = id THEN 1 ELSE 0
Expected(id) == IF id <= accepted /\ answer[id] = None THEN 1 ELSE 0

\* An accepted request that was not answered is in exactly one place while the
\* executor is open and at most in one afterwards; any other request is in none.
CountInv ==
  /\ answer \in [Ids -> Service!Outcomes \cup {None}]
  /\ \A id \in Ids :
       /\ Outstanding(id) <= Expected(id)
       /\ Open => Outstanding(id) = Expected(id)
       /\ answer[id] # None => id <= accepted
  /\ \A i \in DOMAIN commands : commands[i].kind = "Host" => commands[i].id \notin Ids

\* The places of a request.
LEMMA Places ==
  ASSUME NEW id
  PROVE  /\ Outstanding(id) = In(commands, id) + In(replies, id) + In(completions, id)
                              + OnScan(id) + OnCall(id)
         /\ Outstanding(id)' = In(commands', id) + In(replies', id) + In(completions', id)
                               + OnScan(id)' + OnCall(id)'
  BY DEF Outstanding, In, OnScan, OnCall, OnWorker

\* The counts are numbers.
LEMMA PlacesType ==
  ASSUME TypeInv, NEW id
  PROVE  /\ In(commands, id) \in Nat /\ In(replies, id) \in Nat /\ In(completions, id) \in Nat
         /\ OnScan(id) \in Nat /\ OnCall(id) \in Nat
         /\ Outstanding(id) \in Nat
<1>1. In(commands, id) \in Nat /\ In(replies, id) \in Nat /\ In(completions, id) \in Nat
  BY CountType DEF TypeInv, Typed
<1>2. OnScan(id) \in Nat /\ OnCall(id) \in Nat
  BY DEF OnScan, OnCall
<1> QED BY <1>1, <1>2, Places

\* A request that only moves is as outstanding as before.
LEMMA CountMoves ==
  ASSUME CountInv, UNCHANGED <<answer, accepted>>, Open' => Open,
         \A id \in Ids : Outstanding(id)' = Outstanding(id),
         \A i \in DOMAIN commands' : commands'[i].kind = "Host" => commands'[i].id \notin Ids
  PROVE  CountInv'
<1>1. \A id \in Ids : Expected(id)' = Expected(id)
  BY DEF Expected
<1> QED BY <1>1 DEF CountInv

\* Once the executor is closed a request may be dropped.
LEMMA CountDrops ==
  ASSUME CountInv, UNCHANGED <<answer, accepted>>, ~Open', TypeInv,
         \A id \in Ids : Outstanding(id)' \in Int /\ Outstanding(id)' <= Outstanding(id),
         \A i \in DOMAIN commands' : commands'[i].kind = "Host" => commands'[i].id \notin Ids
  PROVE  CountInv'
<1>1. \A id \in Ids : Expected(id)' = Expected(id)
  BY DEF Expected
<1>2. \A id \in Ids : Outstanding(id) \in Nat /\ Expected(id) \in Nat
  BY PlacesType DEF Expected
<1>3. ASSUME NEW id \in Ids PROVE Outstanding(id)' <= Expected(id)'
  <2>1. Outstanding(id) <= Expected(id)
    BY DEF CountInv
  <2> QED BY <1>1, <1>2, <2>1
<1> QED BY <1>3 DEF CountInv

\* One or two replies are counted as what they answer.
LEMMA CountReplies ==
  ASSUME NEW id
  PROVE  /\ replies = <<>> => In(replies, id) = 0
         /\ replies' = <<>> => In(replies', id) = 0
         /\ \A a \in ReplyType :
              replies' = <<a>> => In(replies', id) = (IF a.id = id THEN 1 ELSE 0)
         /\ \A a, b \in ReplyType :
              replies' = <<a, b>> =>
                In(replies', id) = (IF a.id = id THEN 1 ELSE 0) + (IF b.id = id THEN 1 ELSE 0)
<1>1. replies = <<>> => In(replies, id) = 0
  BY CountEmpty, Zenon
<1>2. replies' = <<>> => In(replies', id) = 0
  BY CountEmpty, Zenon
<1>3. ASSUME NEW a \in ReplyType, replies' = <<a>>
      PROVE  In(replies', id) = (IF a.id = id THEN 1 ELSE 0)
  <2>1. In(<<a>>, id) = (IF a.id = id THEN 1 ELSE 0)
    BY CountOne, Zenon
  <2> QED BY <1>3, <2>1, Zenon
<1>4. ASSUME NEW a \in ReplyType, NEW b \in ReplyType, replies' = <<a, b>>
      PROVE  In(replies', id) = (IF a.id = id THEN 1 ELSE 0) + (IF b.id = id THEN 1 ELSE 0)
  <2>1. In(<<a, b>>, id) = (IF a.id = id THEN 1 ELSE 0) + (IF b.id = id THEN 1 ELSE 0)
    BY CountTwo, Zenon
  <2> QED BY <1>4, <2>1, Zenon
<1> QED BY <1>1, <1>2, <1>3, <1>4, Zenon

\* The answers of the scan and of the request in hand.
LEMMA Answering ==
  ASSUME TypeInv, NEW outcome \in Service!Outcomes
  PROVE  /\ catalog # None => /\ FinishScan(outcome) \in ReplyType
                              /\ FinishScan(outcome).id = catalog.id
         /\ pc \in FiniteSteps => /\ Reply(current.id, outcome, {}) \in ReplyType
                                  /\ Reply(current.id, outcome, {}).id = current.id
<1>1. catalog # None => /\ FinishScan(outcome) \in ReplyType
                        /\ FinishScan(outcome).id = catalog.id
  BY DEF FinishScan, Reply, ReplyType, ScanType, TypeInv, Typed
<1>2. pc \in FiniteSteps => /\ Reply(current.id, outcome, {}) \in ReplyType
                            /\ Reply(current.id, outcome, {}).id = current.id
  BY DEF Reply, ReplyType, TypeInv, Engaged
<1> QED BY <1>1, <1>2

\* Ending the scan answers it.
LEMMA ScanAnswered ==
  ASSUME TypeInv, replies' = EndScan, NEW id
  PROVE  In(replies', id) = OnScan(id)
<1>1. CASE catalog = None
  <2>1. replies' = <<>>
    BY <1>1 DEF EndScan
  <2>2. In(replies', id) = 0
    BY <2>1, CountReplies
  <2> QED BY <1>1, <2>2 DEF OnScan
<1>2. CASE catalog # None
  <2>1. replies' = <<FinishScan("Ended")>>
    BY <1>2 DEF EndScan
  <2>2. FinishScan("Ended") \in ReplyType /\ FinishScan("Ended").id = catalog.id
    BY <1>2, Answering DEF Service!Outcomes
  <2>3. In(replies', id) = (IF FinishScan("Ended").id = id THEN 1 ELSE 0)
    BY <2>1, <2>2, CountReplies, Zenon
  <2> QED BY <1>2, <2>2, <2>3 DEF OnScan
<1> QED BY <1>1, <1>2

\* The worker leaves the client's data alone, and only moves what it holds.
LEMMA CountHeld ==
  ASSUME TypeInv, CountInv, UNCHANGED <<client, commands, accepted, answer, completions>>,
         \A id \in Ids : /\ In(replies', id) \in Nat
                         /\ OnScan(id)' \in Nat
                         /\ OnCall(id)' \in Nat
                         /\ In(replies', id) + OnScan(id)' + OnCall(id)'
                              = In(replies, id) + OnScan(id) + OnCall(id)
  PROVE  CountInv'
<1>1. ASSUME NEW id \in Ids PROVE Outstanding(id)' = Outstanding(id)
  <2>1. In(commands', id) = In(commands, id) /\ In(completions', id) = In(completions, id)
    OBVIOUS
  <2>2. /\ In(replies', id) \in Nat /\ OnScan(id)' \in Nat /\ OnCall(id)' \in Nat
        /\ In(replies', id) + OnScan(id)' + OnCall(id)' = In(replies, id) + OnScan(id) + OnCall(id)
    OBVIOUS
  <2> QED BY <2>1, <2>2, Places, PlacesType
<1>2. \A i \in DOMAIN commands' : commands'[i].kind = "Host" => commands'[i].id \notin Ids
  BY DEF CountInv
<1> QED BY <1>1, <1>2, CountMoves DEF Open

\* A reply reaches the client's channel, or none does because the client is gone.
LEMMA CountDelivery ==
  ASSUME TypeInv, CountInv, Deliver \/ DeliveryFails \/ QueueClosed
  PROVE  CountInv'
<1>1. ASSUME Deliver PROVE CountInv'
  <2> USE DEF Deliver, clientSide, history
  <2>1. ASSUME NEW id \in Ids PROVE Outstanding(id)' = Outstanding(id)
    <3>1. In(replies, id) = In(Tail(replies), id) + (IF Head(replies).id = id THEN 1 ELSE 0)
      BY <1>1, CountTail DEF TypeInv, Typed
    <3>2. Tail(replies) \in Seq(ReplyType) /\ Head(replies) \in ReplyType
      BY <1>1, Dequeued DEF TypeInv, Typed
    <3>3. In(replies', id) = In(Tail(replies), id) /\ In(Tail(replies), id) \in Nat
      BY <1>1, <3>2, CountType
    <3>4. In(completions, id) = 0
      BY <1>1, CountEmpty
    <3>5. In(<<Head(replies)>>, id) = (IF Head(replies).id = id THEN 1 ELSE 0)
      BY <1>1, <3>2, CountOne
    <3>6. In(completions', id) = (IF Head(replies).id = id THEN 1 ELSE 0)
      BY <1>1, <3>5, Zenon
    <3>7. In(commands', id) = In(commands, id)
      BY <1>1
    <3>8. OnScan(id)' = OnScan(id) /\ OnCall(id)' = OnCall(id)
      BY <1>1 DEF OnScan, OnCall, OnWorker
    <3>9. /\ In(commands, id) \in Nat /\ OnScan(id) \in Nat /\ OnCall(id) \in Nat
      BY PlacesType
    <3> QED BY <3>1, <3>3, <3>4, <3>6, <3>7, <3>8, <3>9, Places
  <2>2. \A i \in DOMAIN commands' : commands'[i].kind = "Host" => commands'[i].id \notin Ids
    BY <1>1 DEF CountInv
  <2>3. UNCHANGED <<answer, accepted>> /\ (Open' => Open)
    BY <1>1 DEF Open
  <2> QED BY <2>1, <2>2, <2>3, CountMoves
<1>2. ASSUME DeliveryFails \/ QueueClosed PROVE CountInv'
  <2> USE DEF DeliveryFails, QueueClosed, WorkerAt, Turn, clientSide, channels, history
  <2>1. ASSUME NEW id \in Ids
        PROVE  Outstanding(id)' \in Int /\ Outstanding(id)' <= Outstanding(id)
    <3>1. OnScan(id)' = OnScan(id)
      BY <1>2 DEF OnScan
    <3>2. OnCall(id)' \in Nat /\ OnCall(id)' <= OnCall(id)
      <4>1. OnCall(id)' = 0
        BY <1>2 DEF OnCall, OnWorker
      <4> QED BY <4>1, PlacesType
    <3>3. In(commands', id) = In(commands, id) /\ In(completions', id) = In(completions, id)
      BY <1>2
    <3>4. In(replies', id) = 0
      BY <1>2, CountReplies
    <3>5. /\ In(commands, id) \in Nat /\ In(completions, id) \in Nat /\ In(replies, id) \in Nat
          /\ OnScan(id) \in Nat /\ OnCall(id) \in Nat
      BY PlacesType
    <3>6. /\ Outstanding(id) = In(commands, id) + In(replies, id) + In(completions, id)
                              + OnScan(id) + OnCall(id)
          /\ Outstanding(id)' = In(commands, id) + 0 + In(completions, id) + OnScan(id) + OnCall(id)'
      BY <3>1, <3>3, <3>4, Places
    <3>7. Outstanding(id)' \in Int
      BY <3>2, <3>5, <3>6
    <3> QED BY <3>2, <3>5, <3>6, <3>7
  <2>2. \A i \in DOMAIN commands' : commands'[i].kind = "Host" => commands'[i].id \notin Ids
    BY <1>2 DEF CountInv
  <2>3. ~Open' /\ UNCHANGED <<answer, accepted>>
    BY <1>2 DEF Open
  <2> QED BY <2>1, <2>2, <2>3, CountDrops
<1> QED BY <1>1, <1>2

\* A request leaves the queue for the worker; a host request ends the scan.
LEMMA CountTaken ==
  ASSUME TypeInv, CountInv, TakeRequest
  PROVE  CountInv'
<1> USE DEF TakeRequest, WorkerAt, clientSide, history
<1> DEFINE request == Head(commands)
<1>1. /\ 1 \in DOMAIN commands
      /\ request = commands[1]
      /\ Tail(commands) \in Seq(RequestType)
      /\ \A i \in DOMAIN Tail(commands) :
           i + 1 \in DOMAIN commands /\ Tail(commands)[i] = commands[i + 1]
  BY Dequeued DEF TypeInv, Typed
<1> HIDE DEF request
<1>2. ASSUME NEW id \in Ids PROVE Outstanding(id)' = Outstanding(id)
  <2>1. In(commands, id) = In(Tail(commands), id) + (IF request.id = id THEN 1 ELSE 0)
    BY CountTail DEF TypeInv, Typed, request
  <2>2. In(commands', id) = In(Tail(commands), id) /\ In(Tail(commands), id) \in Nat
    BY <1>1, CountType
  <2>3. In(completions', id) = In(completions, id) /\ In(replies, id) = 0 /\ OnCall(id) = 0
    BY CountReplies DEF OnCall, OnWorker
  <2>4. In(completions, id) \in Nat /\ OnScan(id) \in Nat
    BY PlacesType
  <2>5. CASE request.kind = "Host"
    <3>1. request.id # id
      BY <1>1, <2>5 DEF CountInv
    <3>2. replies' = EndScan /\ OnScan(id)' = 0 /\ OnCall(id)' = 0
      BY <2>5 DEF OnScan, OnCall, OnWorker, request
    <3>3. In(replies', id) = OnScan(id)
      BY <3>2, ScanAnswered
    <3> QED BY <2>1, <2>2, <2>3, <2>4, <3>1, <3>2, <3>3, Places
  <2>6. CASE request.kind # "Host"
    <3>1. /\ OnScan(id)' = OnScan(id)
          /\ OnCall(id)' = (IF request.id = id THEN 1 ELSE 0)
          /\ In(replies', id) = 0
      BY <2>3, <2>6 DEF OnScan, OnCall, OnWorker, request
    <3> QED BY <2>1, <2>2, <2>3, <2>4, <3>1, Places
  <2> QED BY <2>5, <2>6
<1>3. \A i \in DOMAIN commands' : commands'[i].kind = "Host" => commands'[i].id \notin Ids
  BY <1>1 DEF CountInv
<1>4. UNCHANGED <<answer, accepted>> /\ (Open' => Open)
  BY DEF Open
<1> QED BY <1>2, <1>3, <1>4, CountMoves

\* The checks before a call: a refused request is answered, a new scan replaces
\* the one before, which is answered.
LEMMA CountChecked ==
  ASSUME TypeInv, CountInv, CheckPending \/ CheckToken
  PROVE  CountInv'
<1> USE DEF WorkerAt, Turn, clientSide, channels, history
<1>1. /\ pc \in FiniteSteps /\ replies = <<>> /\ OnWorker
      /\ UNCHANGED <<client, commands, accepted, answer, completions>>
  BY DEF CheckPending, CheckToken, FiniteSteps, OnWorker
<1>2. /\ Reply(current.id, "Rejected", {}) \in ReplyType
      /\ Reply(current.id, "Rejected", {}).id = current.id
  BY <1>1, Answering DEF Service!Outcomes
<1>3. ASSUME NEW id \in Ids
      PROVE  /\ In(replies', id) \in Nat
             /\ OnScan(id)' \in Nat
             /\ OnCall(id)' \in Nat
             /\ In(replies', id) + OnScan(id)' + OnCall(id)'
                  = In(replies, id) + OnScan(id) + OnCall(id)
  <2>1. /\ In(replies, id) = 0
        /\ OnCall(id) = (IF current.id = id THEN 1 ELSE 0)
        /\ OnScan(id) \in Nat
    BY <1>1, CountReplies, PlacesType DEF OnCall
  <2>2. ASSUME Reject, Turn("Receiving"), UNCHANGED catalog
        PROVE  /\ In(replies', id) = (IF current.id = id THEN 1 ELSE 0)
               /\ OnScan(id)' = OnScan(id)
               /\ OnCall(id)' = 0
    <3>1. In(replies', id) = (IF Reply(current.id, "Rejected", {}).id = id THEN 1 ELSE 0)
      BY <1>2, <2>2, CountReplies, Zenon DEF Reject
    <3> QED BY <1>2, <2>2, <3>1 DEF OnScan, OnCall, OnWorker
  <2>3. ASSUME UNCHANGED <<replies, catalog, current>>, OnWorker'
        PROVE  /\ In(replies', id) = 0
               /\ OnScan(id)' = OnScan(id)
               /\ OnCall(id)' = OnCall(id)
    BY <1>1, <2>3, CountReplies DEF OnScan, OnCall
  <2>4. CASE CheckPending
    <3>1. CASE HostPending
      <4>1. Reject /\ Turn("Receiving") /\ UNCHANGED catalog
        BY <2>4, <3>1 DEF CheckPending
      <4> QED BY <2>1, <2>2, <4>1
    <3>2. CASE ~HostPending
      <4>1. UNCHANGED <<replies, catalog, current>> /\ OnWorker'
        BY <2>4, <3>2 DEF CheckPending, OnWorker
      <4> QED BY <2>1, <2>3, <4>1
    <3> QED BY <3>1, <3>2
  <2>5. CASE CheckToken
    <3>1. CASE ~Fresh(current.token)
      <4>1. Reject /\ Turn("Receiving") /\ UNCHANGED catalog
        BY <2>5, <3>1 DEF CheckToken
      <4> QED BY <2>1, <2>2, <4>1
    <3>2. CASE Fresh(current.token) /\ current.kind = "Catalog"
      <4>1. /\ replies' = EndScan
            /\ catalog' = Scan(current.id, current.token)
            /\ pc' = "Receiving"
        BY <2>5, <3>2 DEF CheckToken
      <4>2. In(replies', id) = OnScan(id)
        BY <4>1, ScanAnswered
      <4>3. Scan(current.id, current.token) \in ScanType
        BY <1>1, SizesAssumption DEF TypeInv, Engaged, Scan, ScanType, RequestType
      <4>4. OnScan(id)' = (IF current.id = id THEN 1 ELSE 0) /\ OnCall(id)' = 0
        BY <4>1, <4>3, ApartAssumption DEF OnScan, OnCall, OnWorker, Scan
      <4> QED BY <2>1, <4>2, <4>4
    <3>3. CASE Fresh(current.token) /\ current.kind # "Catalog"
      <4>1. UNCHANGED <<replies, catalog, current>> /\ OnWorker'
        BY <2>5, <3>3 DEF CheckToken, OnWorker
      <4> QED BY <2>1, <2>3, <4>1
    <3> QED BY <3>1, <3>2, <3>3
  <2> QED BY <2>4, <2>5
<1> QED BY <1>1, <1>3, CountHeld

\* A call answers its request, and the scan too when it invalidates it.
LEMMA CountCalled ==
  ASSUME TypeInv, CountInv, Call
  PROVE  CountInv'
<1> USE DEF WorkerAt, Turn, clientSide, channels
<1>1. /\ pc \in FiniteSteps /\ replies = <<>> /\ OnWorker /\ ~OnWorker'
      /\ UNCHANGED <<client, commands, accepted, answer, completions>>
  BY DEF Call, FiniteSteps, OnWorker
<1> DEFINE reply == Reply(current.id, "Executed", {})
           scan == FinishScan("Ended")
<1>2. reply \in ReplyType /\ reply.id = current.id
  BY <1>1, Answering DEF Service!Outcomes
<1>3. catalog # None => scan \in ReplyType /\ scan.id = catalog.id
  BY Answering DEF Service!Outcomes
<1>4. \/ catalog # None /\ catalog' = None /\ replies' = <<reply, scan>>
      \/ /\ replies' = <<reply>>
         /\ catalog' = catalog \/ (catalog # None /\ catalog' = Overtaken)
  BY CallCases
<1> HIDE DEF reply, scan
<1>5. ASSUME NEW id \in Ids
      PROVE  /\ In(replies', id) \in Nat
             /\ OnScan(id)' \in Nat
             /\ OnCall(id)' \in Nat
             /\ In(replies', id) + OnScan(id)' + OnCall(id)'
                  = In(replies, id) + OnScan(id) + OnCall(id)
  <2>1. /\ In(replies, id) = 0
        /\ OnCall(id) = (IF current.id = id THEN 1 ELSE 0)
        /\ OnCall(id)' = 0
        /\ OnScan(id) \in Nat
    BY <1>1, CountReplies, PlacesType DEF OnCall
  <2>2. CASE catalog # None /\ catalog' = None /\ replies' = <<reply, scan>>
    <3>1. In(replies', id) = (IF reply.id = id THEN 1 ELSE 0) + (IF scan.id = id THEN 1 ELSE 0)
      BY <1>2, <1>3, <2>2, CountReplies, Zenon
    <3>2. OnScan(id) = (IF scan.id = id THEN 1 ELSE 0) /\ OnScan(id)' = 0
      BY <1>3, <2>2 DEF OnScan
    <3> QED BY <1>2, <2>1, <3>1, <3>2
  <2>3. CASE /\ replies' = <<reply>>
             /\ catalog' = catalog \/ (catalog # None /\ catalog' = Overtaken)
    <3>1. In(replies', id) = (IF reply.id = id THEN 1 ELSE 0)
      BY <1>2, <2>3, CountReplies, Zenon
    <3>2. OnScan(id)' = OnScan(id)
      <4>1. catalog # None => Overtaken # None /\ Overtaken.id = catalog.id
        BY OvertakenFacts DEF TypeInv, Typed
      <4> QED BY <2>3, <4>1 DEF OnScan
    <3> QED BY <1>2, <2>1, <3>1, <3>2
  <2> QED BY <1>4, <2>2, <2>3
<1> QED BY <1>1, <1>5, CountHeld

\* A scan that ends is answered; one that goes on is the same scan.
LEMMA CountScanned ==
  ASSUME TypeInv, CountInv, ContinueScan \/ ScanStep \/ ReadSlot
  PROVE  CountInv'
<1> USE DEF WorkerAt, Turn, clientSide, channels, history
<1>1. /\ replies = <<>> /\ ~OnWorker /\ ~OnWorker' /\ catalog # None
      /\ UNCHANGED <<client, commands, accepted, answer, completions>>
  BY DEF ContinueScan, ScanStep, ReadSlot, TypeInv, Engaged, OnWorker
<1>2. \/ \E outcome \in Service!Outcomes : replies' = <<FinishScan(outcome)>> /\ catalog' = None
      \/ UNCHANGED replies /\ catalog' # None /\ catalog'.id = catalog.id
  <2>1. CASE ContinueScan
    BY <1>1, <2>1 DEF ContinueScan
  <2>2. CASE ScanStep
    BY <1>1, <2>2 DEF ScanStep, Service!Outcomes
  <2>3. CASE ReadSlot
    <3>1. CASE UNCHANGED replies /\ catalog' = [catalog EXCEPT !.read = @ + 1]
      <4>1. catalog \in ScanType /\ catalog.read + 1 \in 0 .. CatalogSlots
        BY <2>3, SizesAssumption DEF ReadSlot, TypeInv, Engaged, ScanType
      <4>2. catalog' \in ScanType /\ catalog'.id = catalog.id
        BY <3>1, <4>1 DEF ScanType
      <4> QED BY <3>1, <4>2, ApartAssumption
    <3>2. CASE replies' = <<FinishScan("Ended")>> /\ catalog' = None
      BY <3>2 DEF Service!Outcomes
    <3> QED BY <2>3, <3>1, <3>2 DEF ReadSlot
  <2> QED BY <2>1, <2>2, <2>3
<1>3. ASSUME NEW id \in Ids
      PROVE  /\ In(replies', id) \in Nat
             /\ OnScan(id)' \in Nat
             /\ OnCall(id)' \in Nat
             /\ In(replies', id) + OnScan(id)' + OnCall(id)'
                  = In(replies, id) + OnScan(id) + OnCall(id)
  <2>1. /\ In(replies, id) = 0 /\ OnCall(id) = 0 /\ OnCall(id)' = 0
        /\ OnScan(id) = (IF catalog.id = id THEN 1 ELSE 0)
    BY <1>1, CountReplies DEF OnCall, OnScan
  <2>2. CASE UNCHANGED replies /\ catalog' # None /\ catalog'.id = catalog.id
    <3>1. In(replies', id) = 0 /\ OnScan(id)' = OnScan(id)
      BY <1>1, <2>1, <2>2 DEF OnScan
    <3> QED BY <2>1, <3>1
  <2>3. ASSUME NEW outcome \in Service!Outcomes,
               replies' = <<FinishScan(outcome)>>, catalog' = None
        PROVE  In(replies', id) = (IF catalog.id = id THEN 1 ELSE 0) /\ OnScan(id)' = 0
    <3>1. FinishScan(outcome) \in ReplyType /\ FinishScan(outcome).id = catalog.id
      BY <1>1, Answering
    <3>2. In(replies', id) = (IF FinishScan(outcome).id = id THEN 1 ELSE 0)
      BY <2>3, <3>1, CountReplies, Zenon
    <3> QED BY <2>3, <3>1, <3>2 DEF OnScan
  <2>4. CASE \E outcome \in Service!Outcomes : replies' = <<FinishScan(outcome)>> /\ catalog' = None
    <3>1. In(replies', id) = (IF catalog.id = id THEN 1 ELSE 0) /\ OnScan(id)' = 0
      BY <2>3, <2>4
    <3> QED BY <2>1, <3>1
  <2> QED BY <1>2, <2>2, <2>4
<1> QED BY <1>1, <1>3, CountHeld

\* Host lighting moves no request.
LEMMA CountHosting ==
  ASSUME TypeInv, CountInv, HostWork \/ WakeSpuriously
  PROVE  CountInv'
<1>1. /\ UNCHANGED <<client, commands, accepted, answer, completions, replies, catalog>>
      /\ ~OnWorker /\ ~OnWorker'
  BY DEF HostWork, WakeSpuriously, CheckHostToken, CheckHostGeneration, StartHosting, HostTurn,
         FallAsleep, Drive, EndHosting, Restore, OnWorker, WorkerAt, Turn, clientSide, channels,
         history
<1>2. ASSUME NEW id \in Ids
      PROVE  /\ In(replies', id) \in Nat
             /\ OnScan(id)' \in Nat
             /\ OnCall(id)' \in Nat
             /\ In(replies', id) + OnScan(id)' + OnCall(id)'
                  = In(replies, id) + OnScan(id) + OnCall(id)
  <2>1. In(replies', id) = In(replies, id) /\ OnScan(id)' = OnScan(id)
    BY <1>1 DEF OnScan
  <2>2. OnCall(id)' = 0 /\ OnCall(id) = 0
    BY <1>1 DEF OnCall
  <2> QED BY <2>1, <2>2, PlacesType
<1> QED BY <1>1, <1>2, CountHeld
-----------------------------------------------------------------------------
(* The client's steps. *)

\* A request that is accepted is new, and is expected from now on.
LEMMA CountSubmitted ==
  ASSUME TypeInv, CountInv, NEW kind \in Kinds \ {"Host"}, NEW token \in Tokens,
         TrySubmit(kind, token)
  PROVE  CountInv'
<1> USE DEF TrySubmit, worker, workerData
<1>1. CASE UNCHANGED <<commands, accepted>>
  <2>1. ASSUME NEW id \in Ids PROVE Outstanding(id)' = Outstanding(id)
    BY <1>1 DEF Outstanding, In, OnWorker
  <2>2. \A i \in DOMAIN commands' : commands'[i].kind = "Host" => commands'[i].id \notin Ids
    BY <1>1 DEF CountInv
  <2> QED BY <1>1, <2>1, <2>2, CountMoves DEF Open
<1>2. CASE /\ commands' = Append(commands, Request(accepted + 1, kind, token))
           /\ accepted' = accepted + 1
  <2> DEFINE request == Request(accepted + 1, kind, token)
  <2>1. accepted \in Nat /\ accepted + 1 \in Ids
    BY SizesAssumption DEF TypeInv, Typed, Ids
  <2>2. request \in RequestType /\ request.id = accepted + 1 /\ request.kind # "Host"
    BY <2>1, KindsAssumption DEF Request, RequestType
  <2> HIDE DEF request
  <2>3. commands \in Seq(RequestType)
    BY DEF TypeInv, Typed
  <2>4. ASSUME NEW id \in Ids
        PROVE  Outstanding(id)' = Outstanding(id) + (IF id = accepted + 1 THEN 1 ELSE 0)
    <3>1. In(Append(commands, request), id) = In(commands, id) + (IF request.id = id THEN 1 ELSE 0)
      BY <2>2, <2>3, CountAppend
    <3>2. In(commands', id) = In(commands, id) + (IF id = accepted + 1 THEN 1 ELSE 0)
      BY <1>2, <2>2, <3>1 DEF request
    <3>3. /\ In(replies', id) = In(replies, id) /\ In(completions', id) = In(completions, id)
          /\ OnScan(id)' = OnScan(id) /\ OnCall(id)' = OnCall(id)
      BY DEF OnScan, OnCall, OnWorker
    <3>4. /\ In(commands, id) \in Nat /\ In(replies, id) \in Nat /\ In(completions, id) \in Nat
          /\ OnScan(id) \in Nat /\ OnCall(id) \in Nat
      BY PlacesType
    <3>5. /\ Outstanding(id) = In(commands, id) + In(replies, id) + In(completions, id)
                               + OnScan(id) + OnCall(id)
          /\ Outstanding(id)' = In(commands', id) + In(replies', id) + In(completions', id)
                                + OnScan(id)' + OnCall(id)'
      BY Places
    <3> QED BY <3>2, <3>3, <3>4, <3>5
  <2>5. ASSUME NEW id \in Ids
        PROVE  /\ Expected(id)' = Expected(id) + (IF id = accepted + 1 THEN 1 ELSE 0)
               /\ answer[id] # None => id <= accepted
    <3>1. id \in Nat /\ (answer[id] # None => id <= accepted) /\ answer' = answer
      BY DEF CountInv, Ids
    <3> QED BY <1>2, <2>1, <3>1 DEF Expected
  <2>6. ASSUME NEW id \in Ids
        PROVE  /\ Outstanding(id)' <= Expected(id)'
               /\ Open' => Outstanding(id)' = Expected(id)'
               /\ answer'[id] # None => id <= accepted'
    <3>1. Outstanding(id) \in Nat /\ Expected(id) \in Nat /\ id \in Nat
      BY PlacesType DEF Expected, Ids
    <3>2. Outstanding(id) <= Expected(id) /\ (Open => Outstanding(id) = Expected(id))
      BY DEF CountInv
    <3>3. (Open' => Open) /\ answer' = answer
      BY DEF Open
    <3>4. answer'[id] # None => id <= accepted'
      BY <1>2, <2>1, <2>5, <3>1, <3>3
    <3> QED BY <2>4, <2>5, <3>1, <3>2, <3>3, <3>4
  <2>7. \A i \in DOMAIN commands' : commands'[i].kind = "Host" => commands'[i].id \notin Ids
    <3>1. \A i \in DOMAIN commands' :
            commands'[i] = request \/ (i \in DOMAIN commands /\ commands'[i] = commands[i])
      BY <1>2, <2>2, <2>3, Appended DEF request
    <3> QED BY <2>2, <3>1 DEF CountInv
  <2>8. answer' \in [Ids -> Service!Outcomes \cup {None}]
    BY DEF CountInv
  <2> QED BY <2>6, <2>7, <2>8 DEF CountInv
<1> QED BY <1>1, <1>2

\* A host request carries no id.
LEMMA CountHostSent ==
  ASSUME TypeInv, CountInv, SendHost
  PROVE  CountInv'
<1> USE DEF SendHost, worker, workerData
<1>1. CASE UNCHANGED commands
  <2>1. ASSUME NEW id \in Ids PROVE Outstanding(id)' = Outstanding(id)
    BY <1>1 DEF Outstanding, In, OnWorker
  <2>2. \A i \in DOMAIN commands' : commands'[i].kind = "Host" => commands'[i].id \notin Ids
    BY <1>1 DEF CountInv
  <2> QED BY <2>1, <2>2, CountMoves DEF Open
<1>2. CASE commands' = Append(commands, Request(None, "Host", mailbox.ticket))
  <2> DEFINE request == Request(None, "Host", mailbox.ticket)
  <2>1. request \in RequestType /\ request.id = None /\ request.id \notin Ids
    BY NoneApart DEF Request, RequestType, TypeInv, Typed, Engaged, MailboxType
  <2> HIDE DEF request
  <2>2. commands \in Seq(RequestType)
    BY DEF TypeInv, Typed
  <2>3. ASSUME NEW id \in Ids PROVE Outstanding(id)' = Outstanding(id)
    <3>1. In(Append(commands, request), id) = In(commands, id) + (IF request.id = id THEN 1 ELSE 0)
      BY <2>1, <2>2, CountAppend
    <3>2. In(commands, id) \in Nat
      BY PlacesType
    <3>3. In(commands', id) = In(commands, id)
      BY <1>2, <2>1, <3>1, <3>2 DEF request
    <3>4. /\ In(replies', id) = In(replies, id) /\ In(completions', id) = In(completions, id)
          /\ OnScan(id)' = OnScan(id) /\ OnCall(id)' = OnCall(id)
      BY DEF OnScan, OnCall, OnWorker
    <3>5. /\ Outstanding(id) = In(commands, id) + In(replies, id) + In(completions, id)
                               + OnScan(id) + OnCall(id)
          /\ Outstanding(id)' = In(commands', id) + In(replies', id) + In(completions', id)
                                + OnScan(id)' + OnCall(id)'
      BY Places
    <3> QED BY <3>3, <3>4, <3>5
  <2>4. \A i \in DOMAIN commands' : commands'[i].kind = "Host" => commands'[i].id \notin Ids
    <3>1. \A i \in DOMAIN commands' :
            commands'[i] = request \/ (i \in DOMAIN commands /\ commands'[i] = commands[i])
      BY <1>2, <2>1, <2>2, Appended DEF request
    <3> QED BY <2>1, <3>1 DEF CountInv
  <2> QED BY <2>3, <2>4, CountMoves DEF Open
<1> QED BY <1>1, <1>2

\* A completion that is received is the one expected answer of its request.
LEMMA CountReceived ==
  ASSUME TypeInv, CountInv, Receive
  PROVE  /\ CountInv'
         /\ Head(completions) \in ReplyType
         /\ Expected(Head(completions).id) = 1
<1> USE DEF Receive, clientSide, worker, workerData
<1>0. PICK reply \in ReplyType : reply = Head(completions)
  BY Dequeued DEF TypeInv, Typed
<1>1. reply.id \in Ids /\ completions \in Seq(ReplyType)
  BY DEF TypeInv, Typed, ReplyType
<1>2. Open
  BY DEF Open
<1>3. ASSUME NEW id \in Ids
      PROVE  Outstanding(id) = Outstanding(id)' + (IF reply.id = id THEN 1 ELSE 0)
  <2>1. In(completions, id) = In(Tail(completions), id) + (IF reply.id = id THEN 1 ELSE 0)
    BY <1>0, <1>1, CountTail
  <2>2. In(completions', id) = In(Tail(completions), id) /\ In(Tail(completions), id) \in Nat
    <3>1. Tail(completions) \in Seq(ReplyType)
      BY <1>1, Dequeued
    <3> QED BY <3>1, CountType
  <2>3. /\ In(commands', id) = In(commands, id) /\ In(replies', id) = In(replies, id)
        /\ OnScan(id)' = OnScan(id) /\ OnCall(id)' = OnCall(id)
    BY DEF OnScan, OnCall, OnWorker
  <2>4. /\ In(commands, id) \in Nat /\ In(replies, id) \in Nat
        /\ OnScan(id) \in Nat /\ OnCall(id) \in Nat
    BY PlacesType
  <2>5. /\ Outstanding(id) = In(commands, id) + In(replies, id) + In(completions, id)
                             + OnScan(id) + OnCall(id)
        /\ Outstanding(id)' = In(commands', id) + In(replies', id) + In(completions', id)
                              + OnScan(id)' + OnCall(id)'
    BY Places
  <2> QED BY <2>1, <2>2, <2>3, <2>4, <2>5
<1>4. \A id \in Ids : Outstanding(id)' \in Nat
  <2>1. ASSUME NEW id \in Ids PROVE Outstanding(id)' \in Nat
    <3>1. completions' \in Seq(ReplyType)
      BY <1>1, Dequeued
    <3>2. In(completions', id) \in Nat
      BY <3>1, CountType
    <3>3. /\ In(commands', id) = In(commands, id) /\ In(replies', id) = In(replies, id)
          /\ OnScan(id)' = OnScan(id) /\ OnCall(id)' = OnCall(id)
      BY DEF OnScan, OnCall, OnWorker
    <3> QED BY <3>2, <3>3, Places, PlacesType
  <2> QED BY <2>1
<1>5. Expected(reply.id) = 1
  <2>1. Outstanding(reply.id) = Expected(reply.id)
    BY <1>1, <1>2 DEF CountInv
  <2>2. Outstanding(reply.id) = Outstanding(reply.id)' + 1
    BY <1>1, <1>3
  <2>3. Outstanding(reply.id)' \in Nat /\ Expected(reply.id) \in {0, 1}
    BY <1>1, <1>4 DEF Expected
  <2> QED BY <2>1, <2>2, <2>3
<1>6. answer \in [Ids -> Service!Outcomes \cup {None}] /\ reply.outcome \in Service!Outcomes
      /\ reply.outcome # None
  <2>1. reply.outcome \in Service!Outcomes
    BY DEF ReplyType
  <2>2. None \notin Service!Outcomes
    BY ApartAssumption
  <2> QED BY <2>1, <2>2 DEF CountInv
<1>7. answer' = [answer EXCEPT ![reply.id] = reply.outcome]
  BY <1>0
<1>8. ASSUME NEW id \in Ids
      PROVE  /\ Outstanding(id)' = Expected(id)'
             /\ answer'[id] # None => id <= accepted
  <2>1. Outstanding(id) = Expected(id) /\ (answer[id] # None => id <= accepted)
    BY <1>2 DEF CountInv
  <2>2. CASE id = reply.id
    <3>1. answer'[id] # None /\ Expected(id)' = 0 /\ id <= accepted
      BY <1>5, <1>6, <1>7, <2>2 DEF Expected
    <3> QED BY <1>3, <1>4, <1>5, <2>1, <2>2, <3>1
  <2>3. CASE id # reply.id
    <3>1. answer'[id] = answer[id] /\ Expected(id)' = Expected(id)
      BY <1>6, <1>7, <2>3 DEF Expected
    <3> QED BY <1>3, <1>4, <2>1, <2>3, <3>1
  <2> QED BY <2>2, <2>3
<1>9. ASSUME NEW id \in Ids PROVE Expected(id)' \in Nat
  BY DEF Expected
<1>10. CountInv'
  <2>1. \A id \in Ids : /\ Outstanding(id)' <= Expected(id)'
                        /\ Open' => Outstanding(id)' = Expected(id)'
                        /\ answer'[id] # None => id <= accepted'
    BY <1>8, <1>9
  <2>2. answer' \in [Ids -> Service!Outcomes \cup {None}]
    BY <1>1, <1>6, <1>7
  <2>3. \A i \in DOMAIN commands' : commands'[i].kind = "Host" => commands'[i].id \notin Ids
    BY DEF CountInv
  <2> QED BY <2>1, <2>2, <2>3 DEF CountInv
<1> QED BY <1>0, <1>5, <1>10

\* The client drops what is in its channel when it drops the executor; its other
\* steps leave the requests where they are.
LEMMA CountClient ==
  ASSUME TypeInv, CountInv, Client
  PROVE  CountInv'
<1>1. ASSUME UNCHANGED <<commands, completions, replies, catalog, current, accepted, answer>>,
             OnWorker' = OnWorker, Open' => Open
      PROVE  CountInv'
  <2>1. ASSUME NEW id \in Ids PROVE Outstanding(id)' = Outstanding(id)
    BY <1>1 DEF Outstanding, In
  <2>2. \A i \in DOMAIN commands' : commands'[i].kind = "Host" => commands'[i].id \notin Ids
    BY <1>1 DEF CountInv
  <2> QED BY <1>1, <2>1, <2>2, CountMoves
<1>2. ASSUME NEW g, SetGeneration(g) PROVE CountInv'
  BY <1>1, <1>2 DEF SetGeneration, Publish, worker, workerData, channels, OnWorker, Open
<1>3. ASSUME NEW token \in Tokens, Reserve(token) PROVE CountInv'
  BY <1>1, <1>3 DEF Reserve, worker, workerData, channels, OnWorker, Open
<1>4. ASSUME HostCalls PROVE CountInv'
  BY <1>1, <1>4 DEF HostCalls, Feed, StopHost, ReceiveHost, Notify, worker, workerData, channels,
                    clientSide, history, OnWorker, Open
<1>5. ASSUME CancelCatalog \/ Retire \/ GenerationChanged \/ CancelForHost \/ Close PROVE CountInv'
  BY <1>1, <1>5 DEF CancelCatalog, Retire, Publish, GenerationChanged, CancelForHost, Close,
                    Notify, worker, workerData, channels, history, OnWorker, Open
<1>6. ASSUME DropChannels PROVE CountInv'
  <2> USE DEF DropChannels, worker, workerData, history
  <2>1. ASSUME NEW id \in Ids
        PROVE  Outstanding(id)' \in Int /\ Outstanding(id)' <= Outstanding(id)
    <3>1. In(completions', id) = 0
      BY <1>6, CountEmpty
    <3>2. /\ In(commands', id) = In(commands, id) /\ In(replies', id) = In(replies, id)
          /\ OnScan(id)' = OnScan(id) /\ OnCall(id)' = OnCall(id)
      BY <1>6 DEF OnScan, OnCall, OnWorker
    <3>3. /\ In(commands, id) \in Nat /\ In(completions, id) \in Nat /\ In(replies, id) \in Nat
          /\ OnScan(id) \in Nat /\ OnCall(id) \in Nat
      BY PlacesType
    <3>4. /\ Outstanding(id) = In(commands, id) + In(replies, id) + In(completions, id)
                               + OnScan(id) + OnCall(id)
          /\ Outstanding(id)' = In(commands, id) + In(replies, id) + 0 + OnScan(id) + OnCall(id)
      BY <3>1, <3>2, Places
    <3> QED BY <3>3, <3>4
  <2>2. \A i \in DOMAIN commands' : commands'[i].kind = "Host" => commands'[i].id \notin Ids
    BY <1>6 DEF CountInv
  <2>3. ~Open' /\ UNCHANGED <<answer, accepted>>
    BY <1>6 DEF Open
  <2> QED BY <2>1, <2>2, <2>3, CountDrops
<1>7. ASSUME Submissions PROVE CountInv'
  BY <1>3, <1>7, CountSubmitted DEF Submissions, Tokens
<1> QED BY <1>2, <1>4, <1>5, <1>6, <1>7, CountHostSent, CountReceived DEF Client, ClientContinues
-----------------------------------------------------------------------------
(* The theorem. *)

\* Every step keeps the count.
LEMMA CountStep ==
  ASSUME TypeInv, CountInv, [Next]_vars
  PROVE  CountInv'
<1>1. ASSUME Worker \/ WakeSpuriously PROVE CountInv'
  BY <1>1, CountDelivery, CountTaken, CountChecked, CountCalled, CountScanned, CountHosting
     DEF Worker, FiniteWork
<1>2. ASSUME UNCHANGED vars PROVE CountInv'
  <2>1. ASSUME NEW id \in Ids PROVE Outstanding(id)' = Outstanding(id)
    BY <1>2 DEF vars, channels, worker, workerData, Outstanding, In, OnWorker
  <2>2. \A i \in DOMAIN commands' : commands'[i].kind = "Host" => commands'[i].id \notin Ids
    BY <1>2 DEF CountInv, vars, channels
  <2>3. UNCHANGED <<answer, accepted>> /\ (Open' => Open)
    BY <1>2 DEF vars, history, Open
  <2> QED BY <2>1, <2>2, <2>3, CountMoves
<1> QED BY <1>1, <1>2, CountClient DEF Next, Terminated

\* Nothing is outstanding at first.
LEMMA CountInit ==
  ASSUME Init
  PROVE  CountInv
<1> USE DEF Init
<1>1. ASSUME NEW id \in Ids PROVE Outstanding(id) = 0 /\ Expected(id) = 0 /\ answer[id] = None
  <2>1. In(commands, id) = 0 /\ In(replies, id) = 0 /\ In(completions, id) = 0
    BY CountEmpty, Zenon
  <2>2. OnScan(id) = 0 /\ OnCall(id) = 0
    BY DEF OnScan, OnCall, OnWorker
  <2>3. Expected(id) = 0 /\ answer[id] = None
    BY DEF Expected, Ids
  <2> QED BY <2>1, <2>2, <2>3, Places
<1>2. answer \in [Ids -> Service!Outcomes \cup {None}]
  OBVIOUS
<1> QED BY <1>1, <1>2 DEF CountInv

\* The types and the count hold together.
LEMMA CountInvariant == Spec => [](TypeInv /\ CountInv)
<1>1. Spec => []TypeInv
  BY TypeInvariant
<1>2. Init => CountInv
  BY CountInit
<1>3. TypeInv /\ CountInv /\ [Next]_vars => CountInv'
  BY CountStep
<1> QED BY <1>1, <1>2, <1>3, PTL DEF Spec

\* While the executor is open, an accepted request that was not answered has
\* exactly one answer to come, wherever a scan was replaced, invalidated,
\* cancelled or refused, and any other request none (executor.rs, the worker loop).
THEOREM OneAnswer == Spec => []OneAnswerComing
<1>1. CountInv => OneAnswerComing
  BY DEF CountInv, OneAnswerComing, Expected
<1> QED BY <1>1, CountInvariant, PTL
-----------------------------------------------------------------------------
(* What an answer says. *)

\* The outcome of a reply agrees with whether its request touched the device.
Truthful(reply) ==
  /\ reply.outcome = "Rejected" => reply.id \notin started
  /\ reply.outcome \in {"Executed", "Scanned"} => reply.id \in started

\* Every reply on its way is truthful; what is queued or in hand has not touched
\* the device, and a scan has once it has read a slot.
TruthInv ==
  /\ started \subseteq 1 .. accepted
  /\ \A i \in DOMAIN commands : commands[i].kind # "Host" => commands[i].id \notin started
  /\ pc \in FiniteSteps => current.id \notin started
  /\ \A i \in DOMAIN replies : Truthful(replies[i])
  /\ \A i \in DOMAIN completions : Truthful(completions[i])
  /\ catalog # None /\ catalog.read > 0 => catalog.id \in started

\* A request on the worker or the one of the scan is accepted, has no answer, and
\* is nowhere else.
LEMMA OnlyPlace ==
  ASSUME TypeInv, CountInv, NEW id \in Ids, OnCall(id) = 1 \/ OnScan(id) = 1
  PROVE  /\ id \in 1 .. accepted /\ answer[id] = None
         /\ \A i \in DOMAIN commands : commands[i].id # id
         /\ \A i \in DOMAIN replies : replies[i].id # id
         /\ \A i \in DOMAIN completions : completions[i].id # id
<1>1. /\ In(commands, id) \in Nat /\ In(replies, id) \in Nat /\ In(completions, id) \in Nat
      /\ OnScan(id) \in Nat /\ OnCall(id) \in Nat
  BY PlacesType
<1>2. Outstanding(id) = In(commands, id) + In(replies, id) + In(completions, id)
                        + OnScan(id) + OnCall(id)
  BY Places
<1>3. Outstanding(id) <= Expected(id) /\ Expected(id) \in {0, 1}
  BY DEF CountInv, Expected
<1>4. Expected(id) = 1 /\ In(commands, id) = 0 /\ In(replies, id) = 0 /\ In(completions, id) = 0
  BY <1>1, <1>2, <1>3
<1>5. id \in 1 .. accepted /\ answer[id] = None
  BY <1>4 DEF Expected, Ids, TypeInv, Typed
<1>6. \A i \in DOMAIN commands : commands[i].id # id
  <2>1. ASSUME NEW i \in DOMAIN commands, commands[i].id = id PROVE FALSE
    <3>1. In(commands, id) >= 1
      BY <2>1, CountMember DEF TypeInv, Typed
    <3> QED BY <1>4, <3>1
  <2> QED BY <2>1
<1>7. \A i \in DOMAIN replies : replies[i].id # id
  <2>1. ASSUME NEW i \in DOMAIN replies, replies[i].id = id PROVE FALSE
    <3>1. In(replies, id) >= 1
      BY <2>1, CountMember DEF TypeInv, Typed
    <3> QED BY <1>4, <3>1
  <2> QED BY <2>1
<1>8. \A i \in DOMAIN completions : completions[i].id # id
  <2>1. ASSUME NEW i \in DOMAIN completions, completions[i].id = id PROVE FALSE
    <3>1. In(completions, id) >= 1
      BY <2>1, CountMember DEF TypeInv, Typed
    <3> QED BY <1>4, <3>1
  <2> QED BY <2>1
<1> QED BY <1>5, <1>6, <1>7, <1>8

\* The client takes truthful replies, and submits requests that are new.
LEMMA TruthClient ==
  ASSUME TypeInv, TruthInv, Client
  PROVE  TruthInv'
<1> USE DEF TruthInv, Truthful
<1>1. ASSUME NEW kind \in Kinds \ {"Host"}, NEW token, TrySubmit(kind, token)
      PROVE  TruthInv'
  <2> DEFINE request == Request(accepted + 1, kind, token)
  <2>1. /\ UNCHANGED <<started, pc, current, replies, completions, catalog>>
        /\ \/ UNCHANGED <<commands, accepted>>
           \/ commands' = Append(commands, request) /\ accepted' = accepted + 1
    BY <1>1 DEF TrySubmit, worker, workerData
  <2>2. accepted \in Nat /\ request.id = accepted + 1 /\ accepted + 1 \notin started
    BY DEF TypeInv, Typed, Request
  <2> HIDE DEF request
  <2>3. CASE UNCHANGED <<commands, accepted>>
    BY <2>1, <2>3
  <2>4. CASE commands' = Append(commands, request) /\ accepted' = accepted + 1
    <3>1. \A i \in DOMAIN commands' :
            commands'[i] = request \/ (i \in DOMAIN commands /\ commands'[i] = commands[i])
      BY <2>4 DEF TypeInv, Typed
    <3> QED BY <2>1, <2>2, <2>4, <3>1
  <2> QED BY <2>1, <2>3, <2>4
<1>2. ASSUME SendHost PROVE TruthInv'
  <2> DEFINE request == Request(None, "Host", mailbox.ticket)
  <2>1. /\ UNCHANGED <<started, accepted, pc, current, replies, completions, catalog>>
        /\ UNCHANGED commands \/ commands' = Append(commands, request)
    BY <1>2 DEF SendHost, worker, workerData
  <2>2. request.kind = "Host"
    BY DEF Request
  <2> HIDE DEF request
  <2>3. CASE commands' = Append(commands, request)
    <3>1. \A i \in DOMAIN commands' :
            commands'[i] = request \/ (i \in DOMAIN commands /\ commands'[i] = commands[i])
      BY <2>3 DEF TypeInv, Typed
    <3> QED BY <2>1, <2>2, <3>1
  <2> QED BY <2>1, <2>3
<1>3. ASSUME Receive PROVE TruthInv'
  <2>1. /\ UNCHANGED <<started, accepted, pc, current, replies, commands, catalog>>
        /\ completions # <<>> /\ completions' = Tail(completions)
    BY <1>3 DEF Receive, worker, workerData
  <2>2. \A i \in DOMAIN completions' :
          i + 1 \in DOMAIN completions /\ completions'[i] = completions[i + 1]
    BY <2>1, Dequeued DEF TypeInv, Typed
  <2> QED BY <2>1, <2>2
<1>4. ASSUME DropChannels PROVE TruthInv'
  BY <1>4 DEF DropChannels, worker, workerData, history
<1>5. ASSUME UNCHANGED <<started, accepted, current, replies, completions, commands, catalog>>,
             pc' \in FiniteSteps => pc \in FiniteSteps
      PROVE  TruthInv'
  BY <1>5
<1>6. ASSUME NEW g, SetGeneration(g) PROVE TruthInv'
  BY <1>5, <1>6 DEF SetGeneration, Publish, worker, workerData, channels
<1>7. ASSUME NEW token, Reserve(token) PROVE TruthInv'
  BY <1>5, <1>7 DEF Reserve, worker, workerData, channels
<1>8. ASSUME HostCalls PROVE TruthInv'
  BY <1>5, <1>8 DEF HostCalls, Feed, StopHost, ReceiveHost, Notify, worker, workerData, channels,
                    history, FiniteSteps
<1>9. ASSUME CancelCatalog \/ Retire \/ GenerationChanged \/ CancelForHost \/ Close PROVE TruthInv'
  BY <1>5, <1>9 DEF CancelCatalog, Retire, Publish, GenerationChanged, CancelForHost, Close,
                    Notify, worker, workerData, channels, history, FiniteSteps
<1> QED BY <1>1, <1>2, <1>3, <1>4, <1>6, <1>7, <1>8, <1>9
        DEF Client, ClientContinues, Submissions, HostCalls

\* A reply without a request behind it, or with a scan that ends early, is truthful.
LEMMA TruthSteps ==
  ASSUME TypeInv, TruthInv,
         FiniteWork \/ HostWork \/ WakeSpuriously, ~Call, ~ReadSlot
  PROVE  TruthInv'
<1> USE DEF TruthInv, Truthful, WorkerAt, Turn, clientSide, channels, history, FiniteSteps
<1>1. ASSUME Deliver PROVE TruthInv'
  <2>1. /\ UNCHANGED <<started, accepted, pc, current, commands, catalog>>
        /\ replies # <<>> /\ replies' = Tail(replies)
        /\ completions' = <<Head(replies)>>
    BY <1>1 DEF Deliver
  <2>2. /\ 1 \in DOMAIN replies /\ Head(replies) = replies[1]
        /\ \A i \in DOMAIN replies' : i + 1 \in DOMAIN replies /\ replies'[i] = replies[i + 1]
    BY <2>1, Dequeued DEF TypeInv, Typed
  <2>3. \A i \in DOMAIN completions' : completions'[i] = replies[1]
    BY <2>1, <2>2
  <2> QED BY <2>1, <2>2, <2>3
<1>2. ASSUME DeliveryFails \/ QueueClosed \/ ContinueScan PROVE TruthInv'
  <2>1. /\ UNCHANGED <<started, accepted, commands, completions, catalog>>
        /\ replies' = <<>> \/ UNCHANGED replies
        /\ pc' \notin FiniteSteps
    BY <1>2 DEF DeliveryFails, QueueClosed, ContinueScan
  <2>2. \A i \in DOMAIN replies' : Truthful(replies[i])'
    BY <2>1
  <2> QED BY <2>1, <2>2
<1>3. ASSUME TakeRequest PROVE TruthInv'
  <2>1. /\ UNCHANGED <<started, accepted, completions>>
        /\ commands # <<>> /\ current' = Head(commands) /\ commands' = Tail(commands)
        /\ \/ /\ Head(commands).kind = "Host" /\ pc' = "HostToken"
              /\ replies' = EndScan /\ catalog' = None
           \/ Head(commands).kind # "Host" /\ UNCHANGED <<replies, catalog>>
    BY <1>3 DEF TakeRequest
  <2>2. /\ 1 \in DOMAIN commands /\ Head(commands) = commands[1]
        /\ \A i \in DOMAIN commands' : i + 1 \in DOMAIN commands /\ commands'[i] = commands[i + 1]
    BY <2>1, Dequeued DEF TypeInv, Typed
  <2>3. \A i \in DOMAIN EndScan : EndScan[i].outcome = "Ended"
    BY DEF EndScan, FinishScan, Reply
  <2> QED BY <2>1, <2>2, <2>3
<1>4. ASSUME CheckPending PROVE TruthInv'
  BY <1>4 DEF CheckPending, Reject, Reply
<1>5. ASSUME CheckToken PROVE TruthInv'
  <2>1. \A i \in DOMAIN EndScan : EndScan[i].outcome = "Ended"
    BY DEF EndScan, FinishScan, Reply
  <2>2. /\ UNCHANGED <<started, accepted, commands, completions>>
        /\ current.id \notin started
    BY <1>5 DEF CheckToken
  <2>3. CASE Reject /\ Turn("Receiving") /\ UNCHANGED catalog
    BY <2>2, <2>3 DEF Reject, Reply
  <2>4. CASE /\ replies' = EndScan /\ catalog' = Scan(current.id, current.token)
             /\ Turn("Receiving")
    BY <2>1, <2>2, <2>4 DEF Scan
  <2>5. CASE Turn("Calling") /\ UNCHANGED <<replies, catalog>>
    BY <2>2, <2>5
  <2> QED BY <1>5, <2>3, <2>4, <2>5 DEF CheckToken
<1>6. ASSUME ScanStep PROVE TruthInv'
  <2>1. /\ UNCHANGED <<started, accepted, commands, completions>>
        /\ pc' \in {"Receiving", "Reading"} /\ catalog # None
    BY <1>6 DEF ScanStep, TypeInv, Engaged
  <2>2. CASE UNCHANGED <<replies, catalog>>
    BY <2>1, <2>2
  <2>3. CASE replies' = <<FinishScan("Ended")>> /\ catalog' = None
    BY <2>1, <2>3 DEF FinishScan, Reply
  <2>4. CASE /\ replies' = <<FinishScan("Scanned")>> /\ catalog' = None
             /\ catalog.read = CatalogSlots
    BY <2>1, <2>4, SizesAssumption DEF FinishScan, Reply
  <2> QED BY <1>6, <2>2, <2>3, <2>4 DEF ScanStep
<1>7. ASSUME HostWork \/ WakeSpuriously PROVE TruthInv'
  <2>1. /\ UNCHANGED <<started, accepted, commands, completions, replies, catalog>>
        /\ pc' \notin FiniteSteps
    BY <1>7 DEF HostWork, WakeSpuriously, CheckHostToken, CheckHostGeneration, StartHosting,
                HostTurn, FallAsleep, Drive, EndHosting, Restore
  <2> QED BY <2>1
<1> QED BY <1>1, <1>2, <1>3, <1>4, <1>5, <1>6, <1>7 DEF FiniteWork

\* A request whose first call begins was nowhere else, so no reply says otherwise.
LEMMA TruthBegins ==
  ASSUME TypeInv, CountInv, TruthInv, Call \/ ReadSlot
  PROVE  TruthInv'
<1> USE DEF WorkerAt, Turn, clientSide, channels, history
<1>1. ASSUME NEW x \in Ids, OnCall(x) = 1 \/ OnScan(x) = 1,
             replies = <<>>, UNCHANGED <<accepted, commands, completions>>,
             started' = started \cup {x}, pc' = "Receiving",
             \A i \in DOMAIN replies' : replies'[i].outcome = "Ended"
                                        \/ (replies'[i].outcome = "Executed" /\ replies'[i].id = x),
             catalog' # None => \/ catalog # None /\ catalog'.id = catalog.id
                                                  /\ catalog'.read = catalog.read
                                \/ catalog'.id = x
      PROVE  TruthInv'
  <2>1. /\ x \in 1 .. accepted
        /\ \A i \in DOMAIN commands : commands[i].id # x
        /\ \A i \in DOMAIN completions : completions[i].id # x
    BY <1>1, OnlyPlace
  <2>2. started' \subseteq 1 .. accepted'
    BY <1>1, <2>1 DEF TruthInv
  <2>3. \A i \in DOMAIN commands' : commands'[i].kind # "Host" => commands'[i].id \notin started'
    BY <1>1, <2>1 DEF TruthInv
  <2>4. \A i \in DOMAIN completions' : Truthful(completions[i])'
    BY <1>1, <2>1 DEF TruthInv, Truthful
  <2>5. \A i \in DOMAIN replies' : Truthful(replies[i])'
    BY <1>1 DEF Truthful
  <2>6. catalog' # None /\ catalog'.read > 0 => catalog'.id \in started'
    BY <1>1 DEF TruthInv
  <2> QED BY <1>1, <2>2, <2>3, <2>4, <2>5, <2>6 DEF TruthInv, FiniteSteps, Truthful
<1>2. ASSUME Call PROVE TruthInv'
  <2>1. current.id \in Ids /\ OnCall(current.id) = 1
    BY <1>2 DEF Call, TypeInv, Engaged, FiniteSteps, OnCall, OnWorker
  <2> DEFINE reply == Reply(current.id, "Executed", {})
             scan == FinishScan("Ended")
  <2>2. /\ replies = <<>> /\ UNCHANGED <<accepted, commands, completions>>
        /\ started' = started \cup {current.id} /\ pc' = "Receiving"
    BY <1>2 DEF Call
  <2>3. \/ catalog # None /\ catalog' = None /\ replies' = <<reply, scan>>
        \/ /\ replies' = <<reply>>
           /\ catalog' = catalog \/ (catalog # None /\ catalog' = Overtaken)
    BY <1>2, CallCases
  <2>4. reply.outcome = "Executed" /\ reply.id = current.id /\ scan.outcome = "Ended"
    BY DEF Reply, FinishScan
  <2> HIDE DEF reply, scan
  <2>5. \A i \in DOMAIN replies' :
          replies'[i].outcome = "Ended"
          \/ (replies'[i].outcome = "Executed" /\ replies'[i].id = current.id)
    BY <2>3, <2>4
  <2>6. catalog' # None => catalog # None /\ catalog'.id = catalog.id /\ catalog'.read = catalog.read
    BY <2>3, OvertakenFacts DEF TypeInv, Typed
  <2>7. PICK x \in Ids : x = current.id
    BY <2>1
  <2> QED BY <1>1, <2>1, <2>2, <2>5, <2>6, <2>7
<1>3. ASSUME ReadSlot PROVE TruthInv'
  <2>1. catalog \in ScanType /\ catalog # None /\ OnScan(catalog.id) = 1 /\ catalog.id \in Ids
    BY <1>3 DEF ReadSlot, TypeInv, Engaged, OnScan, ScanType
  <2>2. /\ replies = <<>> /\ UNCHANGED <<accepted, commands, completions>>
        /\ started' = started \cup {catalog.id} /\ pc' = "Receiving"
    BY <1>3 DEF ReadSlot
  <2>3. \/ catalog' = [catalog EXCEPT !.read = @ + 1] /\ UNCHANGED replies
        \/ replies' = <<FinishScan("Ended")>> /\ catalog' = None
    BY <1>3 DEF ReadSlot
  <2>4. FinishScan("Ended").outcome = "Ended"
    BY DEF Reply, FinishScan
  <2>5. \A i \in DOMAIN replies' : replies'[i].outcome = "Ended"
    BY <2>2, <2>3, <2>4
  <2>6. catalog' # None => catalog'.id = catalog.id
    BY <2>1, <2>3 DEF ScanType
  <2>7. PICK x \in Ids : x = catalog.id
    BY <2>1
  <2> QED BY <1>1, <2>1, <2>2, <2>5, <2>6, <2>7
<1> QED BY <1>2, <1>3
-----------------------------------------------------------------------------
(* The refinement. *)

\* A step of the executor is a step of the service or leaves it as it is.
LEMMA ServiceStep ==
  ASSUME TypeInv, CountInv, TruthInv, [Next]_vars
  PROVE  [Service!Next]_(Service!vars)
<1> USE DEF Service!vars
<1>1. ASSUME NEW x \in Ids, OnCall(x) = 1 \/ OnScan(x) = 1,
             started' = started \cup {x}, UNCHANGED <<accepted, answer>>
      PROVE  [Service!Next]_(Service!vars)
  <2>1. x \in 1 .. accepted /\ answer[x] = None
    BY <1>1, OnlyPlace
  <2>2. CASE x \in started
    BY <1>1, <2>2
  <2>3. CASE x \notin started
    <3>1. Service!Start(x)
      BY <1>1, <2>1, <2>3 DEF Service!Start
    <3> QED BY <1>1, <3>1 DEF Service!Next
  <2> QED BY <2>2, <2>3
<1>2. ASSUME Call PROVE [Service!Next]_(Service!vars)
  <2>1. current.id \in Ids /\ OnCall(current.id) = 1
    BY <1>2 DEF Call, WorkerAt, TypeInv, Engaged, FiniteSteps, OnCall, OnWorker
  <2>2. started' = started \cup {current.id} /\ UNCHANGED <<accepted, answer>>
    BY <1>2 DEF Call
  <2>3. PICK x \in Ids : x = current.id
    BY <2>1
  <2> QED BY <1>1, <2>1, <2>2, <2>3
<1>3. ASSUME ReadSlot PROVE [Service!Next]_(Service!vars)
  <2>1. catalog.id \in Ids /\ OnScan(catalog.id) = 1
    BY <1>3 DEF ReadSlot, WorkerAt, TypeInv, Engaged, OnScan, ScanType
  <2>2. started' = started \cup {catalog.id} /\ UNCHANGED <<accepted, answer>>
    BY <1>3 DEF ReadSlot
  <2>3. PICK x \in Ids : x = catalog.id
    BY <2>1
  <2> QED BY <1>1, <2>1, <2>2, <2>3
<1>4. ASSUME Receive PROVE [Service!Next]_(Service!vars)
  <2>1. PICK reply \in ReplyType : reply = Head(completions)
    BY <1>4, CountReceived
  <2>2. Expected(reply.id) = 1 /\ reply.id \in Ids /\ reply.outcome \in Service!Outcomes
    BY <1>4, <2>1, CountReceived DEF ReplyType
  <2>3. reply.id \in 1 .. accepted /\ answer[reply.id] = None
    BY <2>2 DEF Expected, Ids, TypeInv, Typed
  <2>4. Truthful(reply)
    <3>1. completions # <<>>
      BY <1>4 DEF Receive
    <3> QED BY <2>1, <3>1, Dequeued DEF TruthInv, TypeInv, Typed
  <2>5. /\ answer' = [answer EXCEPT ![reply.id] = reply.outcome]
        /\ UNCHANGED <<accepted, started>>
    BY <1>4, <2>1 DEF Receive
  <2>6. Service!Answer(reply.id, reply.outcome)
    BY <2>3, <2>4, <2>5 DEF Service!Answer, Truthful
  <2> QED BY <2>2, <2>6 DEF Service!Next
<1>5. ASSUME NEW kind, NEW token, TrySubmit(kind, token) PROVE [Service!Next]_(Service!vars)
  <2>1. /\ UNCHANGED <<started, answer>>
        /\ UNCHANGED accepted \/ (accepted < MaxRequests /\ accepted' = accepted + 1)
    BY <1>5 DEF TrySubmit
  <2>2. CASE UNCHANGED accepted
    BY <2>1, <2>2
  <2>3. CASE accepted < MaxRequests /\ accepted' = accepted + 1
    <3>1. accepted + 1 \in Ids /\ 1 .. accepted' = (1 .. accepted) \cup {accepted + 1}
      BY <2>3, SizesAssumption DEF TypeInv, Typed, Ids
    <3>2. accepted + 1 \notin 1 .. accepted
      BY DEF TypeInv, Typed
    <3>3. Service!Submit(accepted + 1)
      BY <2>1, <3>1, <3>2 DEF Service!Submit
    <3> QED BY <3>1, <3>3 DEF Service!Next
  <2> QED BY <2>1, <2>2, <2>3
<1>6. ASSUME UNCHANGED <<accepted, started, answer>> PROVE [Service!Next]_(Service!vars)
  BY <1>6
<1>7. ASSUME NEW g, SetGeneration(g) PROVE [Service!Next]_(Service!vars)
  BY <1>6, <1>7 DEF SetGeneration
<1>8. ASSUME NEW token, Reserve(token) PROVE [Service!Next]_(Service!vars)
  BY <1>6, <1>8 DEF Reserve
<1>9. ASSUME HostCalls \/ CancelCatalog \/ Retire \/ ClientContinues
      PROVE  [Service!Next]_(Service!vars)
  BY <1>6, <1>9 DEF HostCalls, Feed, StopHost, ReceiveHost, CancelCatalog, Retire, ClientContinues,
                    GenerationChanged, CancelForHost, SendHost, Close, DropChannels, history
<1>10. ASSUME FiniteWork, ~Call, ~ReadSlot PROVE [Service!Next]_(Service!vars)
  BY <1>6, <1>10 DEF FiniteWork, Deliver, DeliveryFails, TakeRequest, QueueClosed, ContinueScan,
                     CheckPending, CheckToken, ScanStep, history
<1>11. ASSUME HostWork \/ WakeSpuriously PROVE [Service!Next]_(Service!vars)
  BY <1>6, <1>11 DEF HostWork, WakeSpuriously, CheckHostToken, CheckHostGeneration, StartHosting,
                     HostTurn, FallAsleep, Drive, EndHosting, Restore, history
<1>12. ASSUME UNCHANGED vars PROVE [Service!Next]_(Service!vars)
  BY <1>6, <1>12 DEF vars, history
<1> QED BY <1>2, <1>3, <1>4, <1>5, <1>7, <1>8, <1>9, <1>10, <1>11, <1>12
        DEF Next, Terminated, Client, Submissions, Worker

\* Every step keeps replies truthful.
LEMMA TruthStep ==
  ASSUME TypeInv, CountInv, TruthInv, [Next]_vars
  PROVE  TruthInv'
<1>1. ASSUME UNCHANGED vars PROVE TruthInv'
  BY <1>1 DEF vars, channels, worker, workerData, history, TruthInv, Truthful
<1>2. ASSUME Worker \/ WakeSpuriously PROVE TruthInv'
  BY <1>2, TruthSteps, TruthBegins DEF Worker
<1> QED BY <1>1, <1>2, TruthClient DEF Next, Terminated

\* The executor implements DeviceService: a request it accepts is answered at
\* most once; it is answered "Rejected" only when it has not touched the device
\* and never will, and "Executed" or "Scanned" only when it has (executor.rs).
THEOREM ExecutorServes == Spec => ServiceSpec
<1>1. Init => TruthInv
  BY DEF Init, TruthInv, FiniteSteps
<1>2. TypeInv /\ CountInv /\ TruthInv /\ [Next]_vars => TruthInv'
  BY TruthStep
<1>3. Init => Service!Init
  <2>1. 1 .. 0 = {}
    OBVIOUS
  <2> QED BY <2>1 DEF Init, Service!Init
<1>4. TypeInv /\ CountInv /\ TruthInv /\ [Next]_vars => [Service!Next]_(Service!vars)
  BY ServiceStep
<1> QED BY <1>1, <1>2, <1>3, <1>4, CountInvariant, PTL DEF Spec, ServiceSpec, Service!Spec
-----------------------------------------------------------------------------
(* The catalog. *)

\* Neither the scan in progress nor a complete one on its way was overtaken by
\* anything but an archive that was written.
Current(stale) == stale \subseteq {ArchiveWritten}
CatalogInv ==
  /\ catalog # None => Current(catalog.stale)
  /\ \A i \in DOMAIN replies : replies[i].outcome = "Scanned" => Current(replies[i].stale)
  /\ \A i \in DOMAIN completions :
       completions[i].outcome = "Scanned" => Current(completions[i].stale)

\* Any other write that may have changed slots ends the scan it overtakes.
LEMMA CatalogStep ==
  ASSUME TypeInv, CatalogInv, [Next]_vars
  PROVE  CatalogInv'
<1> USE DEF CatalogInv
<1>1. ASSUME UNCHANGED <<catalog, replies>>, UNCHANGED completions \/ completions' = <<>>
      PROVE  CatalogInv'
  <2>1. CASE UNCHANGED completions
    BY <1>1, <2>1
  <2>2. CASE completions' = <<>>
    BY <1>1, <2>2
  <2> QED BY <1>1, <2>1, <2>2
<1>2. ASSUME Receive PROVE CatalogInv'
  <2>1. /\ UNCHANGED <<catalog, replies>>
        /\ completions # <<>> /\ completions' = Tail(completions)
    BY <1>2 DEF Receive, worker, workerData
  <2>2. \A i \in DOMAIN completions' :
          i + 1 \in DOMAIN completions /\ completions'[i] = completions[i + 1]
    BY <2>1, Dequeued DEF TypeInv, Typed
  <2> QED BY <2>1, <2>2
<1>3. ASSUME Deliver PROVE CatalogInv'
  <2>1. /\ UNCHANGED catalog
        /\ replies # <<>> /\ replies' = Tail(replies)
        /\ completions' = <<Head(replies)>>
    BY <1>3 DEF Deliver
  <2>2. /\ 1 \in DOMAIN replies /\ Head(replies) = replies[1]
        /\ \A i \in DOMAIN replies' : i + 1 \in DOMAIN replies /\ replies'[i] = replies[i + 1]
    BY <2>1, Dequeued DEF TypeInv, Typed
  <2>3. \A i \in DOMAIN completions' : completions'[i] = replies[1]
    BY <2>1, <2>2
  <2> QED BY <2>1, <2>2, <2>3
<1>4. ASSUME UNCHANGED completions, catalog' # None => Current(catalog'.stale),
             \A i \in DOMAIN replies' : replies'[i].outcome = "Scanned" => Current(replies'[i].stale)
      PROVE  CatalogInv'
  BY <1>4
<1>5. \A i \in DOMAIN EndScan : EndScan[i].outcome = "Ended"
  BY DEF EndScan, FinishScan, Reply
<1>6. ASSUME TakeRequest \/ CheckPending \/ CheckToken PROVE CatalogInv'
  BY <1>4, <1>5, <1>6
     DEF TakeRequest, CheckPending, CheckToken, Reject, Reply, Scan, Current, channels
<1>7. ASSUME Call PROVE CatalogInv'
  <2>1. UNCHANGED completions
    BY <1>7 DEF Call, channels
  <2>2. catalog' # None => Current(catalog'.stale)
    BY <1>7, CallCases, OvertakenFacts DEF Current, TypeInv, Typed
  <2>3. \A i \in DOMAIN replies' : replies'[i].outcome # "Scanned"
    BY <1>7, CallCases DEF FinishScan, Reply
  <2> QED BY <1>4, <2>1, <2>2, <2>3
<1>8. ASSUME ScanStep PROVE CatalogInv'
  BY <1>4, <1>8 DEF ScanStep, FinishScan, Reply, channels, WorkerAt, TypeInv, Engaged
<1>9. ASSUME ReadSlot PROVE CatalogInv'
  BY <1>4, <1>9 DEF ReadSlot, FinishScan, Reply, channels, WorkerAt, TypeInv, Engaged, ScanType
<1>10. ASSUME DeliveryFails \/ QueueClosed \/ ContinueScan PROVE CatalogInv'
  <2>1. /\ UNCHANGED <<catalog, completions>>
        /\ replies' = <<>> \/ UNCHANGED replies
    BY <1>10 DEF DeliveryFails, QueueClosed, ContinueScan, channels
  <2>2. \A i \in DOMAIN replies' : replies'[i].outcome = "Scanned" => Current(replies'[i].stale)
    BY <2>1
  <2> QED BY <1>4, <2>1, <2>2
<1>11. ASSUME HostWork \/ WakeSpuriously \/ UNCHANGED vars PROVE CatalogInv'
  BY <1>1, <1>11
     DEF HostWork, WakeSpuriously, CheckHostToken, CheckHostGeneration, StartHosting, HostTurn,
         FallAsleep, Drive, EndHosting, Restore, channels, vars, worker, workerData
<1>12. ASSUME NEW g, SetGeneration(g) PROVE CatalogInv'
  BY <1>1, <1>12 DEF SetGeneration, worker, workerData, channels
<1>13. ASSUME Submissions PROVE CatalogInv'
  BY <1>1, <1>13 DEF Submissions, TrySubmit, Reserve, worker, workerData, channels
<1>14. ASSUME HostCalls \/ CancelCatalog \/ Retire \/ ClientContinues PROVE CatalogInv'
  BY <1>1, <1>14 DEF HostCalls, Feed, StopHost, ReceiveHost, CancelCatalog, Retire,
                     ClientContinues, GenerationChanged, CancelForHost, SendHost, Close,
                     DropChannels, worker, workerData, channels
<1> QED BY <1>2, <1>3, <1>6, <1>7, <1>8, <1>9, <1>10, <1>11, <1>12, <1>13, <1>14
        DEF Next, Terminated, Client, Worker, FiniteWork

\* A catalog delivered as complete was overtaken by no write that may have changed
\* macro slots, an archive that was written apart (executor.rs, invalidates_catalog).
THEOREM CatalogStaysCurrent == Spec => []CatalogIsCurrent
<1>1. Init => CatalogInv
  BY DEF Init, CatalogInv
<1>2. TypeInv /\ CatalogInv /\ [Next]_vars => CatalogInv'
  BY CatalogStep
<1>3. CatalogInv => CatalogIsCurrent
  BY DEF CatalogInv, CatalogIsCurrent, Current
<1> QED BY <1>1, <1>2, <1>3, TypeInvariant, PTL DEF Spec
=============================================================================
