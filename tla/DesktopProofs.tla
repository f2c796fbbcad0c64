---------------------------- MODULE DesktopProofs ----------------------------
(***************************************************************************)
(* Theorems about the link of the desktop application: one device thread   *)
(* at the keyboard, and no connection dropped on stale news.               *)
(***************************************************************************)
EXTENDS DesktopSafety, SequenceTheorems, TLAPS

(* What a method of the controller leaves alone. *)

DeskFields ==
  {"worker", "retiring", "reconnect", "presence", "scan", "connects", "threads",
   "op", "host", "closing", "dirty", "autosave"}
ThreadFields == {"life", "call", "queue", "answers", "events"}

\* The fields the link consists of are there.
Shaped(d) ==
  /\ DeskFields \subseteq DOMAIN d /\ DOMAIN d.threads = Threads
  /\ \A t \in Threads : ThreadFields \subseteq DOMAIN d.threads[t]

\* e has the worker, the retired one and the threads of d, and its scan is not
\* more current.
Same(d, e) ==
  /\ DOMAIN e = DOMAIN d
  /\ e.worker = d.worker /\ e.retiring = d.retiring /\ e.reconnect = d.reconnect
  /\ e.presence = d.presence /\ e.connects = d.connects
  /\ e.scan = "Current" => d.scan = "Current"
  /\ DOMAIN e.threads = DOMAIN d.threads
  /\ \A t \in Threads : /\ DOMAIN e.threads[t] = DOMAIN d.threads[t]
                        /\ e.threads[t].life = d.threads[t].life
                        /\ e.threads[t].call = d.threads[t].call

LEMMA SameShaped ==
  ASSUME NEW d, NEW e, Shaped(d), Same(d, e) PROVE Shaped(e)
BY DEF Shaped, Same

LEMMA SameAgain ==
  ASSUME NEW d, NEW e, NEW f, Same(d, e), Same(e, f) PROVE Same(d, f)
BY DEF Same

LEMMA SameItself ==
  ASSUME NEW d PROVE Same(d, d)
BY DEF Same

LEMMA SameInvalidate ==
  ASSUME NEW d, Shaped(d) PROVE Same(d, Invalidate(d))
BY DEF Shaped, DeskFields, Same, Invalidate

LEMMA SameDisconnect ==
  ASSUME NEW d, Shaped(d) PROVE Same(d, Disconnect(d))
BY DEF Shaped, DeskFields, Same, Disconnect

LEMMA SameFinishRecording ==
  ASSUME NEW d, Shaped(d) PROVE Same(d, FinishRecording(d))
BY DEF Shaped, DeskFields, Same, FinishRecording

LEMMA SameFail ==
  ASSUME NEW d, NEW op, Shaped(d) PROVE Same(d, Fail(d, op))
BY DEF Shaped, DeskFields, Same, Fail

LEMMA SameCancelCatalog ==
  ASSUME NEW d, Shaped(d) PROVE Same(d, CancelCatalog(d))
BY DEF Shaped, DeskFields, ThreadFields, Same, CancelCatalog

LEMMA SameDeliver ==
  ASSUME NEW d, NEW command, Shaped(d) PROVE Same(d, Deliver(d, command))
BY SameDisconnect, SameFail DEF Shaped, DeskFields, ThreadFields, Same, Deliver

LEMMA SameSubmit ==
  ASSUME NEW d, NEW kind, NEW feature, Shaped(d) PROVE Same(d, Submit(d, kind, feature))
<1> DEFINE op == [kind |-> kind, feature |-> feature]
           e == [Invalidate(d) EXCEPT !.op = op, !.catalog = @ /\ feature # "macro"]
<1>1. Same(d, e)
  BY SameInvalidate DEF Shaped, DeskFields, Same
<1>2. Same(e, Deliver(e, op))
  BY <1>1, SameShaped, SameDeliver
<1> QED BY <1>1, <1>2, SameAgain DEF Submit

LEMMA SameSubmitCatalog ==
  ASSUME NEW d, Shaped(d) PROVE Same(d, SubmitCatalog(d))
<1> DEFINE e == [Invalidate(d) EXCEPT !.catalog = TRUE]
<1>1. Same(d, e)
  BY SameInvalidate DEF Shaped, DeskFields, Same
<1>2. Same(e, Deliver(e, Catalog))
  BY <1>1, SameShaped, SameDeliver
<1> QED BY <1>1, <1>2, SameAgain DEF SubmitCatalog

LEMMA SameHostStopped ==
  ASSUME NEW d, Shaped(d) PROVE Same(d, HostStopped(d))
BY DEF Shaped, DeskFields, ThreadFields, Same, HostStopped

LEMMA SameCloseSaved ==
  ASSUME NEW d, Shaped(d) PROVE Same(d, CloseSaved(d))
<1> DEFINE e == HostStopped(Invalidate(d))
           f == FinishRecording(e)
<1>1. Same(d, Invalidate(d)) /\ Shaped(Invalidate(d))
  BY SameInvalidate, SameShaped
<1>2. Same(d, e) /\ Shaped(e)
  BY <1>1, SameHostStopped, SameAgain, SameShaped
<1>3. Same(d, f)
  BY <1>2, SameFinishRecording, SameAgain
<1>4. \A x, closing : Same(d, x) => Same(d, [x EXCEPT !.closing = closing])
  BY DEF Shaped, DeskFields, Same
<1> QED BY <1>2, <1>3, <1>4, SameItself DEF CloseSaved

LEMMA SameFlush ==
  ASSUME NEW d, NEW due, Shaped(d) PROVE Same(d, Flush(d, due))
<1> DEFINE n == Min({due, Len(d.autosave)})
           dirty == {i \in 1..n : d.autosave[i] \in d.dirty}
           i == IF dirty = {} THEN n ELSE Min(dirty)
           e == [d EXCEPT !.autosave = SubSeq(@, i + 1, Len(@))]
<1>1. Same(d, e) /\ Shaped(e)
  <2> HIDE DEF i
  <2>1. Same(d, e)
    BY DEF Shaped, DeskFields, Same
  <2> QED BY <2>1, SameShaped
<1>2. Same(d, [e EXCEPT !.closing = "Open"])
  BY <1>1 DEF Shaped, DeskFields, Same
<1>3. Same(d, Submit(e, "Save", d.autosave[i])) /\ Same(d, CloseSaved(e))
  BY <1>1, SameSubmit, SameCloseSaved, SameAgain
<1> QED BY <1>1, <1>2, <1>3, SameItself DEF Flush

LEMMA SameCloseFlush ==
  ASSUME NEW d, Shaped(d) PROVE Same(d, CloseFlush(d))
BY SameFlush, SameItself DEF CloseFlush

LEMMA SameAskClose ==
  ASSUME NEW d, Shaped(d) PROVE Same(d, AskClose(d)) /\ Same(d, CloseIfWaiting(d))
BY DEF Shaped, DeskFields, Same, AskClose, CloseIfWaiting

LEMMA SameBeginFile ==
  ASSUME NEW d, NEW operation, Shaped(d) PROVE Same(d, BeginFile(d, operation))
<1>1. \A file : Same(d, [d EXCEPT !.file = file])
  BY DEF Shaped, DeskFields, Same
<1> QED BY <1>1, SameInvalidate, SameShaped, SameAgain DEF BeginFile

LEMMA SameLoadPage ==
  ASSUME NEW d, NEW page, Shaped(d) PROVE Same(d, LoadPage(d, page))
BY SameBeginFile, SameSubmit, SameItself DEF LoadPage

LEMMA SameCatalogFinished ==
  ASSUME NEW d, Shaped(d) PROVE Same(d, CatalogFinished(d))
<1>1. \A recording : Same(d, [d EXCEPT !.recording = recording])
  BY DEF Shaped, DeskFields, Same
<1> QED BY <1>1, SameInvalidate, SameShaped, SameAgain DEF CatalogFinished

LEMMA SameSucceeded ==
  ASSUME NEW d, NEW page, Shaped(d) PROVE Same(d, Succeeded(d, page))
<1> DEFINE saved == d.op.kind # "Read" /\ d.op.feature \notin ToSet(d.autosave)
           e == [d EXCEPT !.op = NoCommand, !.refresh = IF @ = 0 THEN 0 ELSE @ - 1,
                          !.manual = @ /\ d.refresh # 1,
                          !.dirty = IF saved THEN @ \ {d.op.feature} ELSE @]
<1>1. Same(d, e) /\ Shaped(e)
  <2>1. Same(d, e)
    BY DEF Shaped, DeskFields, Same
  <2> QED BY <2>1, SameShaped
<1>2. \A kind, feature : Same(d, Submit(e, kind, feature))
  BY <1>1, SameSubmit, SameAgain
<1>3. Same(d, SubmitCatalog(e)) /\ Same(d, AskClose(e)) /\ Same(d, LoadPage(e, page))
  BY <1>1, SameSubmitCatalog, SameAskClose, SameLoadPage, SameAgain
<1>4. \/ \E kind, feature : Succeeded(d, page) = Submit(e, kind, feature)
      \/ Succeeded(d, page) \in {SubmitCatalog(e), AskClose(e), LoadPage(e, page)}
  BY DEF Succeeded
<1> HIDE DEF e
<1> QED BY <1>2, <1>3, <1>4

LEMMA SameComplete ==
  ASSUME NEW d, NEW answer, NEW page, Shaped(d) PROVE Same(d, Complete(d, answer, page))
<1> DEFINE e == CatalogFinished([d EXCEPT !.catalog = FALSE])
<1>1. Same(d, e) /\ Shaped(e)
  <2>1. Same(d, [d EXCEPT !.catalog = FALSE])
    BY DEF Shaped, DeskFields, Same
  <2> QED BY <2>1, SameCatalogFinished, SameShaped, SameAgain
<1>2. Same(d, LoadPage(e, page))
  BY <1>1, SameLoadPage, SameAgain
<1>3. Same(d, [Fail(d, d.op) EXCEPT !.manual = @ \/ answer.result = "Conflict"])
  BY SameFail DEF Shaped, DeskFields, Same
<1> QED BY <1>1, <1>2, <1>3, SameSucceeded, SameItself DEF Complete

LEMMA SamePollSampler ==
  ASSUME NEW d, NEW sampler, Shaped(d)
  PROVE  Same(d, StartHost(d).desk) /\ Same(d, PollSampler(d, sampler).desk)
<1>1. ASSUME NEW x, Shaped(x) PROVE Same(x, StartHost(x).desk)
  BY <1>1 DEF Shaped, DeskFields, ThreadFields, Same, StartHost, Nothing
<1>2. Same(d, [d EXCEPT !.sampler = "Ready"])
  BY DEF Shaped, DeskFields, Same
<1>3. Same(d, StartHost([d EXCEPT !.sampler = "Ready"]).desk)
  BY <1>1, <1>2, SameShaped, SameAgain
<1> QED BY <1>1, <1>3, SameHostStopped DEF PollSampler

LEMMA SameHostEvent ==
  ASSUME NEW d, NEW event, NEW sampler, Shaped(d)
  PROVE  Same(d, HostEvent(d, event, sampler).desk)
<1>1. \A host : Same(d, [d EXCEPT !.host = host])
  BY DEF Shaped, DeskFields, Same
<1>2. \A host, idle, manual :
         Same(d, [d EXCEPT !.host = host, !.sampler = idle, !.manual = manual])
  BY DEF Shaped, DeskFields, Same
<1> QED BY <1>1, <1>2, SamePollSampler DEF HostEvent, Nothing

LEMMA SameHostPoll ==
  ASSUME NEW d, NEW sampler, Shaped(d) PROVE Same(d, HostPoll(d, sampler).desk)
<1>1. Same(d, Disconnect([d EXCEPT !.sampler = "Idle"]))
  <2>1. Same(d, [d EXCEPT !.sampler = "Idle"])
    BY DEF Shaped, DeskFields, Same
  <2> QED BY <2>1, SameDisconnect, SameShaped, SameAgain
<1>2. Same(d, [d EXCEPT !.threads[d.worker].events = Tail(@)])
  BY DEF Shaped, DeskFields, ThreadFields, Same
<1>3. \A event : Same(d, HostEvent([d EXCEPT !.threads[d.worker].events = Tail(@)],
                                   event, sampler).desk)
  BY <1>2, SameHostEvent, SameShaped, SameAgain
<1> QED BY <1>1, <1>3, SamePollSampler, SameItself DEF HostPoll, Nothing
-----------------------------------------------------------------------------
(* What is under way at the worker. *)

Device == {"Read", "Save", "Start"}

\* The places of the operation and of host lighting: commands that wait, and
\* answers and events that nobody has received.
Ops(queue) == {i \in 1..Len(queue) : queue[i].kind \in Device}
Answers(answers) == {i \in 1..Len(answers) : answers[i].kind # "Catalog"}
Hosts(queue) == {i \in 1..Len(queue) : queue[i].kind = "Host"}
Ends(events) == {i \in 1..Len(events) : events[i] \in {"Finished", "Failed"}}

IsSeq(q) == q \in Seq({q[i] : i \in DOMAIN q})
One(places) == \A i, j \in places : i = j

\* Each is at one place at most: waiting, being carried out, or answered.
Sound(thread) ==
  /\ IsSeq(thread.queue) /\ IsSeq(thread.answers) /\ IsSeq(thread.events)
  /\ \A i \in 1..Len(thread.queue) : thread.queue[i].kind \in Device \cup {"Catalog", "Host"}
  /\ thread.call.kind \in Device \cup {"None", "Catalog", "Host"}
  /\ thread.call.kind = "None" => thread.call = NoCommand
  /\ One(Ops(thread.queue)) /\ One(Answers(thread.answers))
  /\ Ops(thread.queue) # {} => thread.call.kind \notin Device /\ Answers(thread.answers) = {}
  /\ thread.call.kind \in Device => Answers(thread.answers) = {}
  /\ One(Hosts(thread.queue)) /\ One(Ends(thread.events))
  /\ Hosts(thread.queue) # {} => thread.call.kind # "Host" /\ Ends(thread.events) = {}
  /\ thread.call.kind = "Host" => Ends(thread.events) = {}

OpThere(thread) ==
  Ops(thread.queue) # {} \/ thread.call.kind \in Device \/ Answers(thread.answers) # {}
HostThere(thread) ==
  Hosts(thread.queue) # {} \/ thread.call.kind = "Host" \/ Ends(thread.events) # {}

\* The controller knows of the operation and of host lighting as long as
\* either is anywhere at a worker that runs.
Held(d) ==
  d.worker # None =>
    /\ d.worker \in Threads
    /\ d.threads[d.worker].life = "Open" =>
         /\ Sound(d.threads[d.worker])
         /\ OpThere(d.threads[d.worker]) => d.op # NoCommand
         /\ HostThere(d.threads[d.worker]) => d.host # "Idle"

NoOps(d) ==
  d.worker # None /\ d.threads[d.worker].life = "Open" => ~OpThere(d.threads[d.worker])
NoHosts(d) ==
  d.worker # None /\ d.threads[d.worker].life = "Open" => ~HostThere(d.threads[d.worker])

\* A method keeps what the controller knows, and closes nothing by itself.
Carried(d, e) ==
  /\ Held(d) => Held(e)
  /\ e.closing = "Exited" => d.closing = "Exited"

\* e has what is under way in d, and knows of it.
Alike(d, e) ==
  /\ e.worker = d.worker
  /\ \A t \in Threads :
       /\ e.threads[t].life = d.threads[t].life /\ e.threads[t].call = d.threads[t].call
       /\ e.threads[t].queue = d.threads[t].queue
       /\ e.threads[t].answers = d.threads[t].answers
       /\ e.threads[t].events = d.threads[t].events
  /\ d.op # NoCommand => e.op # NoCommand
  /\ d.host # "Idle" => e.host # "Idle"
  /\ e.closing = "Exited" => d.closing = "Exited"

LEMMA SeqIsSeq ==
  ASSUME NEW S, NEW q \in Seq(S) PROVE IsSeq(q)
<1> DEFINE T == {q[i] : i \in DOMAIN q}
<1>1. q \in [1..Len(q) -> T] /\ Len(q) \in Nat
  OBVIOUS
<1> QED BY <1>1, SeqDef DEF IsSeq

LEMMA Appended ==
  ASSUME NEW q, NEW x, IsSeq(q)
  PROVE  /\ IsSeq(Append(q, x)) /\ Len(q) \in Nat /\ Len(Append(q, x)) = Len(q) + 1
         /\ \A i \in 1..Len(q) : Append(q, x)[i] = q[i]
         /\ Append(q, x)[Len(q) + 1] = x /\ q \o <<x>> = Append(q, x) /\ q \o << >> = q
<1> DEFINE S == {q[i] : i \in DOMAIN q} \cup {x}
<1>1. q \in Seq(S) /\ x \in S
  BY DEF IsSeq
<1> HIDE DEF S
<1>2. Append(q, x) \in Seq(S) /\ Len(q) \in Nat /\ Len(Append(q, x)) = Len(q) + 1
  BY <1>1
<1>3. /\ \A i \in 1..Len(q) : Append(q, x)[i] = q[i]
      /\ Append(q, x)[Len(q) + 1] = x
  BY <1>1
<1>4. q \o << >> = q
  BY <1>1, ConcatEmptySeq
<1>5. q \o <<x>> = Append(q, x)
  BY <1>1
<1> QED BY <1>2, <1>3, <1>4, <1>5, SeqIsSeq

LEMMA AppendedPlaces ==
  ASSUME NEW q, NEW x, IsSeq(q)
  PROVE  /\ Ops(Append(q, x)) = Ops(q) \cup (IF x.kind \in Device THEN {Len(q) + 1} ELSE {})
         /\ Hosts(Append(q, x)) = Hosts(q) \cup (IF x.kind = "Host" THEN {Len(q) + 1} ELSE {})
         /\ Answers(Append(q, x)) =
              Answers(q) \cup (IF x.kind # "Catalog" THEN {Len(q) + 1} ELSE {})
         /\ Ends(Append(q, x)) =
              Ends(q) \cup (IF x \in {"Finished", "Failed"} THEN {Len(q) + 1} ELSE {})
<1>1. /\ Len(q) \in Nat /\ 1..Len(Append(q, x)) = 1..Len(q) \cup {Len(q) + 1}
      /\ \A i \in 1..Len(q) : Append(q, x)[i] = q[i] /\ Append(q, x)[Len(q) + 1] = x
      /\ Len(q) + 1 \notin 1..Len(q)
  BY Appended
<1>2. Ops(Append(q, x)) = Ops(q) \cup (IF x.kind \in Device THEN {Len(q) + 1} ELSE {})
  BY <1>1 DEF Ops
<1>3. Hosts(Append(q, x)) = Hosts(q) \cup (IF x.kind = "Host" THEN {Len(q) + 1} ELSE {})
  BY <1>1 DEF Hosts
<1>4. Answers(Append(q, x)) = Answers(q) \cup (IF x.kind # "Catalog" THEN {Len(q) + 1} ELSE {})
  BY <1>1 DEF Answers
<1>5. Ends(Append(q, x)) =
        Ends(q) \cup (IF x \in {"Finished", "Failed"} THEN {Len(q) + 1} ELSE {})
  BY <1>1 DEF Ends
<1> QED BY <1>2, <1>3, <1>4, <1>5

LEMMA TailSeq ==
  ASSUME NEW q, IsSeq(q), q # << >>
  PROVE  /\ IsSeq(Tail(q)) /\ Len(q) \in Nat \ {0} /\ Len(Tail(q)) = Len(q) - 1 /\ Head(q) = q[1]
         /\ \A i \in 1..Len(Tail(q)) : Tail(q)[i] = q[i + 1]
<1> DEFINE S == {q[i] : i \in DOMAIN q}
<1>1. q \in Seq(S)
  BY DEF IsSeq
<1> HIDE DEF S
<1>2. /\ Tail(q) \in Seq(S) /\ Len(Tail(q)) = Len(q) - 1
      /\ \A i \in 1..Len(Tail(q)) : Tail(q)[i] = q[i + 1]
  BY <1>1, HeadTailProperties
<1>3. Len(q) \in Nat \ {0} /\ Head(q) = q[1]
  BY <1>1, EmptySeq
<1> QED BY <1>2, <1>3, SeqIsSeq

\* What the first item leaves behind it.
LEMMA Shifted ==
  ASSUME NEW n \in Nat, NEW places \in SUBSET (1..n), NEW rest,
         rest = {i \in 1..(n - 1) : i + 1 \in places}
  PROVE  /\ rest # {} => places # {}
         /\ One(places) => One(rest) /\ (1 \in places => rest = {})
BY DEF One

LEMMA TailPlaces ==
  ASSUME NEW q, IsSeq(q), q # << >>
  PROVE  /\ /\ Ops(Tail(q)) # {} => Ops(q) # {}
            /\ One(Ops(q)) => One(Ops(Tail(q))) /\ (Head(q).kind \in Device => Ops(Tail(q)) = {})
            /\ Head(q).kind \in Device => Ops(q) # {}
         /\ /\ Hosts(Tail(q)) # {} => Hosts(q) # {}
            /\ One(Hosts(q)) => One(Hosts(Tail(q))) /\ (Head(q).kind = "Host" => Hosts(Tail(q)) = {})
            /\ Head(q).kind = "Host" => Hosts(q) # {}
         /\ /\ Answers(Tail(q)) # {} => Answers(q) # {}
            /\ One(Answers(q)) =>
                 One(Answers(Tail(q))) /\ (Head(q).kind # "Catalog" => Answers(Tail(q)) = {})
            /\ Head(q).kind # "Catalog" => Answers(q) # {}
         /\ /\ Ends(Tail(q)) # {} => Ends(q) # {}
            /\ One(Ends(q)) =>
                 One(Ends(Tail(q))) /\ (Head(q) \in {"Finished", "Failed"} => Ends(Tail(q)) = {})
            /\ Head(q) \in {"Finished", "Failed"} => Ends(q) # {}
<1> DEFINE n == Len(q)
<1>1. /\ n \in Nat \ {0} /\ 1..Len(Tail(q)) = 1..(n - 1) /\ Head(q) = q[1] /\ 1 \in 1..n
      /\ \A i \in 1..(n - 1) : Tail(q)[i] = q[i + 1] /\ i + 1 \in 1..n
  BY TailSeq
<1> HIDE DEF n
<1>2. Ops(Tail(q)) = {i \in 1..(n - 1) : i + 1 \in Ops(q)} /\ Ops(q) \in SUBSET (1..n)
  BY <1>1 DEF Ops, n
<1>3. Hosts(Tail(q)) = {i \in 1..(n - 1) : i + 1 \in Hosts(q)} /\ Hosts(q) \in SUBSET (1..n)
  BY <1>1 DEF Hosts, n
<1>4. Answers(Tail(q)) = {i \in 1..(n - 1) : i + 1 \in Answers(q)} /\ Answers(q) \in SUBSET (1..n)
  BY <1>1 DEF Answers, n
<1>5. Ends(Tail(q)) = {i \in 1..(n - 1) : i + 1 \in Ends(q)} /\ Ends(q) \in SUBSET (1..n)
  BY <1>1 DEF Ends, n
<1>6. /\ 1 \in Ops(q) <=> Head(q).kind \in Device
      /\ 1 \in Hosts(q) <=> Head(q).kind = "Host"
      /\ 1 \in Answers(q) <=> Head(q).kind # "Catalog"
      /\ 1 \in Ends(q) <=> Head(q) \in {"Finished", "Failed"}
  BY <1>1 DEF Ops, Hosts, Answers, Ends, n
<1> QED BY <1>1, <1>2, <1>3, <1>4, <1>5, <1>6, Shifted

(* The methods of the controller. *)

LEMMA HeldAlike ==
  ASSUME NEW d, NEW e, Alike(d, e) PROVE Carried(d, e)
BY DEF Alike, Carried, Held, OpThere, HostThere, Sound

LEMMA AlikeAgain ==
  ASSUME NEW d, NEW e, NEW f, Alike(d, e), Alike(e, f) PROVE Alike(d, f)
BY DEF Alike

LEMMA CarriedAgain ==
  ASSUME NEW d, NEW e, NEW f, Carried(d, e), Carried(e, f) PROVE Carried(d, f)
BY DEF Carried

LEMMA AlikeMethods ==
  ASSUME NEW d, Shaped(d)
  PROVE  /\ Alike(d, Invalidate(d)) /\ Alike(d, FinishRecording(d)) /\ Alike(d, CancelCatalog(d))
         /\ Alike(d, AskClose(d)) /\ Alike(d, CloseIfWaiting(d)) /\ Alike(d, d)
<1>1. Alike(d, Invalidate(d)) /\ Alike(d, FinishRecording(d)) /\ Alike(d, d)
  BY DEF Shaped, DeskFields, Alike, Invalidate, FinishRecording
<1>2. Alike(d, CancelCatalog(d))
  BY DEF Shaped, DeskFields, ThreadFields, Alike, CancelCatalog
<1>3. Alike(d, AskClose(d)) /\ Alike(d, CloseIfWaiting(d))
  BY DEF Shaped, DeskFields, Alike, AskClose, CloseIfWaiting
<1> QED BY <1>1, <1>2, <1>3

LEMMA AlikeHostStopped ==
  ASSUME NEW d, Shaped(d) PROVE Alike(d, HostStopped(d))
<1>1. \A sampler : Alike(d, [d EXCEPT !.sampler = sampler])
  BY DEF Shaped, DeskFields, Alike
<1>2. Alike(d, [d EXCEPT !.host = "Stopping"])
  BY DEF Shaped, DeskFields, Alike
<1>3. Alike(d, [d EXCEPT !.host = "Stopping", !.threads[d.worker].stop = TRUE])
  BY DEF Shaped, DeskFields, ThreadFields, Alike
<1> QED BY <1>1, <1>2, <1>3, AlikeMethods DEF HostStopped

LEMMA AlikeFiles ==
  ASSUME NEW d, NEW operation, Shaped(d)
  PROVE  Alike(d, BeginFile(d, operation)) /\ Alike(d, CatalogFinished(d))
<1>1. \A file, recording : /\ Alike(d, [d EXCEPT !.file = file])
                           /\ Alike(d, [d EXCEPT !.recording = recording])
                           /\ Same(d, [d EXCEPT !.file = file])
                           /\ Same(d, [d EXCEPT !.recording = recording])
  BY DEF Shaped, DeskFields, Alike, Same
<1>2. ASSUME NEW e, Same(d, e), Alike(d, e) PROVE Alike(d, Invalidate(e))
  BY <1>2, SameShaped, AlikeMethods, AlikeAgain
<1> QED BY <1>1, <1>2 DEF BeginFile, CatalogFinished

\* A command is added to what is under way.
LEMMA DeliverCarried ==
  ASSUME NEW d, NEW command, Shaped(d), Held(d), NoOps(d), command.kind \in Device \cup {"Catalog"},
         command.kind \in Device => d.op # NoCommand
  PROVE  Carried(d, Deliver(d, command))
<1>1. CASE d.worker = None
  BY <1>1 DEF Deliver, Carried, Held, Disconnect, Shaped, DeskFields
<1>2. CASE d.worker # None /\ d.threads[d.worker].life = "Dead"
  BY <1>2, SameFail DEF Deliver, Carried, Held, Fail, Shaped, DeskFields
<1>3. CASE d.worker # None /\ d.threads[d.worker].life # "Dead"
  <2> DEFINE thread == d.threads[d.worker]
             new == [thread EXCEPT !.queue = Append(@, command),
                                   !.cancelled = @ /\ command # Catalog]
             e == Deliver(d, command)
  <2>1. d.worker \in Threads
    BY <1>3 DEF Held
  <2>2. /\ e.worker = d.worker /\ e.op = d.op /\ e.host = d.host /\ e.closing = d.closing
        /\ e.threads[d.worker] = new
    BY <1>3, <2>1 DEF Deliver, Shaped, DeskFields
  <2>3. /\ new.queue = Append(thread.queue, command) /\ new.life = thread.life
        /\ new.call = thread.call /\ new.answers = thread.answers /\ new.events = thread.events
    BY <2>1 DEF Shaped, ThreadFields
  <2> HIDE DEF e, new, thread
  <2>4. ASSUME thread.life = "Open", Sound(thread), ~OpThere(thread)
        PROVE  /\ Sound(new) /\ (OpThere(new) => command.kind \in Device)
               /\ (HostThere(new) => HostThere(thread))
    <3>1. IsSeq(thread.queue)
      BY <2>4 DEF Sound
    <3>2. /\ Ops(new.queue) = IF command.kind \in Device THEN {Len(thread.queue) + 1} ELSE {}
          /\ Hosts(new.queue) = Hosts(thread.queue)
      <4>1. Ops(thread.queue) = {} /\ command.kind # "Host"
        BY <2>4 DEF OpThere, Device
      <4>2. /\ Ops(new.queue) = Ops(thread.queue) \cup
                 (IF command.kind \in Device THEN {Len(thread.queue) + 1} ELSE {})
            /\ Hosts(new.queue) = Hosts(thread.queue) \cup
                 (IF command.kind = "Host" THEN {Len(thread.queue) + 1} ELSE {})
        BY <2>3, <3>1, AppendedPlaces
      <4> QED BY <4>1, <4>2
    <3>3. /\ IsSeq(new.queue)
          /\ \A i \in 1..Len(new.queue) : new.queue[i].kind \in Device \cup {"Catalog", "Host"}
      <4>1. /\ IsSeq(new.queue) /\ Len(thread.queue) \in Nat
            /\ Len(new.queue) = Len(thread.queue) + 1 /\ new.queue[Len(thread.queue) + 1] = command
            /\ \A i \in 1..Len(thread.queue) : new.queue[i] = thread.queue[i]
        BY <2>3, <3>1, Appended
      <4>2. \A i \in 1..Len(new.queue) : i \in 1..Len(thread.queue) \/ i = Len(thread.queue) + 1
        BY <4>1
      <4> QED BY <2>4, <4>1, <4>2 DEF Sound
    <3> QED BY <2>3, <2>4, <3>2, <3>3 DEF Sound, OpThere, HostThere, One
  <2>5. ASSUME thread.life = "Open"
        PROVE  /\ Sound(new) /\ (OpThere(new) => d.op # NoCommand)
               /\ (HostThere(new) => d.host # "Idle")
    <3>1. Sound(thread) /\ ~OpThere(thread) /\ (HostThere(thread) => d.host # "Idle")
      BY <1>3, <2>5 DEF Held, NoOps, thread
    <3> QED BY <2>4, <2>5, <3>1
  <2> QED BY <2>1, <2>2, <2>3, <2>5 DEF Carried, Held, e
<1> QED BY <1>1, <1>2, <1>3

LEMMA FreeOfOps ==
  ASSUME NEW d, Held(d), d.op = NoCommand PROVE NoOps(d)
BY DEF Held, NoOps

LEMMA SubmitCarried ==
  ASSUME NEW d, NEW kind \in Device, NEW feature, Shaped(d), Held(d), NoOps(d)
  PROVE  Carried(d, Submit(d, kind, feature))
<1> DEFINE op == [kind |-> kind, feature |-> feature]
           e == [Invalidate(d) EXCEPT !.op = op, !.catalog = @ /\ feature # "macro"]
<1>1. op.kind \in Device /\ op # NoCommand
  BY DEF NoCommand, Device
<1> HIDE DEF op
<1>2. Shaped(Invalidate(d)) /\ Alike(d, Invalidate(d))
  BY SameInvalidate, SameShaped, AlikeMethods
<1>3. Same(Invalidate(d), e) /\ Alike(Invalidate(d), e) /\ e.op = op
  BY <1>1, <1>2 DEF Shaped, DeskFields, Alike, Same
<1> HIDE DEF e
<1>4. Shaped(e) /\ Alike(d, e)
  BY <1>2, <1>3, SameShaped, AlikeAgain
<1>5. Held(e) /\ NoOps(e)
  BY <1>4, HeldAlike DEF Carried, Alike, NoOps, Held, OpThere
<1>6. Carried(e, Deliver(e, op))
  BY <1>1, <1>3, <1>4, <1>5, DeliverCarried
<1> QED BY <1>4, <1>6, HeldAlike, CarriedAgain DEF Submit, op, e

LEMMA SubmitCatalogCarried ==
  ASSUME NEW d, Shaped(d), Held(d), NoOps(d) PROVE Carried(d, SubmitCatalog(d))
<1> DEFINE e == [Invalidate(d) EXCEPT !.catalog = TRUE]
<1>1. Shaped(Invalidate(d)) /\ Alike(d, Invalidate(d))
  BY SameInvalidate, SameShaped, AlikeMethods
<1>2. Same(Invalidate(d), e) /\ Alike(Invalidate(d), e)
  BY <1>1 DEF Shaped, DeskFields, Alike, Same
<1> HIDE DEF e
<1>3. Shaped(e) /\ Alike(d, e)
  BY <1>1, <1>2, SameShaped, AlikeAgain
<1>4. Held(e) /\ NoOps(e)
  BY <1>3, HeldAlike DEF Carried, Alike, NoOps, Held, OpThere
<1>5. Catalog.kind = "Catalog" /\ "Catalog" \notin Device
  BY DEF Catalog, Device
<1>6. Carried(e, Deliver(e, Catalog))
  BY <1>3, <1>4, <1>5, DeliverCarried
<1> QED BY <1>3, <1>6, HeldAlike, CarriedAgain DEF SubmitCatalog, e

LEMMA LoadPageCarried ==
  ASSUME NEW d, NEW page \in Pages, Shaped(d), Held(d) PROVE Carried(d, LoadPage(d, page))
<1>1. Carried(d, d) /\ Carried(d, BeginFile(d, "Labels"))
  BY AlikeMethods, AlikeFiles, HeldAlike
<1>2. ASSUME ~Busy(d), page # "Nothing" PROVE Carried(d, Submit(d, page, "lighting"))
  BY <1>2, FreeOfOps, SubmitCarried DEF Busy, Pages, Device
<1> QED BY <1>1, <1>2 DEF LoadPage

LEMMA FailCarried ==
  ASSUME NEW d, NEW op, Shaped(d), Held(d), NoOps(d) PROVE Carried(d, Fail(d, op))
BY DEF Carried, Held, NoOps, Fail, Shaped, DeskFields

\* The answer of the operation has been received: nothing of it is left.
LEMMA SucceededCarried ==
  ASSUME NEW d, NEW page \in Pages, Shaped(d), Held(d), NoOps(d)
  PROVE  Carried(d, Succeeded(d, page))
<1> DEFINE saved == d.op.kind # "Read" /\ d.op.feature \notin ToSet(d.autosave)
           e == [d EXCEPT !.op = NoCommand, !.refresh = IF @ = 0 THEN 0 ELSE @ - 1,
                          !.manual = @ /\ d.refresh # 1,
                          !.dirty = IF saved THEN @ \ {d.op.feature} ELSE @]
<1>1. Shaped(e) /\ Carried(d, e) /\ Held(e) /\ NoOps(e)
  <2> HIDE DEF saved
  <2> QED BY DEF Shaped, DeskFields, Carried, Held, NoOps
<1>2. \/ \E kind \in {"Save", "Read"} : \E feature : Succeeded(d, page) = Submit(e, kind, feature)
      \/ Succeeded(d, page) \in {SubmitCatalog(e), AskClose(e), LoadPage(e, page)}
  BY DEF Succeeded
<1> HIDE DEF e
<1>3. /\ Carried(e, SubmitCatalog(e)) /\ Carried(e, AskClose(e)) /\ Carried(e, LoadPage(e, page))
      /\ \A kind \in {"Save", "Read"} : \A feature : Carried(e, Submit(e, kind, feature))
  BY <1>1, SubmitCarried, SubmitCatalogCarried, LoadPageCarried, AlikeMethods, HeldAlike DEF Device
<1> QED BY <1>1, <1>2, <1>3, CarriedAgain

LEMMA CompleteCarried ==
  ASSUME NEW d, NEW answer, NEW page \in Pages, Shaped(d), Held(d),
         answer.kind # "Catalog" => NoOps(d)
  PROVE  Carried(d, Complete(d, answer, page))
<1> DEFINE c == [d EXCEPT !.catalog = FALSE]
<1>1. Shaped(c) /\ Alike(d, c)
  BY DEF Shaped, DeskFields, Alike
<1> HIDE DEF c
<1>2. /\ Alike(d, CatalogFinished(c)) /\ Carried(d, CatalogFinished(c))
      /\ Shaped(CatalogFinished(c)) /\ Held(CatalogFinished(c))
  BY <1>1, AlikeFiles, AlikeAgain, HeldAlike, SameCatalogFinished, SameShaped DEF Carried
<1>3. Carried(d, LoadPage(CatalogFinished(c), page))
  BY <1>2, LoadPageCarried, CarriedAgain
<1>4. Carried(d, d)
  BY AlikeMethods, HeldAlike
<1>5. CASE answer.kind = "Catalog"
  BY <1>2, <1>3, <1>4, <1>5 DEF Complete, c
<1>6. CASE answer.kind # "Catalog"
  <2>1. Carried(d, Succeeded(d, page)) /\ Carried(d, Fail(d, d.op))
    BY <1>6, SucceededCarried, FailCarried
  <2>2. \A manual : Carried(d, [Fail(d, d.op) EXCEPT !.manual = manual])
    <3>1. Shaped(Fail(d, d.op))
      BY SameFail, SameShaped
    <3>2. \A manual : Alike(Fail(d, d.op), [Fail(d, d.op) EXCEPT !.manual = manual])
      BY <3>1 DEF Shaped, DeskFields, Alike
    <3> QED BY <2>1, <3>2, HeldAlike, CarriedAgain
  <2> QED BY <1>4, <1>6, <2>1, <2>2 DEF Complete
<1> QED BY <1>5, <1>6

\* Host lighting is started only when it is idle: none of it is anywhere.
LEMMA StartHostCarried ==
  ASSUME NEW d, Shaped(d), Held(d), d.worker # None PROVE Carried(d, StartHost(d).desk)
<1>1. Carried(d, d) /\ \A sampler : Carried(d, [d EXCEPT !.sampler = sampler])
  BY AlikeMethods, HeldAlike DEF Shaped, DeskFields, Alike
<1>2. ASSUME Idle(d)
      PROVE  Carried(d, [d EXCEPT !.sampler = "Attached", !.host = "Starting",
                                  !.threads[d.worker].queue = Append(@, Host),
                                  !.threads[d.worker].cancelled = TRUE])
  <2> DEFINE thread == d.threads[d.worker]
             e == [d EXCEPT !.sampler = "Attached", !.host = "Starting",
                            !.threads[d.worker].queue = Append(@, Host),
                            !.threads[d.worker].cancelled = TRUE]
             new == e.threads[d.worker]
  <2>1. d.worker \in Threads /\ d.host = "Idle"
    BY <1>2 DEF Held, Idle
  <2>2. e.worker = d.worker /\ e.op = d.op /\ e.host = "Starting" /\ e.closing = d.closing
    BY DEF Shaped, DeskFields
  <2>3. /\ new.queue = Append(thread.queue, Host) /\ new.life = thread.life
        /\ new.call = thread.call /\ new.answers = thread.answers /\ new.events = thread.events
    BY <2>1 DEF Shaped, DeskFields, ThreadFields
  <2> HIDE DEF e
  <2>4. ASSUME thread.life = "Open"
        PROVE  Sound(new) /\ (OpThere(new) => d.op # NoCommand)
    <3> HIDE DEF new, thread
    <3>1. Sound(thread) /\ ~HostThere(thread) /\ (OpThere(thread) => d.op # NoCommand)
      BY <2>1, <2>4 DEF Held, thread
    <3>2. IsSeq(thread.queue) /\ Hosts(thread.queue) = {} /\ Host.kind \notin Device
      BY <3>1 DEF Sound, HostThere, Host, Device
    <3>3. Ops(new.queue) = Ops(thread.queue) /\ One(Hosts(new.queue))
      <4>1. Ops(new.queue) = Ops(thread.queue) \cup
              (IF Host.kind \in Device THEN {Len(thread.queue) + 1} ELSE {})
        BY <2>3, <3>2, AppendedPlaces
      <4>2. Hosts(new.queue) = Hosts(thread.queue) \cup {Len(thread.queue) + 1}
        <5>1. Host.kind = "Host"
          BY DEF Host
        <5> QED BY <2>3, <3>2, <5>1, AppendedPlaces
      <4> QED BY <3>2, <4>1, <4>2 DEF One
    <3>4. /\ IsSeq(new.queue)
          /\ \A i \in 1..Len(new.queue) : new.queue[i].kind \in Device \cup {"Catalog", "Host"}
      <4>1. /\ IsSeq(new.queue) /\ Len(thread.queue) \in Nat
            /\ Len(new.queue) = Len(thread.queue) + 1 /\ new.queue[Len(thread.queue) + 1] = Host
            /\ \A i \in 1..Len(thread.queue) : new.queue[i] = thread.queue[i]
        BY <2>3, <3>2, Appended
      <4>2. \A i \in 1..Len(new.queue) : i \in 1..Len(thread.queue) \/ i = Len(thread.queue) + 1
        BY <4>1
      <4> QED BY <3>1, <4>1, <4>2 DEF Sound, Host
    <3>5. thread.call.kind # "Host" /\ Ends(thread.events) = {}
      BY <3>1 DEF HostThere
    <3>6. OpThere(new) => OpThere(thread)
      BY <2>3, <3>3 DEF OpThere
    <3> QED BY <2>3, <3>1, <3>3, <3>4, <3>5, <3>6 DEF Sound
  <2> QED BY <2>1, <2>2, <2>3, <2>4 DEF Carried, Held, e, new, thread
<1> QED BY <1>1, <1>2 DEF StartHost, Nothing

LEMMA PollSamplerCarried ==
  ASSUME NEW d, NEW sampler, Shaped(d), Held(d), d.worker # None
  PROVE  Carried(d, PollSampler(d, sampler).desk)
<1> DEFINE e == [d EXCEPT !.sampler = "Ready"]
<1>1. Shaped(e) /\ Alike(d, e)
  BY DEF Shaped, DeskFields, Alike
<1> HIDE DEF e
<1>2. Carried(d, StartHost(e).desk)
  BY <1>1, HeldAlike, StartHostCarried, CarriedAgain DEF Carried, Alike
<1>3. Carried(d, StartHost(d).desk) /\ Carried(d, HostStopped(d))
  BY StartHostCarried, AlikeHostStopped, HeldAlike
<1> QED BY <1>2, <1>3 DEF PollSampler, e

LEMMA HostEventCarried ==
  ASSUME NEW d, NEW event, NEW sampler, Shaped(d), Held(d), d.worker # None,
         event \in {"Finished", "Failed"} => NoHosts(d)
  PROVE  Carried(d, HostEvent(d, event, sampler).desk)
<1>1. d.host = "Starting" => Carried(d, [d EXCEPT !.host = "Active"])
  BY HeldAlike DEF Shaped, DeskFields, Alike
<1>2. ASSUME event \in {"Finished", "Failed"}
      PROVE  \A manual : Carried(d, [d EXCEPT !.host = "Idle", !.sampler = "Idle",
                                              !.manual = manual])
  BY <1>2 DEF Shaped, DeskFields, Carried, Held, NoHosts
<1>3. Carried(d, PollSampler(d, sampler).desk)
  BY PollSamplerCarried
<1> QED BY <1>1, <1>2, <1>3 DEF HostEvent, Nothing

LEMMA HostPollCarried ==
  ASSUME NEW d, NEW sampler, Shaped(d), Held(d) PROVE Carried(d, HostPoll(d, sampler).desk)
<1>1. CASE d.worker = None \/ d.threads[d.worker].life = "Dead"
  <2>1. Carried(d, Disconnect([d EXCEPT !.sampler = "Idle"]))
    BY <1>1 DEF Shaped, DeskFields, Carried, Held, Disconnect
  <2>2. CASE d.worker = None \/ d.threads[d.worker].events = << >>
    BY <1>1, <2>1, <2>2, AlikeMethods, HeldAlike DEF HostPoll, Nothing
  <2>3. CASE d.worker # None /\ d.threads[d.worker].events # << >>
    <3> DEFINE e == [d EXCEPT !.threads[d.worker].events = Tail(@)]
               event == Head(d.threads[d.worker].events)
    <3>1. /\ Shaped(e) /\ e.worker = d.worker /\ Carried(d, e)
          /\ Held(e) /\ NoHosts(e)
      BY <1>1, <2>3 DEF Shaped, DeskFields, ThreadFields, Carried, Held, NoHosts
    <3>2. HostPoll(d, sampler).desk = HostEvent(e, event, sampler).desk
      BY <2>3 DEF HostPoll
    <3> HIDE DEF e, event
    <3>3. Carried(e, HostEvent(e, event, sampler).desk)
      BY <2>3, <3>1, HostEventCarried
    <3> QED BY <3>1, <3>2, <3>3, CarriedAgain
  <2> QED BY <2>2, <2>3
<1>2. CASE d.worker # None /\ d.threads[d.worker].life # "Dead"
  <2>1. CASE d.threads[d.worker].events = << >>
    <3>1. HostPoll(d, sampler).desk = PollSampler(d, sampler).desk
      BY <1>2, <2>1 DEF HostPoll
    <3> QED BY <1>2, <3>1, PollSamplerCarried
  <2>2. CASE d.threads[d.worker].events # << >>
    <3> DEFINE thread == d.threads[d.worker]
               e == [d EXCEPT !.threads[d.worker].events = Tail(@)]
               new == e.threads[d.worker]
               event == Head(thread.events)
    <3>1. d.worker \in Threads
      BY <1>2 DEF Held
    <3>2. /\ Shaped(e) /\ e.worker = d.worker /\ e.op = d.op /\ e.host = d.host
          /\ e.closing = d.closing
      BY DEF Shaped, DeskFields, ThreadFields
    <3>3. /\ new.events = Tail(thread.events) /\ new.life = thread.life /\ new.call = thread.call
          /\ new.queue = thread.queue /\ new.answers = thread.answers
      BY <3>1 DEF Shaped, DeskFields, ThreadFields
    <3>4. HostPoll(d, sampler).desk = HostEvent(e, event, sampler).desk
      BY <1>2, <2>2 DEF HostPoll
    <3> HIDE DEF e
    <3>5. ASSUME thread.life = "Open"
          PROVE  /\ Sound(new) /\ (OpThere(new) => d.op # NoCommand)
                 /\ (HostThere(new) => d.host # "Idle")
                 /\ event \in {"Finished", "Failed"} => ~HostThere(new)
      <4>1. thread.events # << >> /\ event = Head(thread.events)
        BY <2>2
      <4> HIDE DEF thread, new, event
      <4>2. /\ Sound(thread) /\ (OpThere(thread) => d.op # NoCommand)
            /\ (HostThere(thread) => d.host # "Idle")
        BY <1>2, <3>5 DEF Held, thread
      <4>3. /\ IsSeq(new.events) /\ One(Ends(new.events))
            /\ Ends(new.events) # {} => Ends(thread.events) # {}
            /\ event \in {"Finished", "Failed"} => Ends(new.events) = {} /\ Ends(thread.events) # {}
        <5>1. IsSeq(thread.events) /\ One(Ends(thread.events))
          BY <4>2 DEF Sound
        <5>2. IsSeq(Tail(thread.events))
          BY <4>1, <5>1, TailSeq
        <5>3. /\ Ends(Tail(thread.events)) # {} => Ends(thread.events) # {}
              /\ One(Ends(Tail(thread.events)))
              /\ event \in {"Finished", "Failed"} =>
                   Ends(Tail(thread.events)) = {} /\ Ends(thread.events) # {}
          BY <4>1, <5>1, TailPlaces
        <5> QED BY <3>3, <5>1, <5>2, <5>3
      <4> QED BY <3>3, <4>2, <4>3 DEF Sound, OpThere, HostThere
    <3>6. Carried(d, e) /\ Held(e) /\ (event \in {"Finished", "Failed"} => NoHosts(e))
      <4> HIDE DEF event
      <4> QED BY <3>1, <3>2, <3>3, <3>5 DEF Carried, Held, NoHosts, thread, new
    <3>7. Carried(e, HostEvent(e, event, sampler).desk)
      <4> HIDE DEF event
      <4> QED BY <1>2, <3>2, <3>6, HostEventCarried
    <3> QED BY <3>4, <3>6, <3>7, CarriedAgain
  <2> QED BY <2>1, <2>2
<1> QED BY <1>1, <1>2

\* Nothing is left that closing would lose.
Quiet(d) ==
  /\ d.op = NoCommand /\ d.host = "Idle" /\ ~Settling(d)
  /\ d.dirty = {} /\ d.autosave = << >>

Closes(d, e) ==
  /\ Held(d) => Held(e)
  /\ e.closing = "Exited" => d.closing = "Exited" \/ Quiet(e)

LEMMA CloseSavedCloses ==
  ASSUME NEW d, Shaped(d), Held(d) PROVE Closes(d, CloseSaved(d))
<1> DEFINE e == HostStopped(Invalidate(d))
           f == FinishRecording(e)
<1>1. Alike(d, Invalidate(d)) /\ Shaped(Invalidate(d))
  BY AlikeMethods, SameInvalidate, SameShaped
<1>2. Alike(d, e) /\ Shaped(e)
  BY <1>1, AlikeHostStopped, AlikeAgain, SameHostStopped, SameShaped
<1> HIDE DEF e
<1>3. Alike(d, f) /\ Shaped(f) /\ f.host = e.host
  <2>1. f.host = e.host
    BY <1>2 DEF Shaped, DeskFields, FinishRecording
  <2> QED BY <1>2, <2>1, AlikeMethods, AlikeAgain, SameFinishRecording, SameShaped
<1> HIDE DEF f
<1>4. ASSUME NEW x, Shaped(x), Alike(d, x)
      PROVE  \A closing : /\ Held([x EXCEPT !.closing = closing])
                          /\ [x EXCEPT !.closing = closing].closing = closing
  <2>1. Held(x)
    BY <1>4, HeldAlike DEF Carried
  <2> QED BY <1>4, <2>1 DEF Held, Shaped, DeskFields
<1>5. ASSUME ~HostBusy(e), DeviceQuiet(f), f.autosave = << >>, f.dirty = {}
      PROVE  Quiet([f EXCEPT !.closing = "Exited"])
  BY <1>3, <1>5 DEF Shaped, DeskFields, Quiet, HostBusy, DeviceQuiet, Busy, Settling
<1>6. Alike(d, d)
  BY AlikeMethods
<1>7. \/ CloseSaved(d) \in {[d EXCEPT !.closing = "Waiting"], [e EXCEPT !.closing = "Waiting"],
                            [f EXCEPT !.closing = "Waiting"], [f EXCEPT !.closing = "ConfirmDiscard"]}
      \/ /\ CloseSaved(d) = [f EXCEPT !.closing = "Exited"]
         /\ ~HostBusy(e) /\ DeviceQuiet(f) /\ f.autosave = << >> /\ f.dirty = {}
  BY DEF CloseSaved, e, f
<1>8. \A closing : /\ Held([d EXCEPT !.closing = closing])
                   /\ Held([e EXCEPT !.closing = closing])
                   /\ Held([f EXCEPT !.closing = closing])
                   /\ [d EXCEPT !.closing = closing].closing = closing
                   /\ [e EXCEPT !.closing = closing].closing = closing
                   /\ [f EXCEPT !.closing = closing].closing = closing
  BY <1>2, <1>3, <1>4, <1>6
<1> QED BY <1>5, <1>7, <1>8 DEF Closes

LEMMA FlushCloses ==
  ASSUME NEW d, NEW due, Shaped(d), Held(d)
  PROVE  Closes(d, Flush(d, due)) /\ (d.closing = "Exited" => Flush(d, due) = d)
<1> DEFINE n == Min({due, Len(d.autosave)})
           dirty == {i \in 1..n : d.autosave[i] \in d.dirty}
           i == IF dirty = {} THEN n ELSE Min(dirty)
           e == [d EXCEPT !.autosave = SubSeq(@, i + 1, Len(@))]
<1>1. Alike(d, e) /\ Shaped(e) /\ e.closing = d.closing /\ e.op = d.op
  <2> HIDE DEF i
  <2> QED BY DEF Shaped, DeskFields, Alike
<1>2. \/ Flush(d, due) \in {d, e, [e EXCEPT !.closing = "Open"], CloseSaved(e)}
      \/ ~Busy(d) /\ Flush(d, due) = Submit(e, "Save", d.autosave[i])
  BY DEF Flush
<1>3. d.closing = "Exited" => Flush(d, due) = d
  BY DEF Flush
<1> HIDE DEF e, i
<1>4. Carried(d, e) /\ Carried(d, d) /\ Carried(d, [e EXCEPT !.closing = "Open"])
  <2>1. Alike(e, [e EXCEPT !.closing = "Open"])
    BY <1>1 DEF Shaped, DeskFields, Alike
  <2> QED BY <1>1, <2>1, AlikeMethods, AlikeAgain, HeldAlike
<1>5. Closes(d, CloseSaved(e))
  BY <1>1, <1>4, CloseSavedCloses DEF Closes, Carried
<1>6. ~Busy(d) => Closes(d, Submit(e, "Save", d.autosave[i]))
  <2> HAVE ~Busy(d)
  <2>1. Held(e) /\ NoOps(e)
    BY <1>1, <1>4, FreeOfOps DEF Carried, Busy
  <2>2. Carried(e, Submit(e, "Save", d.autosave[i]))
    BY <1>1, <2>1, SubmitCarried DEF Device
  <2> QED BY <1>4, <2>2, CarriedAgain DEF Closes, Carried
<1> QED BY <1>2, <1>3, <1>4, <1>5, <1>6 DEF Closes, Carried
-----------------------------------------------------------------------------
(* The worker and the retired thread. *)

\* Threads that are neither the worker nor retired are free, and nothing is
\* retired or to be connected while a worker is attached.
Linked(d) ==
  /\ Shaped(d) /\ d.connects \in Nat
  /\ d.retiring # None \/ d.reconnect # None => d.worker = None
  /\ d.worker # None => d.worker \in Threads /\ d.threads[d.worker].life \in {"Open", "Dead"}
  /\ d.retiring # None => d.retiring \in Threads
  /\ \A t \in Threads :
       /\ d.threads[t].life \in {"Free", "Open", "Closed", "Dead"}
       /\ t # d.worker /\ t # d.retiring => d.threads[t].life = "Free"
       /\ t = d.retiring => d.threads[t].life # "Open"
       /\ d.threads[t].life \in {"Free", "Dead"} => d.threads[t].call = NoCommand

\* No worker is attached to a keyboard that was seen missing.
Seen(d) == d.worker # None => d.presence # "Missing"

\* No call of a device thread is begun or ended.
Called(d, e) == \A t \in Threads : e.threads[t].call = d.threads[t].call

\* What a step of the controller may do: attach a keyboard that is plugged in,
\* which makes a scan under way out of date, or drop a worker without having
\* seen its keyboard missing.
Moved(d, e) ==
  /\ Linked(e) /\ Seen(e) /\ Called(d, e)
  /\ e.connects = d.connects => (e.scan = "Current" => d.scan = "Current")
  /\ e.connects # d.connects => plugged # None /\ e.scan # "Current"
  /\ e.worker = None /\ e.presence = "Missing" => d.worker = None /\ d.presence = "Missing"

LEMMA SameLinked ==
  ASSUME NEW d, NEW e, Linked(d), Same(d, e) PROVE Linked(e)
<1>1. Shaped(e)
  BY SameShaped DEF Linked
<1> QED BY <1>1 DEF Linked, Same

LEMMA SameMoved ==
  ASSUME NEW d, NEW e, NEW f, Moved(d, e), Same(e, f) PROVE Moved(d, f)
<1>1. Linked(f)
  BY SameLinked DEF Moved
<1> QED BY <1>1 DEF Moved, Called, Same, Seen

LEMMA SameMoves ==
  ASSUME NEW d, NEW e, Linked(d), Seen(d), Same(d, e) PROVE Moved(d, e)
<1>1. Linked(e)
  BY SameLinked
<1> QED BY <1>1 DEF Moved, Called, Same, Seen

LEMMA Retired ==
  ASSUME NEW d, Linked(d)
  PROVE  /\ Linked(Retire(d)) /\ (Seen(d) => Moved(d, Retire(d)))
         /\ LET e == Retire(d)
            IN /\ e.worker = None /\ e.reconnect = None /\ e.presence = d.presence
               /\ e.connects = d.connects /\ e.scan # "Current"
               /\ Called(d, e) /\ Carried(d, e)
<1> DEFINE e == [d EXCEPT !.refresh = 0, !.reconnect = None, !.selected = None, !.worker = None,
                          !.retiring = IF d.worker = None THEN @ ELSE d.worker,
                          !.threads = [t \in Threads |->
                             IF t = d.worker /\ @[t].life = "Open"
                               THEN [@[t] EXCEPT !.life = "Closed"] ELSE @[t]]]
<1>1. /\ DOMAIN e = DOMAIN d
      /\ e.worker = None /\ e.reconnect = None /\ e.presence = d.presence
      /\ e.connects = d.connects /\ e.scan = d.scan /\ e.closing = d.closing
      /\ e.retiring = IF d.worker = None THEN d.retiring ELSE d.worker
      /\ e.threads = [t \in Threads |->
                        IF t = d.worker /\ d.threads[t].life = "Open"
                          THEN [d.threads[t] EXCEPT !.life = "Closed"] ELSE d.threads[t]]
  BY DEF Linked, Shaped, DeskFields
<1>2. Shaped(e)
  BY <1>1 DEF Linked, Shaped, DeskFields, ThreadFields
<1>3. Linked(e) /\ Called(d, e)
  <2>1. ASSUME NEW t \in Threads
        PROVE  /\ e.threads[t].call = d.threads[t].call
               /\ e.threads[t].life = IF t = d.worker /\ d.threads[t].life = "Open"
                                        THEN "Closed" ELSE d.threads[t].life
    BY <1>1 DEF Linked, Shaped, ThreadFields
  <2> HIDE DEF e
  <2> QED BY <1>1, <1>2, <2>1 DEF Linked, Called
<1> HIDE DEF e
<1>4. Same(e, Disconnect(e)) /\ Shaped(Disconnect(e))
  BY <1>2, SameDisconnect, SameShaped
<1>5. Same(e, Invalidate(Disconnect(e)))
  BY <1>4, SameInvalidate, SameAgain
<1>6. Retire(d) = Invalidate(Disconnect(e))
  BY DEF Retire, e
<1>7. Invalidate(Disconnect(e)).scan # "Current"
  BY <1>4 DEF Shaped, DeskFields, Invalidate
<1>8. Linked(Retire(d))
  BY <1>3, <1>5, <1>6, SameLinked
<1>9. Retire(d).closing = d.closing
  BY <1>1, <1>2, <1>6 DEF Shaped, DeskFields, Disconnect, Invalidate
<1>10. Called(d, Retire(d)) /\ Carried(d, Retire(d))
  BY <1>1, <1>3, <1>5, <1>6, <1>9 DEF Same, Called, Carried, Held
<1> QED BY <1>1, <1>5, <1>6, <1>7, <1>8, <1>10 DEF Same, Moved, Linked, Seen

\* Settling is over: the retired thread has ended and is free again.
LEMMA LinkSettled ==
  ASSUME NEW d, Linked(d), Finished(d)
  PROVE  LET e == [d EXCEPT !.retiring = None,
                            !.threads = [t \in Threads |->
                               IF t = d.retiring /\ @[t].life = "Dead" THEN Free ELSE @[t]]]
         IN /\ Linked(e) /\ (Seen(d) => Moved(d, e)) /\ e.retiring = None
            /\ e.worker = d.worker /\ e.reconnect = d.reconnect /\ e.connects = d.connects
            /\ e.presence = d.presence /\ Called(d, e) /\ Carried(d, e)
<1> DEFINE e == [d EXCEPT !.retiring = None,
                          !.threads = [t \in Threads |->
                             IF t = d.retiring /\ @[t].life = "Dead" THEN Free ELSE @[t]]]
<1>1. /\ DOMAIN e = DOMAIN d
      /\ e.worker = d.worker /\ e.reconnect = d.reconnect /\ e.presence = d.presence
      /\ e.connects = d.connects /\ e.scan = d.scan /\ e.retiring = None
      /\ e.op = d.op /\ e.host = d.host /\ e.closing = d.closing
      /\ e.threads = [t \in Threads |-> IF t = d.retiring /\ d.threads[t].life = "Dead"
                                          THEN Free ELSE d.threads[t]]
  BY DEF Linked, Shaped, DeskFields
<1>2. ThreadFields \subseteq DOMAIN Free /\ Free.life = "Free" /\ Free.call = NoCommand
  BY DEF ThreadFields, Free
<1>3. Shaped(e)
  BY <1>1, <1>2 DEF Linked, Shaped, DeskFields
<1>4. \A t \in Threads : t = d.retiring => d.threads[t].life \in {"Free", "Dead"}
  BY DesktopAssumption DEF Finished
<1>5. /\ Linked(e) /\ Called(d, e)
      /\ d.worker # None => e.threads[d.worker] = d.threads[d.worker]
  <2> HIDE DEF e
  <2>1. ASSUME NEW t \in Threads
        PROVE  e.threads[t] = IF t = d.retiring /\ d.threads[t].life = "Dead"
                                THEN Free ELSE d.threads[t]
    BY <1>1
  <2> QED BY <1>1, <1>2, <1>3, <1>4, <2>1, DesktopAssumption DEF Linked, Called
<1> HIDE DEF e
<1>6. Seen(d) => Moved(d, e)
  BY <1>1, <1>5 DEF Moved, Seen
<1>7. Carried(d, e)
  BY <1>1, <1>5 DEF Carried, Held
<1> QED BY <1>1, <1>5, <1>6, <1>7 DEF e

LEMMA Attaches ==
  ASSUME NEW d, NEW found \in Attachments, plugged \in Keyboards \cup {None},
         Linked(d), d.retiring = None, d.worker = None, CanAttach(d, found)
  PROVE  LET e == Attached(d, found)
         IN /\ Linked(e) /\ Seen(e) /\ e.worker # None /\ e.scan # "Current" /\ plugged # None
            /\ e.connects = d.connects + 1 /\ Called(d, e) /\ Carried(d, e)
<1> DEFINE t == CHOOSE t \in Threads : d.threads[t].life = "Free"
           thread == [Free EXCEPT !.life = "Open"]
           e == [d EXCEPT !.worker = t, !.threads[t] = thread,
                          !.reconnect = None, !.selected = found, !.presence = found,
                          !.refresh = RefreshReads, !.catalog = FALSE,
                          !.generation = d.connects + 1, !.connects = @ + 1]
<1>1. t \in Threads /\ t # None /\ d.threads[t].life = "Free"
  BY DesktopAssumption DEF Linked
<1>2. ThreadFields \subseteq DOMAIN thread /\ thread.life = "Open" /\ thread.call = NoCommand
      /\ thread.queue = << >> /\ thread.answers = << >> /\ thread.events = << >>
  BY DEF ThreadFields, Free
<1>3. found \in Keyboards /\ found # "Missing" /\ plugged # None
  BY DesktopAssumption DEF CanAttach, Attachments
<1> HIDE DEF t, thread
<1>4. /\ DOMAIN e = DOMAIN d
      /\ e.worker = t /\ e.reconnect = None /\ e.presence = found
      /\ e.connects = d.connects + 1 /\ e.retiring = None /\ e.closing = d.closing
      /\ e.threads = [d.threads EXCEPT ![t] = thread]
  BY DEF Linked, Shaped, DeskFields
<1> HIDE DEF e
<1>5. Shaped(e)
  BY <1>2, <1>4 DEF Linked, Shaped
<1>6. Linked(e)
  BY <1>1, <1>2, <1>3, <1>4, <1>5 DEF Linked, Shaped
<1>7. Attached(d, found) = Submit(e, "Read", "keymap")
  BY DEF Attached, e, t, thread
<1>8. Same(e, Submit(e, "Read", "keymap"))
  BY <1>5, SameSubmit
<1>9. Submit(e, "Read", "keymap").scan # "Current"
  <2> DEFINE op == [kind |-> "Read", feature |-> "keymap"]
             f == [Invalidate(e) EXCEPT !.op = op, !.catalog = @ /\ "keymap" # "macro"]
  <2>1. Shaped(f) /\ f.scan # "Current"
    <3>1. Shaped(Invalidate(e)) /\ Invalidate(e).scan # "Current"
      BY <1>5, SameInvalidate, SameShaped DEF Invalidate, Shaped, DeskFields
    <3> QED BY <3>1 DEF Shaped, DeskFields
  <2>2. Same(f, Deliver(f, op))
    BY <2>1, SameDeliver
  <2> QED BY <2>1, <2>2 DEF Submit, Same
<1>10. Linked(Submit(e, "Read", "keymap")) /\ Seen(Submit(e, "Read", "keymap"))
  BY <1>3, <1>4, <1>6, <1>8, SameLinked DEF Seen, Same
<1>11. Called(d, Submit(e, "Read", "keymap"))
  BY <1>1, <1>2, <1>4, <1>8 DEF Called, Same, Linked, Shaped
<1>12. Sound(thread) /\ ~OpThere(thread) /\ ~HostThere(thread)
  <2>1. IsSeq(<< >>)
    BY EmptySeq, SeqIsSeq
  <2>2. Ops(<< >>) = {} /\ Hosts(<< >>) = {} /\ Answers(<< >>) = {} /\ Ends(<< >>) = {}
    BY DEF Ops, Hosts, Answers, Ends
  <2>3. NoCommand.kind = "None" /\ "None" \notin Device
    BY DEF NoCommand, Device
  <2> QED BY <1>2, <2>1, <2>2, <2>3 DEF Sound, OpThere, HostThere, One
<1>13. Held(e) /\ NoOps(e) /\ e.threads[t] = thread
  BY <1>1, <1>4, <1>12 DEF Held, NoOps, Linked, Shaped
<1>14. Carried(d, Submit(e, "Read", "keymap"))
  BY <1>4, <1>5, <1>13, SubmitCarried DEF Carried, Device
<1> QED BY <1>1, <1>3, <1>4, <1>7, <1>8, <1>9, <1>10, <1>11,
           <1>14 DEF Same

LEMMA LinkPolls ==
  ASSUME NEW d, NEW found \in Attachments, plugged \in Keyboards \cup {None},
         Linked(d), Seen(d)
  PROVE  LET e == LinkPoll(d, found).desk
         IN Moved(d, e) /\ Carried(d, e) /\ (d.worker # None => e.worker = d.worker)
<1> DEFINE e == [d EXCEPT !.retiring = None,
                          !.threads = [t \in Threads |->
                             IF t = d.retiring /\ @[t].life = "Dead" THEN Free ELSE @[t]]]
<1>1. CASE ~Finished(d)
  BY <1>1, SameItself, SameMoves DEF LinkPoll, Carried
<1>2. CASE Finished(d)
  <2>1. /\ Linked(e) /\ Moved(d, e) /\ e.retiring = None
        /\ e.worker = d.worker /\ e.reconnect = d.reconnect /\ e.connects = d.connects
        /\ e.presence = d.presence /\ Called(d, e) /\ Carried(d, e)
    BY <1>2, LinkSettled
  <2> HIDE DEF e
  <2>2. CASE d.reconnect = None
    BY <1>2, <2>1, <2>2 DEF LinkPoll, e
  <2>3. CASE d.reconnect # None /\ CanAttach(e, found)
    <3>1. d.worker = None
      BY <2>3 DEF Linked
    <3>2. LET f == Attached(e, found)
          IN /\ Linked(f) /\ Seen(f) /\ f.worker # None /\ f.scan # "Current" /\ plugged # None
             /\ f.connects = e.connects + 1 /\ Called(e, f) /\ Carried(e, f)
      BY <2>1, <2>3, <3>1, Attaches
    <3>3. LinkPoll(d, found).desk = Attached(e, found)
      BY <1>2, <2>3 DEF LinkPoll, e
    <3>4. Attached(e, found).connects # d.connects
      BY <2>1, <3>2 DEF Linked
    <3>5. Moved(d, Attached(e, found))
      BY <2>1, <3>2, <3>4 DEF Moved, Called
    <3>6. Carried(d, Attached(e, found))
      BY <2>1, <3>2, CarriedAgain
    <3> QED BY <3>1, <3>3, <3>5, <3>6
  <2>4. CASE d.reconnect # None /\ ~CanAttach(e, found)
    <3>1. LinkPoll(d, found).desk = [e EXCEPT !.reconnect = None]
      BY <1>2, <2>4 DEF LinkPoll, e
    <3>2. Linked([e EXCEPT !.reconnect = None])
      BY <2>1 DEF Linked, Shaped, DeskFields
    <3>3. Carried(d, [e EXCEPT !.reconnect = None])
      <4>1. Alike(e, [e EXCEPT !.reconnect = None])
        BY <2>1 DEF Linked, Shaped, DeskFields, Alike
      <4> QED BY <2>1, <4>1, HeldAlike, CarriedAgain
    <3> QED BY <2>1, <3>1, <3>2, <3>3 DEF Moved, Called, Seen, Linked, Shaped, DeskFields
  <2> QED BY <2>2, <2>3, <2>4
<1> QED BY <1>1, <1>2

LEMMA MovedRetire ==
  ASSUME NEW d, NEW e, Moved(d, e) PROVE Moved(d, Retire(e))
<1>1. Moved(e, Retire(e))
  BY Retired DEF Moved
<1>2. LET f == Retire(e)
      IN f.worker = None /\ f.presence = e.presence /\ f.connects = e.connects /\ f.scan # "Current"
  BY Retired DEF Moved
<1> QED BY <1>1, <1>2 DEF Moved, Called, Seen

LEMMA AnswerCarried ==
  ASSUME NEW d, NEW page \in Pages, Shaped(d), Held(d), d.worker # None,
         d.threads[d.worker].answers # << >>
  PROVE  Carried(d, Complete([d EXCEPT !.threads[d.worker].answers = Tail(@)],
                             Head(d.threads[d.worker].answers), page))
<1> DEFINE thread == d.threads[d.worker]
           e == [d EXCEPT !.threads[d.worker].answers = Tail(@)]
           new == e.threads[d.worker]
           answer == Head(thread.answers)
<1>1. d.worker \in Threads
  BY DEF Held
<1>2. /\ Shaped(e) /\ e.worker = d.worker /\ e.op = d.op /\ e.host = d.host
      /\ e.closing = d.closing
  BY DEF Shaped, DeskFields, ThreadFields
<1>3. /\ new.answers = Tail(thread.answers) /\ new.life = thread.life /\ new.call = thread.call
      /\ new.queue = thread.queue /\ new.events = thread.events
  BY <1>1 DEF Shaped, DeskFields, ThreadFields
<1> HIDE DEF e
<1>4. ASSUME thread.life = "Open"
      PROVE  /\ Sound(new) /\ (OpThere(new) => d.op # NoCommand)
             /\ (HostThere(new) => d.host # "Idle")
             /\ answer.kind # "Catalog" => ~OpThere(new)
  <2>1. thread.answers # << >> /\ answer = Head(thread.answers)
    OBVIOUS
  <2> HIDE DEF thread, new, answer
  <2>2. /\ Sound(thread) /\ (OpThere(thread) => d.op # NoCommand)
        /\ (HostThere(thread) => d.host # "Idle")
    BY <1>1, <1>4 DEF Held, thread
  <2>3. IsSeq(thread.answers) /\ One(Answers(thread.answers))
    BY <2>2 DEF Sound
  <2>4. IsSeq(new.answers)
    BY <1>3, <2>1, <2>3, TailSeq
  <2>5. /\ Answers(new.answers) # {} => Answers(thread.answers) # {}
        /\ One(Answers(new.answers))
        /\ answer.kind # "Catalog" => Answers(new.answers) = {} /\ Answers(thread.answers) # {}
    BY <1>3, <2>1, <2>3, TailPlaces
  <2> QED BY <1>3, <2>2, <2>4, <2>5 DEF Sound, OpThere, HostThere
<1>5. Carried(d, e) /\ Held(e) /\ (answer.kind # "Catalog" => NoOps(e))
  <2> HIDE DEF answer
  <2> QED BY <1>1, <1>2, <1>3, <1>4 DEF Carried, Held, NoOps, thread, new
<1>6. Carried(e, Complete(e, answer, page))
  <2> HIDE DEF answer
  <2> QED BY <1>2, <1>5, CompleteCarried
<1> QED BY <1>5, <1>6, CarriedAgain DEF e

LEMMA ReceiveMoves ==
  ASSUME NEW d, NEW e, NEW page \in Pages, Held(d), Moved(d, e), Carried(d, e)
  PROVE  Moved(d, Receive(e, page)) /\ Carried(d, Receive(e, page))
<1>1. Shaped(e)
  BY DEF Moved, Linked
<1>2. Same(e, CloseIfWaiting(e))
  BY <1>1, SameAskClose
<1>3. \A answer : Same(e, Complete([e EXCEPT !.threads[e.worker].answers = Tail(@)], answer, page))
  <2>1. Same(e, [e EXCEPT !.threads[e.worker].answers = Tail(@)])
    BY <1>1 DEF Shaped, DeskFields, ThreadFields, Same
  <2> QED BY <1>1, <2>1, SameComplete, SameShaped, SameAgain
<1>4. Moved(d, Lost(e)) /\ Lost(e).worker = None /\ Lost(e).closing = "Open"
  <2> DEFINE f == FinishRecording(e)
             g == [f EXCEPT !.autosave = <<>>, !.presence = "Unknown"]
  <2>1. Moved(d, f)
    BY <1>1, SameFinishRecording, SameMoved
  <2>2. /\ DOMAIN g = DOMAIN f /\ g.presence = "Unknown" /\ g.worker = f.worker
        /\ g.retiring = f.retiring /\ g.reconnect = f.reconnect /\ g.scan = f.scan
        /\ g.connects = f.connects /\ g.threads = f.threads
    BY <2>1 DEF Moved, Linked, Shaped, DeskFields
  <2> HIDE DEF f, g
  <2>3. Moved(d, g)
    BY <2>1, <2>2 DEF Moved, Called, Linked, Seen, Shaped
  <2>4. Moved(d, Retire(g)) /\ Retire(g).worker = None
    BY <2>3, MovedRetire, Retired DEF Moved
  <2>5. Same(Retire(g), [Retire(g) EXCEPT !.closing = "Open"])
    BY <2>4 DEF Moved, Linked, Shaped, DeskFields, Same
  <2>6. Lost(e) = [Retire(g) EXCEPT !.closing = "Open"]
    BY DEF Lost, f, g
  <2>7. [Retire(g) EXCEPT !.closing = "Open"].closing = "Open"
    BY <2>4 DEF Moved, Linked, Shaped, DeskFields
  <2>8. Moved(d, [Retire(g) EXCEPT !.closing = "Open"])
    BY <2>4, <2>5, SameMoved
  <2>9. [Retire(g) EXCEPT !.closing = "Open"].worker = None
    BY <2>4, <2>5 DEF Same
  <2> QED BY <2>6, <2>7, <2>8, <2>9
<1>5. Carried(d, e) /\ Carried(d, Lost(e))
  BY <1>4 DEF Carried, Held
<1>6. Carried(d, CloseIfWaiting(e))
  BY <1>1, AlikeMethods, HeldAlike, CarriedAgain
<1>7. ASSUME e.worker # None, e.threads[e.worker].answers # << >>
      PROVE  Carried(d, Complete([e EXCEPT !.threads[e.worker].answers = Tail(@)],
                                 Head(e.threads[e.worker].answers), page))
  BY <1>1, <1>7, AnswerCarried, CarriedAgain DEF Carried
<1>8. Moved(d, Receive(e, page))
  BY <1>2, <1>3, <1>4, SameMoved, SameItself DEF Receive
<1> QED BY <1>5, <1>6, <1>7, <1>8 DEF Receive

LEMMA PolledMoves ==
  ASSUME NEW link, NEW host, NEW page \in Pages, Held(desk),
         Moved(desk, link.desk), Same(link.desk, host.desk),
         Carried(desk, link.desk), Carried(link.desk, host.desk)
  PROVE  Moved(desk, Polled(link, host, page)) /\ Carried(desk, Polled(link, host, page))
<1> DEFINE d == IF host.outcome = "Failed" THEN [host.desk EXCEPT !.closing = "Open"]
                ELSE host.desk
<1>1. Moved(desk, host.desk) /\ Carried(desk, host.desk)
  BY SameMoved, CarriedAgain
<1>2. ASSUME NEW e, Moved(desk, e), Carried(desk, e)
      PROVE  Moved(desk, [e EXCEPT !.closing = "Open"]) /\ Carried(desk, [e EXCEPT !.closing = "Open"])
  <2>1. Shaped(e)
    BY <1>2 DEF Moved, Linked
  <2>2. Same(e, [e EXCEPT !.closing = "Open"]) /\ Alike(e, [e EXCEPT !.closing = "Open"])
    BY <2>1 DEF Shaped, DeskFields, Same, Alike
  <2> QED BY <1>2, <2>2, SameMoved, HeldAlike, CarriedAgain
<1>3. Moved(desk, d) /\ Carried(desk, d)
  BY <1>1, <1>2
<1> HIDE DEF d
<1>4. Moved(desk, AskClose(d)) /\ Carried(desk, AskClose(d))
  <2>1. Shaped(d)
    BY <1>3 DEF Moved, Linked
  <2> QED BY <1>3, <2>1, SameAskClose, SameMoved, AlikeMethods, HeldAlike, CarriedAgain
<1>5. Moved(desk, Receive(d, page)) /\ Carried(desk, Receive(d, page))
  BY <1>3, ReceiveMoves
<1>6. Moved(desk, [link.desk EXCEPT !.closing = "Open"])
      /\ Carried(desk, [link.desk EXCEPT !.closing = "Open"])
  BY <1>2
<1> QED BY <1>4, <1>5, <1>6 DEF Polled, d
-----------------------------------------------------------------------------
(* The steps. *)

\* No steady connection outlives its keyboard, and what a scan under way found
\* is from after the attachment.
LinkInv ==
  /\ Linked(desk) /\ Seen(desk)
  /\ plugged \in Keyboards \cup {None} /\ steady \in BOOLEAN
  /\ steady => plugged # None
  /\ steady /\ desk.scan = "Current" => probe # "Missing"

\* The worker is not dropped because its keyboard was seen missing, unless it
\* has been away.
Dropped == desk.worker # None /\ desk'.worker = None /\ desk'.presence = "Missing" => ~steady

\* Nothing is lost by a step that closes the window without a question.
Closed ==
  desk'.closing = "Exited" /\ desk.closing \in {"Open", "Waiting"} =>
    /\ desk'.dirty = {} /\ desk'.autosave = <<>>
    /\ \A t \in Threads : desk.threads[t].call # NoCommand =>
         desk.threads[t].call.kind \in {"Read", "Catalog"}

DesktopInv == LinkInv /\ Held(desk)
Kept == DesktopInv' /\ Dropped /\ Closed

LEMMA HandleSame ==
  ASSUME NEW next, Shaped(next), Handle(next)
  PROVE  /\ Same(next, desk')
         /\ steady' = (steady \/ desk'.connects # desk.connects) /\ UNCHANGED plugged
<1> DEFINE e == IF next.closing = "Asked" THEN CloseSaved(next) ELSE next
           f == IF next.closing = "Asked" THEN CloseFlush(e) ELSE e
<1>1. Same(next, e) /\ Shaped(e)
  BY SameCloseSaved, SameItself, SameShaped
<1>2. Same(next, f) /\ Shaped(f)
  BY <1>1, SameCloseFlush, SameItself, SameAgain, SameShaped
<1>3. \E due \in 0..Len(f.autosave) : desk' = Flush(f, due)
  BY DEF Handle
<1> HIDE DEF f
<1>4. Same(next, desk')
  BY <1>2, <1>3, SameFlush, SameAgain
<1> QED BY <1>4 DEF Handle

\* How a message ends: what is under way is kept, and the window closes only
\* if nothing would be lost.
LEMMA HandleCloses ==
  ASSUME NEW next, Shaped(next), Held(next), Called(desk, next), Handle(next), Linked(desk'),
         next.closing = "Exited" => desk.closing \notin {"Open", "Waiting"}
  PROVE  Held(desk') /\ Closed
<1> DEFINE e == IF next.closing = "Asked" THEN CloseSaved(next) ELSE next
           f == IF next.closing = "Asked" THEN CloseFlush(e) ELSE e
<1>1. Same(next, e) /\ Shaped(e)
  BY SameCloseSaved, SameItself, SameShaped
<1>2. Closes(next, e) /\ Held(e)
  BY CloseSavedCloses DEF Closes
<1>3. Same(next, f) /\ Shaped(f)
  BY <1>1, SameCloseFlush, SameItself, SameAgain, SameShaped
<1> HIDE DEF e
<1>4. f \in {e, Flush(e, Len(e.autosave))}
  BY DEF CloseFlush
<1>5. Closes(next, f) /\ Held(f)
  BY <1>1, <1>2, <1>4, FlushCloses DEF Closes
<1>6. \E due \in 0..Len(f.autosave) : desk' = Flush(f, due)
  BY DEF Handle, e
<1> HIDE DEF f
<1>7. /\ Same(next, desk') /\ Held(desk')
      /\ desk'.closing = "Exited" => next.closing = "Exited" \/ Quiet(desk')
  BY <1>3, <1>5, <1>6, FlushCloses, SameFlush, SameAgain DEF Closes
<1>8. ASSUME Quiet(desk'), NEW t \in Threads, desk.threads[t].call # NoCommand
      PROVE  desk.threads[t].call.kind \in {"Read", "Catalog"}
  <2>1. desk'.threads[t].call = desk.threads[t].call
    BY <1>7 DEF Same, Called
  <2>2. desk'.threads[t].life \notin {"Free", "Dead"}
    BY <1>8, <2>1 DEF Linked
  <2>3. t = desk'.worker /\ desk'.worker # None /\ desk'.threads[t].life = "Open"
    BY <1>8, <2>2, DesktopAssumption DEF Linked, Quiet, Settling
  <2>4. Sound(desk'.threads[t]) /\ ~OpThere(desk'.threads[t]) /\ ~HostThere(desk'.threads[t])
    BY <1>7, <1>8, <2>3 DEF Held, Quiet
  <2>5. desk'.threads[t].call.kind \in {"None", "Catalog"}
    BY <2>4 DEF Sound, OpThere, HostThere
  <2> QED BY <1>8, <2>1, <2>4, <2>5 DEF Sound
<1> QED BY <1>7, <1>8 DEF Closed, Quiet

LEMMA MoveKept ==
  ASSUME DesktopInv, NEW next, Moved(desk, next), Held(next), UI(next),
         next.closing = "Exited" => desk.closing \notin {"Open", "Waiting"}
  PROVE  Kept
<1>1. Shaped(next) /\ Called(desk, next)
  BY DEF Moved, Linked
<1>2. /\ Same(next, desk') /\ UNCHANGED <<plugged, probe>>
      /\ steady' = (steady \/ desk'.connects # desk.connects)
  BY <1>1, HandleSame DEF UI
<1>3. Moved(desk, desk')
  BY <1>2, SameMoved
<1>4. Linked(desk)' /\ Seen(desk)'
  BY <1>3 DEF Moved
<1>5. Dropped
  BY <1>3 DEF Moved, Dropped
<1>6. plugged' \in Keyboards \cup {None} /\ steady' \in BOOLEAN
  BY <1>2 DEF DesktopInv, LinkInv
<1>7. (steady => plugged # None)' /\ (steady /\ desk.scan = "Current" => probe # "Missing")'
  BY <1>2, <1>3 DEF DesktopInv, LinkInv, Moved
<1>8. Held(desk)' /\ Closed
  BY <1>1, <1>3, HandleCloses DEF UI, Moved
<1> QED BY <1>4, <1>5, <1>6, <1>7, <1>8 DEF Kept, DesktopInv, LinkInv

LEMMA CarriedKept ==
  ASSUME DesktopInv, NEW next, Moved(desk, next), Carried(desk, next), UI(next)
  PROVE  Kept
<1>1. desk.closing # "Exited" /\ Held(next)
  BY DEF UI, Handle, Carried, DesktopInv
<1> QED BY <1>1, MoveKept DEF Carried

LEMMA SameKept ==
  ASSUME DesktopInv, NEW next, Same(desk, next), Carried(desk, next), UI(next)
  PROVE  Kept
<1>1. Moved(desk, next)
  BY SameMoves DEF DesktopInv, LinkInv
<1> QED BY <1>1, CarriedKept

\* Most messages neither move the link nor touch what is under way.
Unmoved(d, e) == Same(d, e) /\ Alike(d, e)

LEMMA UnmovedKept ==
  ASSUME DesktopInv, NEW next, Unmoved(desk, next), UI(next) PROVE Kept
BY SameKept, HeldAlike DEF Unmoved

LEMMA UnmovedAgain ==
  ASSUME NEW d, NEW e, NEW f, Shaped(d), Unmoved(d, e), Unmoved(e, f)
  PROVE  Unmoved(d, f) /\ Shaped(f)
BY SameAgain, AlikeAgain, SameShaped DEF Unmoved

LEMMA UnmovedMethods ==
  ASSUME NEW d, Shaped(d)
  PROVE  /\ Unmoved(d, Invalidate(d)) /\ Unmoved(d, FinishRecording(d))
         /\ Unmoved(d, CancelCatalog(d)) /\ Unmoved(d, HostStopped(d))
         /\ Unmoved(d, AskClose(d)) /\ Unmoved(d, CloseIfWaiting(d))
         /\ \A operation : Unmoved(d, BeginFile(d, operation))
BY SameInvalidate, SameFinishRecording, SameCancelCatalog, SameHostStopped, SameAskClose,
   SameBeginFile, AlikeMethods, AlikeHostStopped, AlikeFiles DEF Unmoved

\* What the user, a job or a notice does.
LEMMA MessagesKept ==
  ASSUME DesktopInv,
         \/ EditMacro \/ Import \/ HostStart \/ HostStop \/ RecordStart \/ RecordStop
         \/ ApplyAppearance \/ DeviceEvent \/ CloseRequest \/ Discard \/ KeepEditing
         \/ \E f \in Autosaved : Edit(f)
         \/ \E kind \in {"Save", "Start"} : Save(kind)
         \/ \E page \in Pages : Page(page)
         \/ \E ok \in BOOLEAN : AppearanceSaved(ok) \/ FileComplete(ok)
  PROVE  Kept
<1>1. Shaped(desk) /\ Held(desk) /\ Unmoved(desk, desk)
  BY AlikeMethods, SameItself DEF DesktopInv, LinkInv, Linked, Unmoved
<1>2. CASE EditMacro
  <2>1. \A dirty : Unmoved(desk, [desk EXCEPT !.dirty = dirty])
    BY <1>1 DEF Shaped, DeskFields, Same, Alike, Unmoved
  <2> QED BY <1>2, <2>1, UnmovedKept DEF EditMacro
<1>3. CASE Import
  BY <1>1, <1>3, UnmovedMethods, UnmovedKept DEF Import
<1>4. CASE HostStart
  <2> DEFINE d == [desk EXCEPT !.sampler = "Preparing", !.catalog = FALSE]
  <2>1. Unmoved(desk, d)
    BY <1>1 DEF Shaped, DeskFields, Same, Alike, Unmoved
  <2> HIDE DEF d
  <2>2. Unmoved(desk, CancelCatalog(d)) /\ Shaped(CancelCatalog(d))
    BY <1>1, <2>1, UnmovedMethods, UnmovedAgain
  <2>3. Unmoved(desk, Invalidate(CancelCatalog(d)))
    BY <1>1, <2>2, UnmovedMethods, UnmovedAgain
  <2>4. UI(Invalidate(CancelCatalog(d)))
    BY <1>4 DEF HostStart, d
  <2> QED BY <2>3, <2>4, UnmovedKept
<1>5. CASE HostStop
  BY <1>1, <1>5, UnmovedMethods, UnmovedKept DEF HostStop
<1>6. CASE RecordStart
  <2> DEFINE d == IF desk.catalog THEN CancelCatalog([desk EXCEPT !.recording = "Requested"])
                  ELSE [desk EXCEPT !.recording = "On"]
  <2>1. \A recording : Unmoved(desk, [desk EXCEPT !.recording = recording])
    BY <1>1 DEF Shaped, DeskFields, Same, Alike, Unmoved
  <2>2. Unmoved(desk, d) /\ Shaped(d)
    <3>1. \A recording : Shaped([desk EXCEPT !.recording = recording])
      BY <1>1, <2>1, UnmovedAgain
    <3>2. \A recording : Unmoved(desk, CancelCatalog([desk EXCEPT !.recording = recording]))
      BY <1>1, <2>1, <3>1, UnmovedMethods, UnmovedAgain
    <3>3. Unmoved(desk, d)
      BY <2>1, <3>2
    <3> HIDE DEF d
    <3> QED BY <1>1, <3>3, UnmovedAgain
  <2> HIDE DEF d
  <2>3. Unmoved(desk, Invalidate(d))
    BY <1>1, <2>2, UnmovedMethods, UnmovedAgain
  <2>4. UI(Invalidate(d))
    BY <1>6 DEF RecordStart, d
  <2> QED BY <2>3, <2>4, UnmovedKept
<1>7. CASE RecordStop
  BY <1>1, <1>7, UnmovedMethods, UnmovedKept DEF RecordStop
<1>8. CASE ApplyAppearance
  <2>1. Unmoved(desk, [desk EXCEPT !.appearance = TRUE])
    BY <1>1 DEF Shaped, DeskFields, Same, Alike, Unmoved
  <2> QED BY <1>8, <2>1, UnmovedKept DEF ApplyAppearance
<1>9. CASE DeviceEvent
  <2>1. Unmoved(desk, [desk EXCEPT !.catalog = FALSE])
    BY <1>1 DEF Shaped, DeskFields, Same, Alike, Unmoved
  <2>2. Unmoved(desk, CancelCatalog([desk EXCEPT !.catalog = FALSE]))
    BY <1>1, <2>1, UnmovedMethods, UnmovedAgain
  <2> QED BY <1>9, <2>2, UnmovedKept DEF DeviceEvent
<1>10. CASE CloseRequest
  BY <1>1, <1>10, UnmovedMethods, UnmovedKept DEF CloseRequest
<1>11. CASE Discard
  <2> DEFINE next == [desk EXCEPT !.closing = "Exited"]
  <2>1. Same(desk, next) /\ Held(next)
    BY <1>1 DEF Shaped, DeskFields, Same, Held
  <2>2. UI(next) /\ desk.closing \notin {"Open", "Waiting"}
    BY <1>11 DEF Discard
  <2> HIDE DEF next
  <2> QED BY <2>1, <2>2, SameMoves, MoveKept DEF DesktopInv, LinkInv
<1>12. CASE KeepEditing
  <2>1. Unmoved(desk, [desk EXCEPT !.closing = "Open"])
    BY <1>1 DEF Shaped, DeskFields, Same, Alike, Unmoved
  <2> QED BY <1>12, <2>1, UnmovedKept DEF KeepEditing
<1>13. ASSUME NEW f \in Autosaved, Edit(f) PROVE Kept
  <2>1. \A dirty, autosave : Unmoved(desk, [desk EXCEPT !.dirty = dirty, !.autosave = autosave])
    BY <1>1 DEF Shaped, DeskFields, Same, Alike, Unmoved
  <2>2. \E dirty, autosave : UI([desk EXCEPT !.dirty = dirty, !.autosave = autosave])
    BY <1>13 DEF Edit
  <2> QED BY <2>1, <2>2, UnmovedKept
<1>14. ASSUME NEW kind \in {"Save", "Start"}, Save(kind) PROVE Kept
  <2>1. NoOps(desk) /\ UI(Submit(desk, kind, "macro"))
    BY <1>1, <1>14, FreeOfOps DEF Save, Busy
  <2> QED BY <1>1, <2>1, SameSubmit, SubmitCarried, SameKept DEF Device
<1>15. ASSUME NEW page \in Pages, Page(page) PROVE Kept
  BY <1>1, <1>15, SameLoadPage, LoadPageCarried, SameKept DEF Page
<1>16. ASSUME NEW ok, AppearanceSaved(ok) PROVE Kept
  <2> DEFINE d == [desk EXCEPT !.appearance = FALSE]
  <2>1. Unmoved(desk, d)
    BY <1>1 DEF Shaped, DeskFields, Same, Alike, Unmoved
  <2>2. \E next \in {d, AskClose(d), [d EXCEPT !.closing = "Open"]} : UI(next)
    BY <1>16 DEF AppearanceSaved
  <2> HIDE DEF d
  <2>3. Shaped(d) /\ Unmoved(desk, AskClose(d))
    BY <1>1, <2>1, UnmovedMethods, UnmovedAgain
  <2>4. Unmoved(d, [d EXCEPT !.closing = "Open"])
    BY <2>3 DEF Shaped, DeskFields, Same, Alike, Unmoved
  <2> QED BY <1>1, <2>1, <2>2, <2>3, <2>4, UnmovedAgain, UnmovedKept
<1>17. ASSUME NEW ok, FileComplete(ok) PROVE Kept
  <2> DEFINE d == [desk EXCEPT !.file = None, !.labels = @ \/ desk.file.operation = "Labels"]
  <2>1. Unmoved(desk, d)
    BY <1>1 DEF Shaped, DeskFields, Same, Alike, Unmoved
  <2>2. \/ UI([d EXCEPT !.closing = "Open"])
        \/ \E dirty : UI(CloseIfWaiting([d EXCEPT !.dirty = dirty]))
    BY <1>17 DEF FileComplete
  <2> HIDE DEF d
  <2>3. Shaped(d)
    BY <1>1, <2>1, UnmovedAgain
  <2>4. /\ Unmoved(d, [d EXCEPT !.closing = "Open"])
        /\ \A dirty : Unmoved(d, [d EXCEPT !.dirty = dirty])
    BY <2>3 DEF Shaped, DeskFields, Same, Alike, Unmoved
  <2>5. \A dirty : Unmoved(desk, CloseIfWaiting([d EXCEPT !.dirty = dirty]))
    <3> TAKE dirty
    <3>1. Unmoved(desk, [d EXCEPT !.dirty = dirty]) /\ Shaped([d EXCEPT !.dirty = dirty])
      BY <1>1, <2>1, <2>4, UnmovedAgain
    <3> QED BY <1>1, <3>1, UnmovedMethods, UnmovedAgain
  <2> QED BY <1>1, <2>1, <2>2, <2>4, <2>5, UnmovedAgain, UnmovedKept
<1> QED BY <1>2, <1>3, <1>4, <1>5, <1>6, <1>7, <1>8, <1>9, <1>10, <1>11, <1>12, <1>13, <1>14,
           <1>15, <1>16, <1>17

\* Read / reconnect, and the poll of the link and of host lighting.
LEMMA LinkStepsKept ==
  ASSUME DesktopInv, Read \/ Poll PROVE Kept
<1>1. CASE Read
  <2> DEFINE d == [desk EXCEPT !.autosave = <<>>]
             e == [Retire(d) EXCEPT !.reconnect = "Manual"]
  <2>1. Unmoved(desk, d) /\ Moved(desk, d)
    <3>1. Unmoved(desk, d)
      BY DEF DesktopInv, LinkInv, Linked, Shaped, DeskFields, Same, Alike, Unmoved
    <3> QED BY <3>1, SameMoves DEF DesktopInv, LinkInv, Unmoved
  <2> HIDE DEF d
  <2>2. /\ Moved(desk, Retire(d)) /\ Retire(d).worker = None
        /\ Retire(d).connects = desk.connects
    BY <2>1, MovedRetire, Retired DEF Moved, Unmoved, Same
  <2>3. Carried(desk, Retire(d))
    BY <2>1, Retired, HeldAlike, CarriedAgain DEF Moved, Unmoved
  <2>4. /\ DOMAIN e = DOMAIN Retire(d) /\ e.worker = None /\ e.reconnect = "Manual"
        /\ e.retiring = Retire(d).retiring /\ e.presence = Retire(d).presence
        /\ e.scan = Retire(d).scan /\ e.connects = desk.connects
        /\ e.threads = Retire(d).threads /\ e.closing = Retire(d).closing
    BY <2>2 DEF Moved, Linked, Shaped, DeskFields
  <2>5. Moved(desk, e) /\ Carried(desk, e)
    BY <2>2, <2>3, <2>4 DEF Moved, Called, Linked, Seen, Carried, Held, Shaped
  <2> HIDE DEF e
  <2>6. PICK found \in Attachments : UI(LinkPoll(e, found).desk)
    BY <1>1 DEF Read, d, e
  <2>7. Moved(e, LinkPoll(e, found).desk) /\ Carried(desk, LinkPoll(e, found).desk)
    <3>1. e.worker = None /\ e.connects = desk.connects
      BY <2>4 DEF e
    <3> QED BY <2>5, LinkPolls, CarriedAgain DEF DesktopInv, LinkInv, Moved
  <2>8. Moved(desk, LinkPoll(e, found).desk)
    BY <2>4, <2>5, <2>7 DEF Moved, Called, Seen
  <2> QED BY <2>6, <2>7, <2>8, CarriedKept
<1>2. CASE Poll
  <2>1. PICK found \in Attachments, page \in Pages : \E sampler :
          UI(Polled(LinkPoll(desk, found), HostPoll(LinkPoll(desk, found).desk, sampler), page))
    <3>1. PagesShown \subseteq Pages
      BY DEF PagesShown, Pages
    <3>2. PICK found \in Attachments :
            \E link \in {LinkPoll(desk, found)} : \E sampler \in SamplerEvents :
            \E host \in {HostPoll(link.desk, sampler)} : \E page \in PagesShown :
              UI(Polled(link, host, page))
      BY <1>2 DEF Poll, Attachments
    <3> DEFINE link == LinkPoll(desk, found)
    <3>3. PICK sampler :
            \E host \in {HostPoll(link.desk, sampler)} : \E page \in PagesShown :
              UI(Polled(link, host, page))
      BY <3>2
    <3> HIDE DEF link
    <3>4. PICK page \in Pages : UI(Polled(link, HostPoll(link.desk, sampler), page))
      BY <3>1, <3>3
    <3> QED BY <3>4 DEF link
  <2>2. PICK sampler :
          UI(Polled(LinkPoll(desk, found), HostPoll(LinkPoll(desk, found).desk, sampler), page))
    BY <2>1
  <2> DEFINE link == LinkPoll(desk, found)
             host == HostPoll(link.desk, sampler)
  <2>3. Moved(desk, link.desk) /\ Carried(desk, link.desk) /\ Held(desk)
    BY LinkPolls DEF DesktopInv, LinkInv
  <2>4. Same(link.desk, host.desk) /\ Carried(link.desk, host.desk)
    BY <2>3, SameHostPoll, HostPollCarried DEF Moved, Linked, Carried
  <2>5. Moved(desk, Polled(link, host, page)) /\ Carried(desk, Polled(link, host, page))
    BY <2>3, <2>4, PolledMoves
  <2> QED BY <2>2, <2>5, CarriedKept
<1> QED BY <1>1, <1>2

\* What a scan found is carried out: the worker of a keyboard that is missing
\* or replaced is retired, and the keyboard that is there is connected.
LEMMA ObserveMoves ==
  ASSUME DesktopInv, ~Settling(desk), NEW observed, NEW found \in Attachments
  PROVE  LET e == Observe([desk EXCEPT !.scan = "Idle"], observed, found).desk
         IN /\ Linked(e) /\ Seen(e) /\ Called(desk, e) /\ Carried(desk, e)
            /\ e.connects # desk.connects => plugged # None
            /\ desk.worker # None /\ e.worker = None /\ e.presence = "Missing"
                 => observed = "Missing"
<1> DEFINE d == [desk EXCEPT !.scan = "Idle"]
           e == [d EXCEPT !.presence = observed]
           replaced == IF d.worker # None THEN Retire(e) ELSE e
           known == [replaced EXCEPT !.reconnect = observed]
<1>1. /\ Linked(d) /\ Seen(d) /\ d.worker = desk.worker /\ d.presence = desk.presence
      /\ d.connects = desk.connects /\ d.retiring = None /\ d.reconnect = None
      /\ Alike(desk, d)
  BY DEF DesktopInv, LinkInv, Linked, Shaped, DeskFields, Seen, Settling, Alike
<1> HIDE DEF d
<1>2. /\ Linked(e) /\ e.worker = d.worker /\ e.presence = observed /\ e.connects = d.connects
      /\ Alike(d, e)
  BY <1>1 DEF Linked, Shaped, DeskFields, Alike
<1> HIDE DEF e
<1>3. Alike(desk, e) /\ Called(desk, e) /\ Carried(desk, e)
  BY <1>1, <1>2, AlikeAgain, HeldAlike DEF Called, Alike
<1>4. /\ Linked(Retire(e)) /\ Retire(e).worker = None
      /\ Retire(e).presence = observed /\ Retire(e).connects = desk.connects
      /\ Called(desk, Retire(e)) /\ Carried(desk, Retire(e))
  <2>1. Called(e, Retire(e)) /\ Carried(e, Retire(e))
    BY <1>2, Retired
  <2>2. Called(desk, Retire(e)) /\ Carried(desk, Retire(e))
    BY <1>3, <2>1, CarriedAgain DEF Called
  <2> QED BY <1>1, <1>2, <2>2, Retired
<1>5. /\ Linked(replaced) /\ replaced.worker = None
      /\ replaced.presence = observed /\ replaced.connects = desk.connects
      /\ Called(desk, replaced) /\ Carried(desk, replaced)
  BY <1>1, <1>2, <1>3, <1>4
<1> HIDE DEF replaced
<1>6. CASE observed \notin Keyboards
  <2>1. Observe(d, observed, found).desk = IF observed # d.presence THEN Retire(e) ELSE e
    BY <1>6 DEF Observe, e
  <2> QED BY <1>1, <1>2, <1>3, <1>4, <2>1 DEF Seen, d
<1>7. CASE observed \in Keyboards /\ d.worker # None /\ observed = d.selected
  <2>1. Observe(d, observed, found).desk = e
    BY <1>7 DEF Observe, e
  <2> QED BY <1>1, <1>2, <1>3, <1>7, <2>1, DesktopAssumption DEF Seen, d
<1>8. CASE observed \in Keyboards /\ ~(d.worker # None /\ observed = d.selected) /\ d.manual
  <2>1. Observe(d, observed, found).desk = replaced
    BY <1>8 DEF Observe, e, replaced
  <2> QED BY <1>5, <2>1 DEF Seen, d
<1>9. CASE observed \in Keyboards /\ ~(d.worker # None /\ observed = d.selected) /\ ~d.manual
  <2>1. Observe(d, observed, found).desk = LinkPoll(known, found).desk
    BY <1>9 DEF Observe, e, replaced
  <2>2. /\ Linked(known) /\ Seen(known) /\ known.connects = desk.connects
        /\ known.presence = observed /\ Alike(replaced, known)
    BY <1>5 DEF Linked, Seen, Shaped, DeskFields, Alike
  <2> HIDE DEF known
  <2>3. Moved(known, LinkPoll(known, found).desk) /\ Carried(known, LinkPoll(known, found).desk)
    BY <2>2, LinkPolls DEF DesktopInv, LinkInv
  <2>4. Carried(desk, LinkPoll(known, found).desk)
    BY <1>5, <2>2, <2>3, HeldAlike, CarriedAgain
  <2>5. Called(desk, LinkPoll(known, found).desk)
    BY <1>5, <2>2, <2>3 DEF Called, Alike, Moved
  <2>6. Linked(LinkPoll(known, found).desk) /\ Seen(LinkPoll(known, found).desk)
    BY <2>3 DEF Moved
  <2> QED BY <2>1, <2>2, <2>3, <2>4, <2>5, <2>6 DEF Moved, d
<1> QED BY <1>6, <1>7, <1>8, <1>9

\* A scan: what the last one found is used unless it is out of date, and the
\* next one is asked for.
LEMMA ScanKept ==
  ASSUME DesktopInv, Scan PROVE Kept
<1>1. PICK found \in Attachments :
        LET received == Received(desk)
            d == IF probe \in Availability THEN [desk EXCEPT !.scan = "Idle"] ELSE desk
            step == CASE Settling(desk) -> LinkPoll(desk, found)
                      [] ~Settling(desk) /\ received # None -> Observe(d, received, found)
                      [] OTHER -> [result |-> "None", desk |-> d]
            ask == ~Settling(desk) /\ step.result = "None" /\ step.desk.scan = "Idle"
        IN /\ Handle(IF ask THEN [step.desk EXCEPT !.scan = "Current"] ELSE step.desk)
           /\ probe' = IF ask THEN "Asked"
                       ELSE IF ~Settling(desk) /\ probe \in Availability THEN "Idle" ELSE probe
  BY DEF Scan
<1>2. CASE Settling(desk)
  <2>1. UI(LinkPoll(desk, found).desk)
    BY <1>1, <1>2 DEF UI
  <2>2. Moved(desk, LinkPoll(desk, found).desk) /\ Carried(desk, LinkPoll(desk, found).desk)
    BY LinkPolls DEF DesktopInv, LinkInv
  <2> QED BY <2>1, <2>2, CarriedKept
<1>3. ASSUME NEW e, Linked(e), Seen(e), Called(desk, e), Carried(desk, e),
             e.connects # desk.connects => plugged # None,
             desk.worker # None /\ e.worker = None /\ e.presence = "Missing" => ~steady,
             Handle(e) \/ Handle([e EXCEPT !.scan = "Current"]), probe' # "Missing"
      PROVE  Kept
  <2>1. PICK f \in {e, [e EXCEPT !.scan = "Current"]} : Handle(f)
    BY <1>3
  <2>2. /\ Linked(f) /\ Seen(f) /\ f.connects = e.connects
        /\ f.worker = e.worker /\ f.presence = e.presence /\ Alike(e, f)
    BY <1>3 DEF Linked, Shaped, DeskFields, Seen, Alike
  <2>3. /\ Same(f, desk') /\ steady' = (steady \/ desk'.connects # desk.connects)
        /\ UNCHANGED plugged
    BY <2>1, <2>2, HandleSame DEF Linked
  <2>4. Linked(desk')
    BY <2>2, <2>3, SameLinked
  <2>5. Called(desk, f) /\ Held(f) /\ desk.closing # "Exited"
        /\ (f.closing = "Exited" => desk.closing = "Exited")
    <3>1. Carried(desk, f)
      BY <1>3, <2>2, HeldAlike, CarriedAgain
    <3>2. desk.closing # "Exited" /\ Held(desk)
      BY <2>1 DEF Handle, DesktopInv
    <3> QED BY <1>3, <2>2, <3>1, <3>2 DEF Called, Alike, Carried
  <2>6. Held(desk') /\ Closed
    BY <2>1, <2>2, <2>4, <2>5, HandleCloses DEF Linked
  <2>7. LinkInv' /\ Dropped
    BY <1>3, <2>2, <2>3, <2>4 DEF DesktopInv, LinkInv, Same, Seen, Dropped
  <2> QED BY <2>6, <2>7 DEF Kept, DesktopInv
<1>4. CASE ~Settling(desk) /\ Received(desk) # None
  <2>1. Received(desk) = probe /\ probe \in Availability /\ desk.scan = "Current"
    BY <1>4 DEF Received
  <2> DEFINE e == Observe([desk EXCEPT !.scan = "Idle"], probe, found).desk
  <2>2. /\ Handle(e) \/ Handle([e EXCEPT !.scan = "Current"])
        /\ probe' \in {"Asked", "Idle"}
    BY <1>1, <1>4, <2>1
  <2>3. /\ Linked(e) /\ Seen(e) /\ Called(desk, e) /\ Carried(desk, e)
        /\ e.connects # desk.connects => plugged # None
        /\ desk.worker # None /\ e.worker = None /\ e.presence = "Missing" => probe = "Missing"
    BY <1>4, ObserveMoves
  <2>4. probe = "Missing" => ~steady
    BY <2>1 DEF DesktopInv, LinkInv
  <2> HIDE DEF e
  <2> QED BY <1>3, <2>2, <2>3, <2>4
<1>5. CASE ~Settling(desk) /\ Received(desk) = None
  <2> DEFINE d == IF probe \in Availability THEN [desk EXCEPT !.scan = "Idle"] ELSE desk
  <2>1. /\ Handle(IF d.scan = "Idle" THEN [d EXCEPT !.scan = "Current"] ELSE d)
        /\ probe' = IF d.scan = "Idle" THEN "Asked"
                    ELSE IF probe \in Availability THEN "Idle" ELSE probe
    BY <1>1, <1>5
  <2>2. CASE d.scan = "Idle"
    <3>1. /\ Linked(d) /\ Seen(d) /\ d.connects = desk.connects /\ d.worker = desk.worker
          /\ Alike(desk, d) /\ Called(desk, d)
      BY DEF DesktopInv, LinkInv, Linked, Shaped, DeskFields, Seen, Alike, Called
    <3> HIDE DEF d
    <3> QED BY <1>3, <2>1, <2>2, <3>1, HeldAlike
  <2>3. CASE d.scan # "Idle"
    <3>1. probe \notin Availability /\ d = desk
      BY <2>3 DEF DesktopInv, LinkInv, Linked, Shaped, DeskFields
    <3>2. UI(desk)
      BY <2>1, <2>3, <3>1 DEF UI
    <3> QED BY <3>2, SameItself, AlikeMethods, UnmovedKept DEF Unmoved, DesktopInv, LinkInv, Linked
  <2> QED BY <2>2, <2>3
<1> QED BY <1>2, <1>4, <1>5

\* The discovery thread and the keyboard.
LEMMA SurroundingsKept ==
  ASSUME DesktopInv, ProbeAnswers \/ \E k \in Keyboards \cup {None} : Plug(k)
  PROVE  Kept
<1>1. UNCHANGED desk /\ desk.closing # "Exited"
  BY DEF ProbeAnswers, Plug
<1>2. Linked(desk)' /\ Seen(desk)' /\ Held(desk)' /\ Dropped /\ Closed
  BY <1>1 DEF DesktopInv, LinkInv, Linked, Shaped, Seen, Held, Dropped, Closed
<1>3. CASE ProbeAnswers
  <2>1. UNCHANGED <<plugged, steady>> /\ (probe' = "Missing" => plugged = None)
    BY <1>3, DesktopAssumption DEF ProbeAnswers, DesktopInv, LinkInv
  <2> QED BY <1>1, <1>2, <2>1 DEF Kept, DesktopInv, LinkInv
<1>4. ASSUME NEW k \in Keyboards \cup {None}, Plug(k) PROVE Kept
  BY <1>2, <1>4 DEF Plug, Kept, DesktopInv, LinkInv
<1> QED BY <1>3, <1>4

\* What a thread that goes on may do to what is under way.
Works(old, new) ==
  Sound(old) => /\ Sound(new)
                /\ OpThere(new) => OpThere(old)
                /\ HostThere(new) => HostThere(old)

LEMMA StepKept ==
  ASSUME DesktopInv, NEW t \in Threads, NEW thread, Step(t, thread),
         ThreadFields \subseteq DOMAIN thread,
         \/ /\ thread.life = desk.threads[t].life
            /\ thread.life \in {"Free", "Dead"} => thread.call = NoCommand
            /\ thread.life = "Open" => Works(desk.threads[t], thread)
         \/ desk.threads[t].life = "Open" /\ thread.life = "Dead" /\ thread.call = NoCommand
         \/ desk.threads[t].life = "Closed" /\ thread.life = "Free" /\ thread.call = NoCommand
  PROVE  Kept
<1>1. /\ DOMAIN desk' = DOMAIN desk /\ desk'.worker = desk.worker
      /\ desk'.retiring = desk.retiring /\ desk'.reconnect = desk.reconnect
      /\ desk'.presence = desk.presence /\ desk'.scan = desk.scan
      /\ desk'.connects = desk.connects /\ desk'.op = desk.op /\ desk'.host = desk.host
      /\ desk'.closing = desk.closing /\ desk.closing # "Exited"
      /\ desk'.threads = [desk.threads EXCEPT ![t] = thread]
      /\ UNCHANGED <<probe, plugged, steady>>
  BY DEF Step, DesktopInv, LinkInv, Linked, Shaped, DeskFields
<1>2. Shaped(desk)'
  BY <1>1 DEF DesktopInv, LinkInv, Linked, Shaped
<1>3. desk'.threads[t] = thread /\ \A s \in Threads \ {t} : desk'.threads[s] = desk.threads[s]
  BY <1>1 DEF DesktopInv, LinkInv, Linked, Shaped
<1>4. \A s \in Threads :
        /\ desk'.threads[s].life \in {"Free", "Open", "Closed", "Dead"}
        /\ s # desk'.worker /\ s # desk'.retiring => desk'.threads[s].life = "Free"
        /\ s = desk'.retiring => desk'.threads[s].life # "Open"
        /\ desk'.threads[s].life \in {"Free", "Dead"} => desk'.threads[s].call = NoCommand
  BY <1>1, <1>3 DEF DesktopInv, LinkInv, Linked
<1>5. Linked(desk)'
  BY <1>1, <1>2, <1>3, <1>4 DEF DesktopInv, LinkInv, Linked
<1>6. Held(desk)'
  BY <1>1, <1>3 DEF DesktopInv, Held, Works
<1>7. Dropped /\ Closed
  BY <1>1 DEF Dropped, Closed
<1> QED BY <1>1, <1>5, <1>6, <1>7 DEF Kept, DesktopInv, LinkInv, Seen

\* An answer of the catalog is none of the operation.
LEMMA CatalogAnswered ==
  ASSUME NEW answers, NEW ends, IsSeq(answers),
         ends = << >> \/ \E result : ends = <<CatalogEnds(result)>>
  PROVE  IsSeq(answers \o ends) /\ Answers(answers \o ends) = Answers(answers)
<1>1. CASE ends = << >>
  BY <1>1, Appended
<1>2. ASSUME NEW result, ends = <<CatalogEnds(result)>>
      PROVE  IsSeq(answers \o ends) /\ Answers(answers \o ends) = Answers(answers)
  <2>1. CatalogEnds(result).kind = "Catalog"
    BY DEF CatalogEnds
  <2>2. answers \o ends = Append(answers, CatalogEnds(result))
        /\ IsSeq(Append(answers, CatalogEnds(result)))
    BY <1>2, Appended
  <2>3. Answers(Append(answers, CatalogEnds(result))) = Answers(answers) \cup
          (IF CatalogEnds(result).kind # "Catalog" THEN {Len(answers) + 1} ELSE {})
    BY AppendedPlaces
  <2> QED BY <2>1, <2>2, <2>3
<1> QED BY <1>1, <1>2

LEMMA CatalogEnded ==
  ASSUME NEW old, NEW new, NEW ends, new.queue = old.queue, new.events = old.events,
         new.call \in {NoCommand, old.call}, new.answers = old.answers \o ends,
         ends = << >> \/ \E result : ends = <<CatalogEnds(result)>>
  PROVE  Works(old, new)
<1> SUFFICES ASSUME Sound(old)
             PROVE  Sound(new) /\ (OpThere(new) => OpThere(old)) /\ (HostThere(new) => HostThere(old))
  BY DEF Works
<1>1. IsSeq(new.answers) /\ Answers(new.answers) = Answers(old.answers)
  BY CatalogAnswered DEF Sound
<1>2. NoCommand.kind = "None" /\ "None" \notin Device
  BY DEF NoCommand, Device
<1>3. CASE new.call = old.call
  BY <1>1, <1>3 DEF Sound, OpThere, HostThere
<1>4. CASE new.call = NoCommand
  BY <1>1, <1>2, <1>4 DEF Sound, OpThere, HostThere
<1> QED BY <1>3, <1>4

\* The call of the operation has ended and its answer waits.
LEMMA CallAnswered ==
  ASSUME NEW old, NEW new, NEW answer, new.queue = old.queue, new.events = old.events,
         new.call = NoCommand, new.answers = Append(old.answers, answer),
         old.call.kind \in Device, answer.kind = old.call.kind
  PROVE  Works(old, new)
<1> SUFFICES ASSUME Sound(old)
             PROVE  Sound(new) /\ (OpThere(new) => OpThere(old)) /\ (HostThere(new) => HostThere(old))
  BY DEF Works
<1>1. IsSeq(old.answers) /\ Answers(old.answers) = {} /\ Ops(old.queue) = {} /\ answer.kind # "Catalog"
  BY DEF Sound, Device
<1>2. Answers(new.answers) = {Len(old.answers) + 1} /\ IsSeq(new.answers)
  <2>1. Answers(new.answers) =
          Answers(old.answers) \cup (IF answer.kind # "Catalog" THEN {Len(old.answers) + 1} ELSE {})
    BY <1>1, AppendedPlaces
  <2> QED BY <1>1, <2>1, Appended
<1>3. NoCommand.kind = "None" /\ "None" \notin Device
  BY DEF NoCommand, Device
<1>4. One(Answers(new.answers))
  BY <1>2 DEF One
<1>5. OpThere(old)
  BY DEF OpThere
<1>6. HostThere(new) => HostThere(old)
  BY <1>3 DEF HostThere
<1> QED BY <1>1, <1>2, <1>3, <1>4, <1>5, <1>6 DEF Sound

\* Host lighting has begun or ended and its event waits.
LEMMA HostAnswered ==
  ASSUME NEW old, NEW new, NEW event, new.queue = old.queue, new.answers = old.answers,
         old.call.kind = "Host", new.events = Append(old.events, event),
         \/ new.call.kind = "Host" /\ event = "Started"
         \/ new.call = NoCommand
  PROVE  Works(old, new)
<1> SUFFICES ASSUME Sound(old)
             PROVE  Sound(new) /\ (OpThere(new) => OpThere(old)) /\ (HostThere(new) => HostThere(old))
  BY DEF Works
<1>1. IsSeq(old.events) /\ Ends(old.events) = {} /\ Hosts(old.queue) = {} /\ HostThere(old)
  BY DEF Sound, HostThere
<1>2. /\ Ends(new.events) =
           (IF event \in {"Finished", "Failed"} THEN {Len(old.events) + 1} ELSE {})
      /\ IsSeq(new.events)
  <2>1. Ends(Append(old.events, event)) = Ends(old.events) \cup
          (IF event \in {"Finished", "Failed"} THEN {Len(old.events) + 1} ELSE {})
    BY <1>1, AppendedPlaces
  <2> QED BY <1>1, <2>1, Appended
<1>3. One(Ends(new.events)) /\ (event = "Started" => Ends(new.events) = {})
  BY <1>2 DEF One
<1>4. NoCommand.kind = "None" /\ "None" \notin Device /\ "Host" \notin Device
  BY DEF NoCommand, Device
<1>5. OpThere(new) => OpThere(old)
  BY <1>4 DEF OpThere
<1>6. CASE new.call.kind = "Host" /\ event = "Started"
  BY <1>1, <1>2, <1>3, <1>4, <1>5, <1>6 DEF Sound
<1>7. CASE new.call = NoCommand
  BY <1>1, <1>2, <1>3, <1>4, <1>5, <1>7 DEF Sound
<1> QED BY <1>6, <1>7

\* A device thread works on, ends or dies.
LEMMA ThreadsKept ==
  ASSUME DesktopInv, NEW t \in Threads, Progress(t) \/ ThreadDies(t) \/ HostEnded(t, "Failed")
  PROVE  Kept
<1> DEFINE d == desk.threads[t]
<1>1. ThreadFields \subseteq DOMAIN d /\ d.life \in {"Free", "Open", "Closed", "Dead"}
      /\ (d.life \in {"Free", "Dead"} => d.call = NoCommand)
  BY DEF DesktopInv, LinkInv, Linked, Shaped
<1>2. ASSUME NEW new, Step(t, new), DOMAIN new = DOMAIN d, new.life = d.life,
             d.life \notin {"Free", "Dead"}, Works(d, new)
      PROVE  Kept
  BY <1>1, <1>2, StepKept
<1> HIDE DEF d
<1>3. CASE Take(t)
  <2> DEFINE command == Head(d.queue)
             ends == IF d.catalog > 0 /\ command = Host THEN <<CatalogEnds("Failed")>> ELSE <<>>
             e == [d EXCEPT !.queue = Tail(@)]
             scan == [e EXCEPT !.catalog = CatalogSlots + 1]
             call == [e EXCEPT !.call = command, !.answers = @ \o ends,
                               !.catalog = IF command = Host THEN 0 ELSE @]
  <2>1. /\ d.life = "Open" /\ d.call = NoCommand /\ d.queue # << >>
        /\ Step(t, IF command = Catalog THEN scan ELSE call)
    BY <1>3 DEF Take, d
  <2>2. /\ DOMAIN e = DOMAIN d /\ e.life = d.life /\ e.call = d.call
        /\ e.queue = Tail(d.queue) /\ e.answers = d.answers /\ e.events = d.events
    BY <1>1 DEF ThreadFields
  <2>3. ends = << >> \/ \E result : ends = <<CatalogEnds(result)>>
    OBVIOUS
  <2> HIDE DEF e, ends
  <2>4. /\ DOMAIN scan = DOMAIN d /\ scan.life = d.life /\ scan.call = d.call
        /\ scan.queue = Tail(d.queue) /\ scan.answers = d.answers /\ scan.events = d.events
    BY <1>1, <2>2 DEF ThreadFields
  <2>5. /\ DOMAIN call = DOMAIN d /\ call.life = d.life /\ call.call = command
        /\ call.queue = Tail(d.queue) /\ call.answers = d.answers \o ends
        /\ call.events = d.events
    BY <1>1, <2>2 DEF ThreadFields
  <2> HIDE DEF scan, call, command
  <2>6. ASSUME Sound(d), NEW new, new.queue = Tail(d.queue)
        PROVE  /\ IsSeq(new.queue) /\ One(Ops(new.queue)) /\ One(Hosts(new.queue))
               /\ Ops(new.queue) # {} => Ops(d.queue) # {}
               /\ Hosts(new.queue) # {} => Hosts(d.queue) # {}
               /\ command.kind \in Device => Ops(d.queue) # {} /\ Ops(new.queue) = {}
               /\ command.kind = "Host" => Hosts(d.queue) # {} /\ Hosts(new.queue) = {}
               /\ command.kind \in Device \cup {"Catalog", "Host"}
               /\ \A i \in 1..Len(new.queue) :
                    new.queue[i].kind \in Device \cup {"Catalog", "Host"}
    <3>1. IsSeq(d.queue) /\ d.queue # << >> /\ One(Ops(d.queue)) /\ One(Hosts(d.queue))
      BY <2>1, <2>6 DEF Sound
    <3>2. /\ IsSeq(Tail(d.queue)) /\ Len(d.queue) \in Nat \ {0}
          /\ Len(Tail(d.queue)) = Len(d.queue) - 1 /\ command = d.queue[1]
          /\ \A i \in 1..Len(Tail(d.queue)) : Tail(d.queue)[i] = d.queue[i + 1]
      BY <3>1, TailSeq DEF command
    <3>3. /\ command.kind \in Device \cup {"Catalog", "Host"}
          /\ \A i \in 1..Len(new.queue) : new.queue[i].kind \in Device \cup {"Catalog", "Host"}
      <4>1. \A i \in 1..Len(Tail(d.queue)) : i + 1 \in 1..Len(d.queue)
        BY <3>2
      <4>2. \A i \in 1..Len(d.queue) : d.queue[i].kind \in Device \cup {"Catalog", "Host"}
        BY <2>6 DEF Sound
      <4>3. 1 \in 1..Len(d.queue)
        BY <3>2
      <4> QED BY <2>6, <3>2, <4>1, <4>2, <4>3
    <3> QED BY <2>6, <3>1, <3>2, <3>3, TailPlaces DEF command
  <2>7. NoCommand.kind = "None" /\ Catalog.kind = "Catalog"
        /\ "None" \notin Device /\ "Catalog" \notin Device /\ "Host" \notin Device
    BY DEF NoCommand, Catalog, Device
  <2>8. CASE command = Catalog
    <3>1. Works(d, scan)
      <4> SUFFICES ASSUME Sound(d)
                   PROVE  /\ Sound(scan) /\ (OpThere(scan) => OpThere(d))
                          /\ (HostThere(scan) => HostThere(d))
        BY DEF Works
      <4>1. /\ IsSeq(scan.queue) /\ One(Ops(scan.queue)) /\ One(Hosts(scan.queue))
            /\ Ops(scan.queue) # {} => Ops(d.queue) # {}
            /\ Hosts(scan.queue) # {} => Hosts(d.queue) # {}
            /\ \A i \in 1..Len(scan.queue) :
                 scan.queue[i].kind \in Device \cup {"Catalog", "Host"}
        BY <2>4, <2>6
      <4> QED BY <2>1, <2>4, <2>7, <4>1 DEF Sound, OpThere, HostThere
    <3> QED BY <1>2, <2>1, <2>4, <2>8, <3>1
  <2>9. CASE command # Catalog
    <3>1. ASSUME Sound(d)
          PROVE  Sound(call) /\ (OpThere(call) => OpThere(d)) /\ (HostThere(call) => HostThere(d))
      <4>1. IsSeq(call.answers) /\ Answers(call.answers) = Answers(d.answers)
        BY <2>3, <2>5, <3>1, CatalogAnswered DEF Sound
      <4>2. Ops(d.queue) # {} => Answers(d.answers) = {}
        BY <3>1 DEF Sound
      <4>3. Hosts(d.queue) # {} => Ends(d.events) = {}
        BY <3>1 DEF Sound
      <4>4. /\ IsSeq(call.queue) /\ One(Ops(call.queue)) /\ One(Hosts(call.queue))
            /\ Ops(call.queue) # {} => Ops(d.queue) # {}
            /\ Hosts(call.queue) # {} => Hosts(d.queue) # {}
            /\ command.kind \in Device => Ops(d.queue) # {} /\ Ops(call.queue) = {}
            /\ command.kind = "Host" => Hosts(d.queue) # {} /\ Hosts(call.queue) = {}
            /\ command.kind \in Device \cup {"Catalog", "Host"}
            /\ \A i \in 1..Len(call.queue) :
                 call.queue[i].kind \in Device \cup {"Catalog", "Host"}
        BY <2>5, <2>6, <3>1
      <4>5. OpThere(call) => OpThere(d)
        BY <2>5, <4>1, <4>4 DEF OpThere
      <4>6. HostThere(call) => HostThere(d)
        BY <2>5, <4>4 DEF HostThere
      <4>7. command.kind # "None"
        BY <2>7, <4>4
      <4> QED BY <2>5, <3>1, <4>1, <4>2, <4>3, <4>4, <4>5, <4>6, <4>7 DEF Sound
    <3> QED BY <1>2, <2>1, <2>5, <2>9, <3>1 DEF Works
  <2> QED BY <2>8, <2>9
<1>4. CASE Scanning(t)
  <2> DEFINE scan == [d EXCEPT !.call = Catalog]
             ended == [d EXCEPT !.catalog = 0,
                         !.answers = Append(@, CatalogEnds(IF d.cancelled THEN "Failed" ELSE "Ok"))]
  <2>1. /\ d.life = "Open" /\ d.call = NoCommand /\ d.queue = << >>
        /\ Step(t, scan) \/ Step(t, ended)
    BY <1>4 DEF Scanning, d
  <2>2. /\ DOMAIN scan = DOMAIN d /\ scan.life = d.life /\ scan.call = Catalog
        /\ scan.queue = d.queue /\ scan.answers = d.answers /\ scan.events = d.events
    BY <1>1 DEF ThreadFields
  <2>3. /\ DOMAIN ended = DOMAIN d /\ ended.life = d.life /\ ended.call = d.call
        /\ ended.queue = d.queue /\ ended.events = d.events
        /\ \E result : ended.answers = Append(d.answers, CatalogEnds(result))
    BY <1>1 DEF ThreadFields
  <2> HIDE DEF scan, ended
  <2>4. Catalog.kind = "Catalog" /\ "Catalog" \notin Device /\ "Catalog" # "Host"
    BY DEF Catalog, Device
  <2>5. Works(d, scan)
    <3>1. Hosts(d.queue) = {} /\ Ops(d.queue) = {}
      BY <2>1 DEF Hosts, Ops
    <3> QED BY <2>2, <2>4, <3>1 DEF Works, Sound, OpThere, HostThere
  <2>6. Works(d, ended)
    <3> SUFFICES ASSUME Sound(d) PROVE Works(d, ended)
      BY DEF Works
    <3>1. PICK result : ended.answers = Append(d.answers, CatalogEnds(result))
      BY <2>3
    <3>2. ended.answers = d.answers \o <<CatalogEnds(result)>>
      BY <3>1, Appended DEF Sound
    <3> QED BY <2>3, <3>2, CatalogEnded
  <2> QED BY <1>2, <2>1, <2>2, <2>3, <2>5, <2>6
<1>5. ASSUME NEW ok, SlotRead(t, ok) PROVE Kept
  <2> DEFINE more == [d EXCEPT !.call = NoCommand, !.catalog = @ - 1]
             ended == [d EXCEPT !.call = NoCommand, !.catalog = 0,
                         !.answers = Append(@, CatalogEnds("Failed"))]
  <2>1. d.call = Catalog /\ d.life # "Closed" /\ (Step(t, more) \/ Step(t, ended))
    BY <1>5 DEF SlotRead, d
  <2>2. /\ DOMAIN more = DOMAIN d /\ more.life = d.life /\ more.call = NoCommand
        /\ more.queue = d.queue /\ more.answers = d.answers /\ more.events = d.events
    BY <1>1 DEF ThreadFields
  <2>3. /\ DOMAIN ended = DOMAIN d /\ ended.life = d.life /\ ended.call = NoCommand
        /\ ended.queue = d.queue /\ ended.events = d.events
        /\ ended.answers = Append(d.answers, CatalogEnds("Failed"))
    BY <1>1 DEF ThreadFields
  <2> HIDE DEF more, ended
  <2>4. d.life \notin {"Free", "Dead"} /\ NoCommand.kind = "None" /\ "None" \notin Device
    BY <1>1, <2>1 DEF NoCommand, Catalog, Device
  <2>5. Works(d, more)
    BY <2>2, <2>4 DEF Works, Sound, OpThere, HostThere
  <2>6. Works(d, ended)
    <3> SUFFICES ASSUME Sound(d) PROVE Works(d, ended)
      BY DEF Works
    <3>1. ended.answers = d.answers \o <<CatalogEnds("Failed")>>
      BY <2>3, Appended DEF Sound
    <3> QED BY <2>3, <3>1, CatalogEnded
  <2> QED BY <1>2, <2>1, <2>2, <2>3, <2>4, <2>5, <2>6
<1>6. ASSUME NEW result, Call(t, result) PROVE Kept
  <2> DEFINE ends == IF d.catalog > 0 /\ d.call.kind # "Read" /\ d.call.feature = "macro"
                       THEN <<CatalogEnds("Failed")>> ELSE <<>>
             answer == [kind |-> d.call.kind, result |-> result]
             new == [d EXCEPT !.call = NoCommand, !.catalog = IF ends = <<>> THEN @ ELSE 0,
                              !.answers = Append(@, answer) \o ends]
  <2>1. d.life = "Open" /\ d.call.kind \in Device /\ Step(t, new)
    BY <1>6 DEF Call, d, Device
  <2>2. ends = << >> \/ \E r : ends = <<CatalogEnds(r)>>
    OBVIOUS
  <2> HIDE DEF ends
  <2>3. /\ DOMAIN new = DOMAIN d /\ new.life = d.life /\ new.call = NoCommand
        /\ new.queue = d.queue /\ new.events = d.events
        /\ new.answers = Append(d.answers, answer) \o ends
    BY <1>1 DEF ThreadFields
  <2>4. answer.kind = d.call.kind
    OBVIOUS
  <2> HIDE DEF new, answer
  <2>5. Works(d, new)
    <3> DEFINE mid == [queue |-> d.queue, events |-> d.events, call |-> NoCommand,
                       answers |-> Append(d.answers, answer)]
    <3>1. /\ mid.queue = d.queue /\ mid.events = d.events /\ mid.call = NoCommand
          /\ mid.answers = Append(d.answers, answer)
      OBVIOUS
    <3> HIDE DEF mid
    <3>2. Works(d, mid)
      BY <2>1, <2>4, <3>1, CallAnswered
    <3>3. Works(mid, new)
      BY <2>2, <2>3, <3>1, CatalogEnded
    <3> QED BY <3>2, <3>3 DEF Works
  <2> QED BY <1>2, <2>1, <2>3, <2>5
<1>7. CASE HostStarted(t)
  <2> DEFINE new == [d EXCEPT !.call.feature = "streaming", !.events = Append(@, "Started")]
  <2>1. d.life = "Open" /\ d.call = Host /\ Step(t, new)
    BY <1>7 DEF HostStarted, d
  <2>2. /\ DOMAIN new = DOMAIN d /\ new.life = d.life /\ new.call.kind = "Host"
        /\ new.queue = d.queue /\ new.answers = d.answers
        /\ new.events = Append(d.events, "Started")
    BY <1>1, <2>1 DEF ThreadFields, Host
  <2> HIDE DEF new
  <2>3. Works(d, new)
    <3>1. d.call.kind = "Host"
      BY <2>1 DEF Host
    <3> QED BY <2>2, <3>1, HostAnswered
  <2> QED BY <1>2, <2>1, <2>2, <2>3
<1>8. ASSUME NEW event \in {"Finished", "Failed"}, HostEnded(t, event) PROVE Kept
  <2> DEFINE new == [d EXCEPT !.call = NoCommand, !.stop = FALSE, !.events = Append(@, event)]
  <2>1. d.life = "Open" /\ d.call.kind = "Host" /\ Step(t, new)
    BY <1>8 DEF HostEnded, d
  <2>2. /\ DOMAIN new = DOMAIN d /\ new.life = d.life /\ new.call = NoCommand
        /\ new.queue = d.queue /\ new.answers = d.answers
        /\ new.events = Append(d.events, event)
    BY <1>1 DEF ThreadFields
  <2> HIDE DEF new
  <2>3. Works(d, new)
    BY <2>1, <2>2, HostAnswered
  <2> QED BY <1>2, <2>1, <2>2, <2>3
<1>9. CASE ThreadEnds(t)
  BY <1>1, <1>9, StepKept DEF ThreadEnds, ThreadFields, Free, d
<1>10. CASE ThreadDies(t)
  BY <1>1, <1>10, StepKept DEF ThreadDies, ThreadFields, d
<1> QED BY <1>3, <1>4, <1>5, <1>6, <1>7, <1>8, <1>9, <1>10 DEF Progress
-----------------------------------------------------------------------------
(* The theorems. *)

LEMMA DesktopStarts ==
  ASSUME Init PROVE DesktopInv
<1>1. /\ DOMAIN desk.threads = Threads /\ \A t \in Threads : desk.threads[t] = Free
      /\ DeskFields \subseteq DOMAIN desk
  BY DEF Init, DeskFields
<1>2. ThreadFields \subseteq DOMAIN Free /\ Free.life = "Free" /\ Free.call = NoCommand
  BY DEF ThreadFields, Free
<1>3. /\ desk.worker = None /\ desk.retiring = None /\ desk.reconnect = None
      /\ desk.connects = 0 /\ desk.scan = "Idle"
  BY DEF Init
<1>4. Linked(desk)
  BY <1>1, <1>2, <1>3, DesktopAssumption DEF Linked, Shaped
<1>5. plugged \in Keyboards \cup {None} /\ steady = FALSE
  BY DesktopAssumption DEF Init
<1> QED BY <1>3, <1>4, <1>5 DEF DesktopInv, LinkInv, Seen, Held

LEMMA DesktopKept ==
  ASSUME DesktopInv, [Next]_vars PROVE Kept
<1>1. CASE UNCHANGED vars
  BY <1>1 DEF vars, Kept, DesktopInv, LinkInv, Linked, Shaped, Seen, Held, Dropped, Closed
<1>2. CASE Next
  <2>1. CASE Read \/ Poll
    BY <2>1, LinkStepsKept
  <2>2. CASE Scan
    BY <2>2, ScanKept
  <2>3. CASE ProbeAnswers \/ \E k \in Keyboards \cup {None} : Plug(k)
    BY <2>3, SurroundingsKept
  <2>4. CASE \E t \in Threads : Progress(t) \/ ThreadDies(t) \/ HostEnded(t, "Failed")
    BY <2>4, ThreadsKept
  <2> QED BY <1>2, <2>1, <2>2, <2>3, <2>4, MessagesKept DEF Next
<1> QED BY <1>1, <1>2

\* The controller knows what its threads do in every reachable state: the
\* threads are the worker, the retired one and free ones, nothing is retired
\* beside a worker, a scan under way knows what happened since the attachment,
\* and an operation or host lighting that is anywhere at the worker, waiting,
\* being carried out or answered, is there once and is one that the controller
\* waits for (controller/connection.rs, discovery.rs and host.rs, app.rs).
THEOREM DesktopInvariant == Spec => []DesktopInv
<1>1. Init => DesktopInv
  BY DesktopStarts
<1>2. DesktopInv /\ [Next]_vars => DesktopInv'
  BY DesktopKept DEF Kept
<1> QED BY <1>1, <1>2, PTL DEF Spec

\* While a worker is attached no other device thread is in a call
\* (controller/connection.rs, poll and attach).
THEOREM OneDeviceThread == Spec => []OneThreadAtDevice
<1>1. DesktopInv => OneThreadAtDevice
  BY DesktopAssumption DEF DesktopInv, LinkInv, Linked, OneThreadAtDevice
<1> QED BY <1>1, DesktopInvariant, PTL

\* A scan drops a connection as missing only if its keyboard has been away
\* since it was attached (controller/discovery.rs, invalidate and receive).
THEOREM NoStaleDrop == Spec => DroppedOnlyIfAway
<1>1. DesktopInv /\ [Next]_vars =>
        [desk.worker # None /\ desk'.worker = None /\ desk'.presence = "Missing" => ~steady]_vars
  BY DesktopKept DEF Kept, Dropped
<1> QED BY <1>1, DesktopInvariant, PTL DEF Spec, DroppedOnlyIfAway

\* The window closes without a question only when nothing would be lost: no
\* dirty draft, no automatic save due, and no device thread in a write or in
\* host lighting, the retired ones included (App::close).
THEOREM NothingLost == Spec => NothingLostOnClose
<1>1. DesktopInv /\ [Next]_vars =>
        [desk'.closing = "Exited" /\ desk.closing \in {"Open", "Waiting"} =>
           /\ desk'.dirty = {} /\ desk'.autosave = <<>>
           /\ \A t \in Threads : desk.threads[t].call # NoCommand =>
                desk.threads[t].call.kind \in {"Read", "Catalog"}]_vars
  BY DesktopKept DEF Kept, Closed
<1> QED BY <1>1, DesktopInvariant, PTL DEF Spec, NothingLostOnClose
=============================================================================
