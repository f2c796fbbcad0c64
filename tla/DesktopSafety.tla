---------------------------- MODULE DesktopSafety ----------------------------
(***************************************************************************)
(* What the controller promises of its device threads, of discovery, of    *)
(* closing and of recording.                                               *)
(***************************************************************************)
EXTENDS Desktop

\* While a worker is attached no other device thread is in a call: the retired
\* one has ended before the next one is opened (controller/connection.rs,
\* poll and attach).
OneThreadAtDevice ==
  desk.worker # None =>
    \A t \in Threads \ {desk.worker} : desk.threads[t].call = NoCommand

\* A scan drops a connection as missing only if its keyboard has been away
\* since it was attached: an answer from before the attachment is never used
\* (controller/discovery.rs, invalidate and receive).
DroppedOnlyIfAway ==
  [][desk.worker # None /\ desk'.worker = None /\ desk'.presence = "Missing" => ~steady]_vars

\* The window closes without a question only when nothing would be lost: no
\* dirty draft, no automatic save due, and no device thread in a write or in
\* host lighting, the retired ones included (App::close).
NothingLostOnClose ==
  [][desk'.closing = "Exited" /\ desk.closing \in {"Open", "Waiting"} =>
       /\ desk'.dirty = {} /\ desk'.autosave = <<>>
       /\ \A t \in Threads : desk.threads[t].call # NoCommand =>
            desk.threads[t].call.kind \in {"Read", "Catalog"}]_vars

\* A window that waits for an activity before it closes comes to an end: it
\* closes, asks, or opens again with a notice (App::close and complete).
WaitingEnds == (desk.closing = "Waiting") ~> (desk.closing # "Waiting")

\* A recording that waits for the macro catalog starts or is given up.
RecordingSettles ==
  (desk.recording = "Requested") ~> (desk.recording # "Requested" \/ desk.closing = "Exited")
=============================================================================
