------------------------- MODULE ObservationSafety -------------------------
(***************************************************************************)
(* The safety properties of Observation.                                   *)
(***************************************************************************)
EXTENDS Observation

\* A notice of this change is on its way to the application.
UnderWay(change) ==
  \/ change \in ToSet(reports)
  \/ \E event \in ToSet(mailbox) \cup ToSet(messages) \cup ({reader} \ {None}) :
       event.generation = app.connection /\ event.result = change

\* A notice of f that has not been handled yet.
Noticed(f) == \E change \in Changes : UnderWay(change) /\ f \in ToSet(Features(change))

\* f is queued, or a reading of it is in flight that has seen what is there.
Awaited(f) ==
  \/ f \in ToSet(app.observation.remaining)
  \/ /\ app.pending # None /\ app.pending.feature = f
     /\ app.pending.result # None => \/ app.pending.result.kind # "ok"
                                     \/ app.pending.result.snapshot = Snapshot(f)

\* A loaded feature that the keyboard holds differently has a notice under way
\* or is about to be read, however notices, edits, saves and readings overlap
\* (core workflow/observation.rs, receive and next; app.rs, complete).  Given
\* up are the notices of an observation that a failure or a conflict stopped,
\* and those of a picture that was hidden when its turn came.
NoChangeForgotten ==
  listener = "Open" =>
    \A f \in Loaded :
      \/ app.ed[f].status # "Ready" \/ app.ed[f].baseline = Snapshot(f)
      \/ Noticed(f) \/ Awaited(f) \/ f \in dropped
      \/ f = "Picture" /\ (~PictureActive(app) \/ Noticed("Lighting") \/ Awaited("Lighting"))
=============================================================================
