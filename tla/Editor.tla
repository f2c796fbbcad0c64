------------------------------- MODULE Editor -------------------------------
(***************************************************************************)
(* The lifecycle every editable feature shares: the last verified baseline *)
(* of the device, the user's draft, the value of a submitted write and the *)
(* status of what is known (byakko-core/src/editor/mod.rs).                *)
(*                                                                         *)
(* A snapshot is a record [value, context].  `value` is the editable value *)
(* the snapshot holds, or None when its content is opaque or host driven;  *)
(* `context` stands for every other field two snapshots can differ in (the *)
(* revision, the selector context).  Two snapshots are the same baseline   *)
(* exactly when both fields agree: same_baseline only leaves the evidence  *)
(* tag out, and the tag is checked before a result is accepted.            *)
(*                                                                         *)
(* Operators named Faulty... are deliberate mistakes.  No specification    *)
(* uses them: putting one in the place of the operator it follows must     *)
(* break the property the README lists beside it.                          *)
(***************************************************************************)
CONSTANT None  \* the absent value of an Option

(***************************************************************************)
(* Status.  Unverified carries a problem in the code; each problem is a    *)
(* status here: "ReadRequired" and "Read" come from the read side, the     *)
(* other three are outcomes of a write whose effect is not known.          *)
(***************************************************************************)
WriteProblems == {"Apply", "InvalidApplyResult", "ApplyReadbackMismatch"}
Unverified == {"ReadRequired", "Read"} \cup WriteProblems
Status == {"Unloaded", "Ready", "Conflict"} \cup Unverified

\* The states that only a deliberate read resolves (session.rs).
ManualRead == {"Conflict"} \cup WriteProblems

EditorOf(snapshots, values) ==
  [baseline : snapshots \cup {None},
   draft : values \cup {None},
   submitted : values \cup {None},
   status : Status]

NewEditor ==
  [baseline |-> None, draft |-> None, submitted |-> None, status |-> "Unloaded"]

Dirty(e) ==
  /\ e.baseline # None
  /\ e.draft # None
  /\ e.baseline.value # e.draft

Ready(e) == e.status = "Ready"

\* Faulty: leaves a verified cache verified.
FaultyInvalidateKeepsReady(e) ==
  IF e.status = "Unloaded" THEN [e EXCEPT !.status = "ReadRequired"] ELSE e

\* Faulty: forgets conflicts and uncertain writes.
FaultyInvalidateForgets(e) == [e EXCEPT !.status = "ReadRequired"]

Invalidate(e) ==
  IF e.status \in {"Ready", "Unloaded"}
    THEN [e EXCEPT !.status = "ReadRequired"]
    ELSE e

-----------------------------------------------------------------------------
(* The user's side. *)

Stage(e, value) == [e EXCEPT !.draft = value]

CanRevert(e) == e.submitted = None /\ e.baseline # None
Revert(e) == [e EXCEPT !.draft = e.baseline.value]

CanRequestApply(e) == Ready(e) /\ e.submitted = None /\ Dirty(e)
RequestApply(e) == [e EXCEPT !.submitted = e.draft]
CancelApply(e) == [e EXCEPT !.submitted = None]

-----------------------------------------------------------------------------
(* The device's side.  A result is a record [kind, snapshot]: "ok" carries *)
(* a snapshot, "error" is a failure the device reports, "invalid" is a     *)
(* snapshot that does not pass the feature's validation.                   *)

\* Faulty: every reading overwrites the draft.
FaultyReadResult(e, result) ==
  IF result.kind # "ok"
    THEN [e EXCEPT !.status = "Read"]
    ELSE [e EXCEPT !.draft = result.snapshot.value, !.baseline = result.snapshot,
                   !.status = "Ready"]

ReadResult(e, result) ==
  IF result.kind # "ok"
    THEN [e EXCEPT !.status = "Read"]
    ELSE IF Dirty(e) /\ e.baseline # result.snapshot
           THEN [e EXCEPT !.status = "Conflict"]
           ELSE [e EXCEPT !.draft = IF Dirty(e) THEN @ ELSE result.snapshot.value,
                          !.baseline = result.snapshot,
                          !.status = "Ready"]

ApplyStatus(e, result) ==
  CASE result.kind = "error" -> "Apply"
    [] result.kind = "invalid" -> "InvalidApplyResult"
    [] result.kind = "ok" /\ e.submitted = None -> "InvalidApplyResult"
    [] result.kind = "ok" /\ e.submitted # None /\ result.snapshot.value # e.submitted
         -> "ApplyReadbackMismatch"
    [] OTHER -> "Ready"

ApplyResult(e, result) ==
  [e EXCEPT !.submitted = None,
            !.status = ApplyStatus(e, result),
            !.baseline = IF ApplyStatus(e, result) = "Ready" THEN result.snapshot ELSE @]
=============================================================================
