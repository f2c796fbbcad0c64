---------------------------- MODULE SessionProofs ----------------------------
(***************************************************************************)
(* Theorems about the session for every choice of features, values, slots  *)
(* and bounds.  The lemmas follow the code: what a ticket request does,    *)
(* what a settled answer leaves, what each workflow step preserves; then   *)
(* what owns an editor while it runs (host lighting, recording and the two *)
(* workflows), the per-key picture with the effect that chooses its layer, *)
(* and what no step takes from the user or settles without a reading.      *)
(***************************************************************************)
EXTENDS SessionSafety, TLAPS

-----------------------------------------------------------------------------
(* What every operation of an editor returns, whatever the feature: S is the
   set of its snapshots and V the set of its values. *)


\* A new editor has the type of every feature's editor.
LEMMA NewEditorType ==
  ASSUME NEW S, NEW V
  PROVE  NewEditor \in EditorOf(S, V)
BY DEF NewEditor, EditorOf, Status

\* Invalidating only moves the status, never to Ready.
LEMMA InvalidateType ==
  ASSUME NEW S, NEW V, NEW e \in EditorOf(S, V)
  PROVE  /\ Invalidate(e) \in EditorOf(S, V)
         /\ ~Ready(Invalidate(e))
         /\ Invalidate(e).submitted = e.submitted
BY DEF Invalidate, Ready, EditorOf, Status, Unverified, WriteProblems

\* An edit only replaces the draft.
LEMMA StageType ==
  ASSUME NEW S, NEW V, NEW e \in EditorOf(S, V), NEW value \in V \cup {None}
  PROVE  /\ Stage(e, value) \in EditorOf(S, V)
         /\ Stage(e, value) = [e EXCEPT !.draft = value]
         /\ Stage(e, value).draft = value
         /\ Stage(e, value).submitted = e.submitted
         /\ Stage(e, value).status = e.status
         /\ Stage(e, value).baseline = e.baseline
BY DEF Stage, EditorOf

\* A revert only replaces the draft.
LEMMA RevertType ==
  ASSUME NEW S, NEW V, NEW e \in EditorOf(S, V), CanRevert(e),
         None \notin S, \A s \in S : s.value \in V \cup {None}
  PROVE  /\ Revert(e) \in EditorOf(S, V)
         /\ Revert(e).submitted = e.submitted
         /\ Revert(e).status = e.status
         /\ Revert(e).baseline = e.baseline
BY DEF Revert, CanRevert, EditorOf

\* A request moves the draft into the submission, and a withdrawn request
\* leaves none.
LEMMA RequestType ==
  ASSUME NEW S, NEW V, NEW e \in EditorOf(S, V)
  PROVE  /\ RequestApply(e) \in EditorOf(S, V)
         /\ RequestApply(e).submitted = e.draft
         /\ RequestApply(e).status = e.status
         /\ RequestApply(e).baseline = e.baseline
         /\ RequestApply(e).draft = e.draft
         /\ CancelApply(RequestApply(e)) \in EditorOf(S, V)
         /\ CancelApply(RequestApply(e)).submitted = None
         /\ CancelApply(RequestApply(e)).status = e.status
         /\ CancelApply(RequestApply(e)).baseline = e.baseline
         /\ CancelApply(RequestApply(e)).draft = e.draft
BY DEF RequestApply, CancelApply, EditorOf

\* A reading never touches the submission, and an editor it leaves ready holds
\* a snapshot.
LEMMA ReadResultType ==
  ASSUME NEW S, NEW V, NEW e \in EditorOf(S, V), NEW result,
         None \notin S, \A s \in S : s.value \in V \cup {None},
         result.kind = "ok" => result.snapshot \in S
  PROVE  /\ ReadResult(e, result) \in EditorOf(S, V)
         /\ ReadResult(e, result).submitted = e.submitted
         /\ Ready(ReadResult(e, result)) => ReadResult(e, result).baseline # None
BY DEF ReadResult, Ready, EditorOf, Status, Unverified, WriteProblems

\* The answer to a write spends the submission, and an editor it leaves ready
\* holds the snapshot that was read back.
LEMMA ApplyResultType ==
  ASSUME NEW S, NEW V, NEW e \in EditorOf(S, V), NEW result,
         None \notin S, result.kind = "ok" => result.snapshot \in S,
         result.kind \in {"ok", "error", "invalid"}
  PROVE  /\ ApplyResult(e, result) \in EditorOf(S, V)
         /\ ApplyResult(e, result).submitted = None
         /\ Ready(ApplyResult(e, result)) => ApplyResult(e, result).baseline # None
<1>1. ApplyStatus(e, result) \in Status
  BY DEF ApplyStatus, Status, Unverified, WriteProblems
<1>2. ApplyStatus(e, result) = "Ready" => result.kind = "ok"
  BY DEF ApplyStatus
<1>3. QED
  BY <1>1, <1>2 DEF ApplyResult, Ready, EditorOf

-----------------------------------------------------------------------------
(* Types. *)

\* What the assumptions say of one feature's snapshots and values.
LEMMA FeatureValues ==
  ASSUME NEW f \in Editors
  PROVE  /\ None \notin Values[f]
         /\ None \notin SnapshotsOf(f)
         /\ \A s \in SnapshotsOf(f) : s.value \in Values[f] \cup {None}
         /\ Reported[f] \subseteq SnapshotsOf(f)
BY FeaturesAssumption, ValuesAssumption DEF Editors, SnapshotsOf

\* Replacing one editor by another of its feature keeps all of them typed.
LEMMA UpdateTyped ==
  ASSUME NEW editors, EditorsTyped(editors), NEW f \in Editors,
         NEW e \in EditorOf(SnapshotsOf(f), Values[f])
  PROVE  /\ EditorsTyped([editors EXCEPT ![f] = e])
         /\ [editors EXCEPT ![f] = e][f] = e
         /\ \A g \in Editors \ {f} : [editors EXCEPT ![f] = e][g] = editors[g]
BY DEF EditorsTyped

\* A ticket handed out below the bound is a ticket.
LEMMA BeginTyped ==
  ASSUME TypeOK, MayIssue, NEW f \in Supported, NEW direction \in Directions,
         NEW background \in BOOLEAN, Begin(f, direction, background)
  PROVE  /\ pending' \in Tickets
         /\ pending' = Ticket(f, direction, background)
         /\ operation' \in 0 .. MaxOperation
BY BoundsAssumption DEF TypeOK, MayIssue, Begin, Ticket, Tickets

\* Submitting a write leaves typed editors, whether or not a ticket is given.
LEMMA SubmitWriteTyped ==
  ASSUME TypeOK, NEW f \in Editors, NEW e \in EditorOf(SnapshotsOf(f), Values[f]),
         NEW editors, EditorsTyped(editors), SubmitWrite(f, e, editors)
  PROVE  /\ EditorsTyped(ed')
         /\ pending' \in Tickets \cup {None}
         /\ operation' \in 0 .. MaxOperation
<1>1. CASE MayIssue
  <2>1. ed' = [editors EXCEPT ![f] = RequestApply(e)] /\ Begin(f, "Save", FALSE)
    BY <1>1 DEF SubmitWrite
  <2>2. EditorsTyped(ed')
    BY <2>1, UpdateTyped, RequestType
  <2>3. f \in Supported
    BY DEF Editors
  <2>4. QED
    BY <1>1, <2>1, <2>2, <2>3, BeginTyped DEF Directions
<1>2. CASE ~MayIssue
  <2>1. ed' = [editors EXCEPT ![f] = CancelApply(RequestApply(e))]
        /\ pending' = None /\ UNCHANGED operation
    BY <1>2 DEF SubmitWrite
  <2>2. EditorsTyped(ed')
    BY <2>1, UpdateTyped, RequestType
  <2>3. QED
    BY <2>1, <2>2 DEF TypeOK
<1>3. QED
  BY <1>1, <1>2

\* What a lost connection leaves of an editor.
LEMMA AbandonedTyped ==
  ASSUME TypeOK, NEW f \in Editors, NEW recorded \in Values["Macro"] \cup {None}
  PROVE  /\ Abandoned(f, recorded) \in EditorOf(SnapshotsOf(f), Values[f])
         /\ ~Ready(Abandoned(f, recorded))
         /\ Saving(f) \/ ed[f].submitted = None => Abandoned(f, recorded).submitted = None
<1> DEFINE T == EditorOf(SnapshotsOf(f), Values[f])
<1> DEFINE hosted == IF f = "Lighting" /\ ~HostIdle THEN ApplyResult(ed[f], LostWrite) ELSE ed[f]
<1> DEFINE taken == IF f = "Macro" /\ recording THEN Stage(hosted, recorded) ELSE hosted
<1> DEFINE failed == IF pending # None /\ pending.direction = "Save" /\ pending.feature = f
                       THEN ApplyResult(taken, LostWrite) ELSE taken
<1>1. LostWrite.kind = "error"
  BY DEF LostWrite
<1>2. hosted \in T
  BY <1>1, FeatureValues, ApplyResultType DEF TypeOK, EditorsTyped
<1>3. taken \in T
  BY <1>2, StageType
<1>4. failed \in T
  BY <1>1, <1>3, FeatureValues, ApplyResultType
<1>5. Abandoned(f, recorded) = Invalidate(failed)
  BY DEF Abandoned
<1>6. Saving(f) => failed.submitted = None
  BY <1>1, <1>3, FeatureValues, ApplyResultType DEF Saving
<1>7. ed[f].submitted = None => failed.submitted = None
  <2>1. ed[f].submitted = None => hosted.submitted = None
    BY <1>1, FeatureValues, ApplyResultType DEF TypeOK, EditorsTyped
  <2>2. taken.submitted = hosted.submitted
    BY <1>2, StageType
  <2>3. failed.submitted \in {None, taken.submitted}
    BY <1>1, <1>3, FeatureValues, ApplyResultType
  <2>4. QED
    BY <2>1, <2>2, <2>3
<1>8. QED
  BY <1>4, <1>5, <1>6, <1>7, InvalidateType

\* A result a device can produce for a feature carries that feature's snapshot.
LEMMA ResultTyped ==
  ASSUME NEW f \in Editors, NEW direction \in Directions, NEW result \in Results(f, direction)
  PROVE  /\ result.kind \in {"ok", "error", "invalid"}
         /\ result.kind = "ok" => result.snapshot \in SnapshotsOf(f)
<1>1. result \in Readings(f) \cup Writings(f)
  BY FeaturesAssumption DEF Editors, Results, Readings, Writings
<1>2. Reported[f] \subseteq SnapshotsOf(f)
  BY FeatureValues
<1>3. QED
  BY <1>1, <1>2 DEF Readings, Writings, Result

\* The editors after an answer from the device.
LEMMA EditorsAfterTyped ==
  ASSUME TypeOK, NEW f \in Editors, NEW direction \in Directions,
         NEW result \in Results(f, direction)
  PROVE  EditorsTyped(EditorsAfter(f, direction, result))
<1>1. /\ result.kind \in {"ok", "error", "invalid"}
      /\ result.kind = "ok" => result.snapshot \in SnapshotsOf(f)
  BY ResultTyped
<1>2. Received(f, direction, result) \in EditorOf(SnapshotsOf(f), Values[f])
  BY <1>1, FeatureValues, ReadResultType, ApplyResultType DEF Received, TypeOK, EditorsTyped
<1>3. ASSUME NEW g \in Editors
      PROVE  /\ ed[g] \in EditorOf(SnapshotsOf(g), Values[g])
             /\ Invalidate(ed[g]) \in EditorOf(SnapshotsOf(g), Values[g])
  BY InvalidateType DEF TypeOK, EditorsTyped
<1>4. QED
  BY <1>2, <1>3 DEF EditorsAfter, EditorsTyped

\* Binding a key stages a keymap.
LEMMA BoundTyped ==
  ASSUME TypeOK, "Keymap" \in Editors,
         NEW e \in EditorOf(SnapshotsOf("Keymap"), Values["Keymap"]), e.draft # None,
         NEW key \in Keys
  PROVE  Bound(e, key) \in EditorOf(SnapshotsOf("Keymap"), Values["Keymap"])
<1>1. e.draft \in Values["Keymap"]
  BY DEF EditorOf
<1>2. [e.draft EXCEPT ![key] = BindingAction[slot]] \in Values["Keymap"]
  BY <1>1, BindingAssumption DEF TypeOK
<1>3. QED
  BY <1>2, StageType DEF Bound

\* What a step of a workflow leaves: typed editors, at most one ticket and a
\* workflow whose features exist.
WorkflowTyped ==
  /\ EditorsTyped(ed')
  /\ pending' \in Tickets \cup {None}
  /\ operation' \in 0 .. MaxOperation

\* Settling an answer keeps every type: the ticket is spent and no ID is used.
LEMMA SettleTyped ==
  ASSUME TypeOK, NEW editors, EditorsTyped(editors), Settle(editors)
  PROVE  WorkflowTyped
BY DEF WorkflowTyped, Settle, TypeOK

\* Each way save-and-assign can go on after an answer keeps the types, its own
\* step included.
LEMMA AdvanceAssignmentTyped ==
  ASSUME TypeOK, assignment # None, NEW editors, EditorsTyped(editors),
         NEW f \in Editors, NEW direction \in Directions,
         AdvanceAssignment(editors, f, direction)
  PROVE  WorkflowTyped /\ assignment' \in Assignments \cup {None}
<1>1. assignment \in Assignments /\ "Keymap" \in Editors
  BY DEF TypeOK
<1>2. CASE Settle(editors) /\ assignment' = None
  BY <1>2, SettleTyped
<1>3. CASE AssignKey(editors)
  <2> DEFINE keymap == editors["Keymap"]
             bound == Bound(keymap, assignment.key)
  <2>1. keymap \in EditorOf(SnapshotsOf("Keymap"), Values["Keymap"])
    BY <1>1 DEF EditorsTyped
  <2>2. CASE ~Ready(keymap) \/ keymap.draft = None
    BY <1>3, <2>2, SettleTyped DEF AssignKey
  <2>3. CASE keymap.draft # None /\ Ready(keymap)
    <3>1. bound \in EditorOf(SnapshotsOf("Keymap"), Values["Keymap"])
      BY <1>1, <2>1, <2>3, BoundTyped DEF Assignments
    <3>2. CASE ~CanRequestApply(bound)
      <4>1. EditorsTyped([editors EXCEPT !["Keymap"] = bound])
        BY <1>1, <3>1, UpdateTyped
      <4>2. Settle([editors EXCEPT !["Keymap"] = bound]) /\ assignment' = None
        BY <1>3, <2>3, <3>2 DEF AssignKey
      <4>3. QED
        BY <4>1, <4>2, SettleTyped
    <3>3. CASE CanRequestApply(bound)
      <4>1. SubmitWrite("Keymap", bound, editors)
        BY <1>3, <2>3, <3>3 DEF AssignKey
      <4>2. assignment' \in {[assignment EXCEPT !.step = "Assigning", !.macroSaved = TRUE], None}
        BY <1>3, <2>3, <3>3 DEF AssignKey
      <4>3. WorkflowTyped
        BY <1>1, <3>1, <4>1, SubmitWriteTyped DEF WorkflowTyped
      <4>4. QED
        BY <1>1, <4>2, <4>3 DEF Assignments, AssignmentSteps
    <3>4. QED
      BY <3>2, <3>3
  <2>4. QED
    BY <2>2, <2>3
<1>4. QED
  BY <1>2, <1>3 DEF AdvanceAssignment

\* Whatever picture preparation plans to do next keeps the types.
LEMMA BeginPreparationTyped ==
  ASSUME TypeOK, {"Lighting", "Picture"} \subseteq Editors,
         NEW editors, EditorsTyped(editors), NEW plan, BeginPreparation(plan, editors)
  PROVE  WorkflowTyped /\ preparation' \in PreparationSteps \cup {None}
<1>1. {"Lighting", "Picture"} \subseteq Supported
  BY DEF Editors
<1>2. CASE plan = "ReadLighting" /\ MayIssue
  <2>1. ed' = editors /\ Begin("Lighting", "Read", FALSE) /\ preparation' = "ReadingLighting"
    BY <1>2 DEF BeginPreparation
  <2>2. QED
    BY <1>1, <1>2, <2>1, BeginTyped DEF WorkflowTyped, PreparationSteps, Directions
<1>3. CASE plan = "ReadPicture" /\ MayIssue
  <2>1. ed' = editors /\ Begin("Picture", "Read", FALSE) /\ preparation' = "ReadingPicture"
    BY <1>3 DEF BeginPreparation
  <2>2. QED
    BY <1>1, <1>3, <2>1, BeginTyped DEF WorkflowTyped, PreparationSteps, Directions
<1>4. CASE plan = "SaveLighting"
  <2> DEFINE staged == Stage(editors["Lighting"], PictureDefault)
  <2>1. staged \in EditorOf(SnapshotsOf("Lighting"), Values["Lighting"])
    BY ValuesAssumption, StageType DEF EditorsTyped
  <2>2. SubmitWrite("Lighting", staged, editors)
    BY <1>4 DEF BeginPreparation
  <2>3. preparation' \in {"SavingLighting", None}
    BY <1>4 DEF BeginPreparation
  <2>4. QED
    BY <2>1, <2>2, <2>3, SubmitWriteTyped DEF WorkflowTyped, PreparationSteps
<1>5. CASE Settle(editors) /\ preparation' = None
  BY <1>5, SettleTyped
<1>6. QED
  BY <1>2, <1>3, <1>4, <1>5 DEF BeginPreparation

\* Each way picture preparation can go on after an answer keeps the types.
LEMMA AdvancePreparationTyped ==
  ASSUME TypeOK, preparation # None, NEW editors, EditorsTyped(editors),
         NEW f \in Editors, NEW direction \in Directions,
         AdvancePreparation(editors, f, direction)
  PROVE  WorkflowTyped /\ preparation' \in PreparationSteps \cup {None}
<1>1. \/ \E plan : BeginPreparation(plan, editors)
      \/ Settle(editors) /\ preparation' = None
  BY DEF AdvancePreparation
<1>2. {"Lighting", "Picture"} \subseteq Editors
  BY DEF TypeOK
<1>3. QED
  BY <1>1, <1>2, BeginPreparationTyped, SettleTyped

-----------------------------------------------------------------------------
(* Type correctness, one step per operation. *)

\* A new session is well typed.
LEMMA TypeInit == Init => TypeOK
<1> SUFFICES ASSUME Init PROVE TypeOK
  OBVIOUS
<1>1. EditorsTyped(ed)
  BY NewEditorType DEF Init, EditorsTyped
<1>2. connected \in BOOLEAN /\ recording \in BOOLEAN
  BY DEF Init
<1>3. generation \in 0 .. MaxGeneration /\ operation \in 0 .. MaxOperation
  BY BoundsAssumption DEF Init
<1>4. slot \in Slots /\ occupancy \in [Slots -> Occupancies]
  BY SlotsAssumption DEF Init, Occupancies
<1>5. host \in HostStates
  BY DEF Init, HostStates, HostPhases
<1>6. QED
  BY <1>1, <1>2, <1>3, <1>4, <1>5 DEF Init, TypeOK

\* Connecting and disconnecting keep the types.
LEMMA ConnectionsType == TypeOK /\ Connections => TypeOK'
<1> SUFFICES ASSUME TypeOK, Connections PROVE TypeOK'
  OBVIOUS
<1> USE DEF library, workflows, activities
<1>1. CASE Connect
  <2>1. ed' = [f \in Editors |-> Invalidate(ed[f])]
    BY <1>1 DEF Connect, InvalidateAll
  <2>2. EditorsTyped(ed')
    BY <2>1, InvalidateType DEF TypeOK, EditorsTyped
  <2>3. QED
    BY <1>1, <2>2, BoundsAssumption DEF Connect, TypeOK, LibraryInvalidated, Occupancies
<1>2. CASE Disconnect
  <2>1. PICK recorded \in Values["Macro"] \cup {None} :
          ed' = [f \in Editors |-> Abandoned(f, recorded)]
    BY <1>2 DEF Disconnect
  <2>2. EditorsTyped(ed')
    BY <2>1, AbandonedTyped DEF EditorsTyped
  <2>3. QED
    BY <1>2, <2>2
       DEF Disconnect, TypeOK, LibraryInvalidated, Occupancies, HostStates, HostPhases
<1>3. QED
  BY <1>1, <1>2 DEF Connections

\* Reads, archive captures, observations and refreshes keep the types.
LEMMA ReadsType == TypeOK /\ Reads => TypeOK'
<1> SUFFICES ASSUME TypeOK, Reads PROVE TypeOK'
  OBVIOUS
<1> USE DEF library, workflows, activities
<1>1. ASSUME NEW f, Read(f) PROVE TypeOK'
  <2>1. f \in Supported /\ MayIssue /\ Begin(f, "Read", FALSE) /\ OnlyRequest
    BY <1>1 DEF Read, CanBegin
  <2>2. pending' \in Tickets /\ operation' \in 0 .. MaxOperation
    BY <2>1, BeginTyped DEF Directions
  <2>3. QED
    BY <2>1, <2>2 DEF OnlyRequest, TypeOK
<1>2. ASSUME NEW f \in Editors, Observe(f) PROVE TypeOK'
  <2>1. f \in Supported /\ MayIssue /\ Begin(f, "Read", TRUE) /\ OnlyRequest
    BY <1>2 DEF Observe, CanBegin, Editors
  <2>2. pending' \in Tickets /\ operation' \in 0 .. MaxOperation
    BY <2>1, BeginTyped DEF Directions
  <2>3. QED
    BY <2>1, <2>2 DEF OnlyRequest, TypeOK
<1>3. QED
  BY <1>1, <1>2 DEF Reads, CaptureArchive, RefreshNext

\* A step that replaces one editor and nothing else.
LEMMA OneEditorType ==
  ASSUME TypeOK, OnlyEditors, NEW f \in Editors,
         NEW e \in EditorOf(SnapshotsOf(f), Values[f]), ed' = [ed EXCEPT ![f] = e]
  PROVE  TypeOK'
<1>1. EditorsTyped(ed')
  BY UpdateTyped DEF TypeOK
<1>2. QED
  BY <1>1 DEF TypeOK, OnlyEditors, library, workflows, activities

\* Edits and reverts keep the types.
LEMMA EditsType == TypeOK /\ Edits => TypeOK'
<1> SUFFICES ASSUME TypeOK, Edits PROVE TypeOK'
  OBVIOUS
<1>1. ASSUME NEW f \in Editors, NEW next \in Values[f] PROVE
        Stage(ed[f], next) \in EditorOf(SnapshotsOf(f), Values[f])
  BY StageType DEF TypeOK, EditorsTyped
<1>2. ASSUME NEW f \in Editors, NEW next \in Values[f], Edit(f, next) PROVE TypeOK'
  BY <1>1, <1>2, OneEditorType DEF Edit
<1>3. ASSUME "Lighting" \in Editors, NEW next \in Values["Lighting"],
             EditLighting(next) \/ StageLighting(next)
      PROVE  TypeOK'
  BY <1>1, <1>3, OneEditorType DEF EditLighting, StageLighting
<1>4. ASSUME NEW f \in Editors, RevertEdit(f) PROVE TypeOK'
  <2>1. Revert(ed[f]) \in EditorOf(SnapshotsOf(f), Values[f])
    BY <1>4, FeatureValues, RevertType DEF RevertEdit, TypeOK, EditorsTyped
  <2>2. QED
    BY <1>4, <2>1, OneEditorType DEF RevertEdit
<1>5. QED
  BY <1>2, <1>3, <1>4 DEF Edits

\* Saving keeps the types, also when no operation ID is left.
LEMMA SavesType == TypeOK /\ Saves => TypeOK'
<1> SUFFICES ASSUME TypeOK, NEW f \in Editors, Save(f) PROVE TypeOK'
  BY DEF Saves
<1>1. ed[f] \in EditorOf(SnapshotsOf(f), Values[f])
  BY DEF TypeOK, EditorsTyped
<1>2. WorkflowTyped
  <2>1. CASE pending = None
    BY <1>1, <2>1, SubmitWriteTyped DEF Save, TypeOK, WorkflowTyped
  <2>2. CASE pending # None
    <3>1. CancelApply(RequestApply(ed[f])) \in EditorOf(SnapshotsOf(f), Values[f])
      BY <1>1, RequestType
    <3>2. EditorsTyped([ed EXCEPT ![f] = CancelApply(RequestApply(ed[f]))])
      BY <3>1, UpdateTyped DEF TypeOK
    <3>3. QED
      BY <2>2, <3>2 DEF Save, WorkflowTyped, TypeOK
  <2>3. QED
    BY <2>1, <2>2
<1>3. QED
  BY <1>2 DEF Save, WorkflowTyped, TypeOK, workflows, activities

\* Starting save-and-assign keeps the types, whichever write comes first.
LEMMA SaveAndAssignType ==
  ASSUME TypeOK, {"Keymap", "Macro"} \subseteq Editors, NEW key \in Keys, SaveAndAssign(key)
  PROVE  TypeOK'
<1> DEFINE bound == Bound(ed["Keymap"], key)
<1>1. /\ ed["Macro"] \in EditorOf(SnapshotsOf("Macro"), Values["Macro"])
      /\ ed["Keymap"] \in EditorOf(SnapshotsOf("Keymap"), Values["Keymap"])
      /\ EditorsTyped(ed)
  BY DEF TypeOK, EditorsTyped
<1>2. UNCHANGED <<connected, generation, slot, occupancy, preparation, activities>>
  BY DEF SaveAndAssign
<1>3. WorkflowTyped /\ assignment' \in Assignments \cup {None} /\ scan' \in {scan, None}
  <2>1. CASE Dirty(ed["Macro"])
    <3>1. /\ SubmitWrite("Macro", ed["Macro"], ed)
          /\ assignment' \in {[step |-> "SavingMacro", key |-> key, macroSaved |-> FALSE], None}
          /\ scan' \in {scan, None}
      BY <2>1 DEF SaveAndAssign
    <3>2. WorkflowTyped
      BY <1>1, <3>1, SubmitWriteTyped DEF WorkflowTyped
    <3>3. [step |-> "SavingMacro", key |-> key, macroSaved |-> FALSE] \in Assignments
      BY DEF Assignments, AssignmentSteps
    <3>4. QED
      BY <3>1, <3>2, <3>3
  <2>2. CASE ~Dirty(ed["Macro"])
    <3>1. /\ ed["Keymap"].draft # None
          /\ SubmitWrite("Keymap", bound, ed)
          /\ assignment' \in {[step |-> "Assigning", key |-> key, macroSaved |-> FALSE], None}
          /\ scan' = scan
      BY <2>2 DEF SaveAndAssign
    <3>2. bound \in EditorOf(SnapshotsOf("Keymap"), Values["Keymap"])
      BY <1>1, <3>1, BoundTyped
    <3>3. WorkflowTyped
      BY <1>1, <3>1, <3>2, SubmitWriteTyped DEF WorkflowTyped
    <3>4. [step |-> "Assigning", key |-> key, macroSaved |-> FALSE] \in Assignments
      BY DEF Assignments, AssignmentSteps
    <3>5. QED
      BY <3>1, <3>3, <3>4
  <2>3. QED
    BY <2>1, <2>2
<1>4. QED
  BY <1>2, <1>3 DEF TypeOK, WorkflowTyped, activities

\* Slot selection, catalog scans, recording and save-and-assign keep the types.
LEMMA MacroActionsType == TypeOK /\ MacroActions => TypeOK'
<1> SUFFICES ASSUME TypeOK, MacroActions PROVE TypeOK'
  OBVIOUS
<1> USE DEF library, workflows, activities
<1>0. "Macro" \in Editors
  BY DEF MacroActions
<1>1. ed["Macro"] \in EditorOf(SnapshotsOf("Macro"), Values["Macro"])
  BY <1>0 DEF TypeOK, EditorsTyped
<1>2. ASSUME NEW s \in Slots, SelectMacro(s) PROVE TypeOK'
  <2> DEFINE e == [ed["Macro"] EXCEPT !.baseline = None, !.draft = None, !.status = "Unloaded"]
  <2>1. e \in EditorOf(SnapshotsOf("Macro"), Values["Macro"])
    BY <1>1 DEF EditorOf, Status
  <2>2. ed' = [ed EXCEPT !["Macro"] = e]
    BY <1>2 DEF SelectMacro
  <2>3. EditorsTyped(ed')
    BY <1>0, <2>1, <2>2, UpdateTyped DEF TypeOK
  <2>4. QED
    BY <1>2, <2>3 DEF SelectMacro, TypeOK
<1>3. CASE RequestCatalog
  <2>1. scan' \in Scans /\ operation' \in 0 .. MaxOperation
    BY <1>3, BoundsAssumption DEF RequestCatalog, TypeOK, Scans
  <2>2. QED
    BY <1>3, <2>1 DEF RequestCatalog, TypeOK
<1>4. CASE CancelCatalog
  BY <1>4 DEF CancelCatalog, TypeOK
<1>5. CASE ConfigurationChanged
  BY <1>5 DEF ConfigurationChanged, LibraryInvalidated, TypeOK, Occupancies
<1>6. CASE StartRecording
  BY <1>6 DEF StartRecording, TypeOK
<1>7. ASSUME NEW next \in Values["Macro"] PROVE
        Stage(ed["Macro"], next) \in EditorOf(SnapshotsOf("Macro"), Values["Macro"])
  BY <1>1, StageType
<1>8. ASSUME NEW next \in Values["Macro"], RecordInput(next) PROVE TypeOK'
  BY <1>0, <1>7, <1>8, OneEditorType DEF RecordInput
<1>9. ASSUME NEW next \in Values["Macro"], StopRecording(next) PROVE TypeOK'
  <2>1. EditorsTyped(ed')
    BY <1>0, <1>7, <1>9, UpdateTyped DEF StopRecording, TypeOK
  <2>2. QED
    BY <1>9, <2>1 DEF StopRecording, TypeOK
<1>10. ASSUME "Keymap" \in Editors, NEW key \in Keys, SaveAndAssign(key) PROVE TypeOK'
  BY <1>0, <1>10, SaveAndAssignType
<1>11. QED
  BY <1>2, <1>3, <1>4, <1>5, <1>6, <1>8, <1>9, <1>10 DEF MacroActions

\* Starting picture preparation keeps the types.
LEMMA PreparePictureType ==
  TypeOK /\ {"Lighting", "Picture"} \subseteq Editors /\ PreparePicture => TypeOK'
<1> SUFFICES ASSUME TypeOK, {"Lighting", "Picture"} \subseteq Editors, PreparePicture
             PROVE  TypeOK'
  OBVIOUS
<1>1. WorkflowTyped /\ preparation' \in PreparationSteps \cup {None}
  BY BeginPreparationTyped DEF PreparePicture, TypeOK
<1>2. QED
  BY <1>1 DEF PreparePicture, WorkflowTyped, TypeOK, library, activities

\* What a restoration leaves of the lighting editor.
LEMMA RestoredTyped ==
  ASSUME TypeOK, "Lighting" \in Editors, NEW starting \in BOOLEAN,
         NEW result \in Writings("Lighting")
  PROVE  LET e == ed["Lighting"]
             restored == Restored(e, starting, result)
         IN /\ restored \in EditorOf(SnapshotsOf("Lighting"), Values["Lighting"])
            /\ e.submitted = None => restored.submitted = None
            /\ (Ready(e) => e.baseline # None) => (Ready(restored) => restored.baseline # None)
<1> DEFINE e == ed["Lighting"]
           restored == Restored(e, starting, result)
<1>1. e \in EditorOf(SnapshotsOf("Lighting"), Values["Lighting"])
  BY DEF TypeOK, EditorsTyped
<1>2. result.kind = "ok" => result.snapshot \in SnapshotsOf("Lighting")
  BY FeatureValues DEF Writings, Result
<1>3. CASE restored = e
  BY <1>1, <1>3
<1>4. CASE result.kind = "ok" /\ restored = ReadResult(e, result)
  BY <1>1, <1>2, <1>4, FeatureValues, ReadResultType
<1>5. CASE restored = ApplyResult(e, LostWrite)
  <2>1. LostWrite.kind = "error"
    BY DEF LostWrite
  <2>2. QED
    BY <1>1, <1>5, <2>1, FeatureValues, ApplyResultType
<1>6. QED
  BY <1>3, <1>4, <1>5 DEF Restored

\* Host lighting and its events keep the types, whatever restoration reports.
LEMMA HostActionsType == TypeOK /\ HostActions => TypeOK'
<1> SUFFICES ASSUME TypeOK, HostActions PROVE TypeOK'
  OBVIOUS
<1> USE DEF library, workflows, activities
<1>0. "Lighting" \in Editors
  BY DEF HostActions
<1>1. CASE StartHost
  <2>1. NewTicket \in HostTickets /\ operation' \in 0 .. MaxOperation
    BY <1>1, BoundsAssumption DEF StartHost, NewTicket, HostTickets, TypeOK
  <2>2. host' \in HostStates
    BY <1>1, <2>1 DEF StartHost, HostStates, HostPhases
  <2>3. QED
    BY <1>1, <2>1, <2>2 DEF StartHost, TypeOK
<1>2. CASE StopHost
  <2>1. host' \in HostStates
    BY <1>2 DEF StopHost, TypeOK, HostStates, HostPhases
  <2>2. QED
    BY <1>2, <2>1 DEF StopHost, TypeOK
<1>3. ASSUME NEW ticket, HostStarted(ticket) PROVE TypeOK'
  <2>1. host' \in HostStates
    BY <1>3 DEF HostStarted, TypeOK, HostStates, HostPhases
  <2>2. QED
    BY <1>3, <2>1 DEF HostStarted, TypeOK
<1>4. ASSUME NEW ticket, NEW result \in Writings("Lighting"), HostFinished(ticket, result)
      PROVE  TypeOK'
  <2> DEFINE starting == "Starting" \in {host.phase, host.source}
             e == Restored(ed["Lighting"], starting, result)
  <2>0. starting \in BOOLEAN
    OBVIOUS
  <2>1. e \in EditorOf(SnapshotsOf("Lighting"), Values["Lighting"])
    <3> HIDE DEF starting
    <3>1. QED
      BY <1>0, <2>0, RestoredTyped
  <2>2. ed' = [ed EXCEPT !["Lighting"] = e]
    BY <1>4 DEF HostFinished
  <2>3. EditorsTyped(ed')
    BY <1>0, <2>1, <2>2, UpdateTyped DEF TypeOK
  <2>4. host' \in HostStates
    BY <1>4 DEF HostFinished, HostStates, HostPhases
  <2>5. QED
    BY <1>4, <2>3, <2>4 DEF HostFinished, TypeOK
<1>5. QED
  BY <1>1, <1>2, <1>3, <1>4 DEF HostActions

\* A feature's answer keeps the types, with the workflow step that may follow.
LEMMA FinishTyped ==
  ASSUME TypeOK, NEW f \in Editors, NEW direction \in Directions,
         NEW result \in Results(f, direction), Finish(f, direction, result)
  PROVE  /\ WorkflowTyped
         /\ assignment' \in Assignments \cup {None}
         /\ assignment' # None => assignment # None
         /\ preparation' \in PreparationSteps \cup {None}
         /\ preparation' # None => preparation # None
         /\ occupancy' \in [Slots -> Occupancies]
         /\ scan' \in Scans \cup {None}
<1> DEFINE editors == EditorsAfter(f, direction, result)
<1>1. EditorsTyped(editors)
  BY EditorsAfterTyped
<1>2. occupancy' \in [Slots -> Occupancies]
  <2>1. OccupancyOf(result.snapshot) \in Occupancies
    BY DEF OccupancyOf, Occupancies
  <2>2. CASE f = "Macro"
    <3>1. ObserveSlot(editors[f], result)
      BY <2>2 DEF Finish
    <3>2. occupancy' \in {[occupancy EXCEPT ![slot] = o] : o \in Occupancies}
      BY <2>1, <3>1 DEF ObserveSlot, TypeOK, Occupancies
    <3>3. QED
      BY <3>2 DEF TypeOK
  <2>3. CASE f # "Macro"
    BY <2>3 DEF Finish, TypeOK
  <2>4. QED
    BY <2>2, <2>3
<1>3. scan' \in Scans \cup {None}
  <2>1. scan' = ScanAfter(f, direction, editors[f])
    BY DEF Finish
  <2>2. scan # None => [scan EXCEPT !.refreshed = @ \cup {slot}] \in Scans
    BY DEF TypeOK, Scans
  <2>3. QED
    BY <2>1, <2>2 DEF ScanAfter, TypeOK
<1>4. CASE assignment # None
  <2>1. AdvanceAssignment(editors, f, direction) /\ UNCHANGED preparation
    BY <1>4 DEF Finish
  <2>2. WorkflowTyped /\ assignment' \in Assignments \cup {None}
    BY <1>1, <1>4, <2>1, AdvanceAssignmentTyped
  <2>3. QED
    BY <1>2, <1>3, <1>4, <2>1, <2>2 DEF TypeOK
<1>5. CASE assignment = None /\ preparation # None
  <2>1. AdvancePreparation(editors, f, direction) /\ UNCHANGED assignment
    BY <1>5 DEF Finish
  <2>2. WorkflowTyped /\ preparation' \in PreparationSteps \cup {None}
    BY <1>1, <1>5, <2>1, AdvancePreparationTyped
  <2>3. QED
    BY <1>2, <1>3, <1>5, <2>1, <2>2
<1>6. CASE assignment = None /\ preparation = None
  <2>1. Settle(editors) /\ UNCHANGED <<assignment, preparation>>
    BY <1>6 DEF Finish
  <2>2. WorkflowTyped
    BY <1>1, <2>1, SettleTyped
  <2>3. QED
    BY <1>2, <1>3, <1>6, <2>1, <2>2
<1>7. QED
  BY <1>4, <1>5, <1>6

\* Every completion keeps the types.
LEMMA CompletionsType == TypeOK /\ Completions => TypeOK'
<1> SUFFICES ASSUME TypeOK, Completions PROVE TypeOK'
  OBVIOUS
<1> USE DEF library, workflows, activities
<1>1. ASSUME NEW c, AcceptCatalog(c) PROVE TypeOK'
  <2>1. PICK result \in Catalogs : occupancy' = Cataloged(result)
    BY <1>1 DEF AcceptCatalog
  <2>2. result.kind = "ok" => result.slots \in [Slots -> Occupancies]
    BY <2>1 DEF Catalogs, Occupancies
  <2>3. occupancy' \in [Slots -> Occupancies]
    BY <2>1, <2>2 DEF Cataloged, TypeOK
  <2>4. QED
    BY <1>1, <2>3 DEF AcceptCatalog, TypeOK
<1>2. ASSUME NEW c, AcceptArchive(c) PROVE TypeOK'
  BY <1>2 DEF AcceptArchive, TypeOK
<1>3. ASSUME NEW c, c.direction \in Directions, AcceptFeature(c) PROVE TypeOK'
  <2>1. PICK result \in Results(c.feature, c.direction) : Finish(c.feature, c.direction, result)
    BY <1>3 DEF AcceptFeature
  <2>2. c.feature \in Editors /\ UNCHANGED <<connected, generation, slot, activities>>
    BY <1>3 DEF AcceptFeature
  <2>3. QED
    BY <1>3, <2>1, <2>2, FinishTyped DEF WorkflowTyped, TypeOK
<1>4. QED
  BY <1>1, <1>2, <1>3 DEF Completions, Completion

\* Every step keeps the types.
LEMMA TypeStep == TypeOK /\ [Next]_vars => TypeOK'
<1>1. TypeOK /\ UNCHANGED vars => TypeOK'
  BY DEF TypeOK, vars, library, workflows, activities
<1>2. QED
  BY <1>1, ConnectionsType, ReadsType, EditsType, SavesType, MacroActionsType,
     PreparePictureType, HostActionsType, CompletionsType DEF Next

\* Every variable keeps the type of its Rust field, whatever the device answers
\* and in whatever order operations and answers come.
THEOREM TypeCorrect == Spec => []TypeOK
BY TypeInit, TypeStep, PTL DEF Spec

-----------------------------------------------------------------------------
(* Submissions, readiness and exclusion.  The three invariants need each    *)
(* other: an answer may spend a submission only because the ticket in       *)
(* flight is the only one, and an editor may become ready only because a    *)
(* ticket is never in flight without a connection.                          *)

SessionInv == SubmittedIffSaving /\ ReadyIsConnected /\ ExclusiveActivities

\* Editors without a submission, of which the ready ones hold a snapshot.
Held(editors) ==
  /\ EditorsTyped(editors)
  /\ \A f \in Editors : editors[f].submitted = None
  /\ \A f \in Editors : Ready(editors[f]) => editors[f].baseline # None

\* What a step that may hand out a ticket establishes.
Issued ==
  /\ SubmittedIffSaving'
  /\ \A f \in Editors : Ready(ed'[f]) => ed'[f].baseline # None
  /\ pending' # None => MayIssue /\ pending'.generation = generation

\* Editors without a submission stay so when one of them is replaced by another.
LEMMA UpdateHeld ==
  ASSUME NEW editors, Held(editors), NEW f \in Editors,
         NEW e \in EditorOf(SnapshotsOf(f), Values[f]), e.submitted = None,
         Ready(e) => e.baseline # None
  PROVE  Held([editors EXCEPT ![f] = e])
BY UpdateTyped DEF Held

\* Settling editors without a submission leaves none, and no ticket.
LEMMA SettleIssued ==
  ASSUME NEW editors, Held(editors), Settle(editors)
  PROVE  Issued
BY DEF Held, Settle, Issued, SubmittedIffSaving, Saving

\* The write that is submitted is the one the new ticket is for.
LEMMA SubmitWriteIssued ==
  ASSUME NEW editors, Held(editors), NEW f \in Editors,
         NEW e \in EditorOf(SnapshotsOf(f), Values[f]), e.draft # None,
         Ready(e) => e.baseline # None,
         TypeOK, SubmitWrite(f, e, editors)
  PROVE  Issued
<1>1. CASE MayIssue
  <2>1. /\ ed' = [editors EXCEPT ![f] = RequestApply(e)]
        /\ pending' = Ticket(f, "Save", FALSE)
    BY <1>1 DEF SubmitWrite, Begin
  <2>2. pending' \in Tickets
    BY <1>1, <2>1, BoundsAssumption DEF Ticket, Tickets, MayIssue, TypeOK, Editors, Directions
  <2>3. pending' # None
    BY <2>2, NoneAssumption
  <2>4. /\ ed'[f] = RequestApply(e)
        /\ \A g \in Editors \ {f} : ed'[g] = editors[g]
    BY <2>1, RequestType, UpdateTyped DEF Held
  <2>5. /\ ed'[f].submitted # None
        /\ Ready(ed'[f]) => ed'[f].baseline # None
    BY <2>4, RequestType DEF Ready
  <2>6. /\ pending'.feature = f /\ pending'.direction = "Save"
        /\ pending'.generation = generation
    BY <2>1 DEF Ticket
  <2>7. QED
    BY <1>1, <2>3, <2>4, <2>5, <2>6 DEF Issued, Held, SubmittedIffSaving, Saving
<1>2. CASE ~MayIssue
  <2> DEFINE withdrawn == CancelApply(RequestApply(e))
  <2>1. Held([editors EXCEPT ![f] = withdrawn])
    BY RequestType, UpdateHeld DEF Ready
  <2>2. Settle([editors EXCEPT ![f] = withdrawn])
    BY <1>2 DEF SubmitWrite, Settle
  <2>3. QED
    BY <2>1, <2>2, SettleIssued
<1>3. QED
  BY <1>1, <1>2

\* Between operations no editor has a submission.
LEMMA IdleHeld ==
  ASSUME TypeOK, SessionInv, pending = None
  PROVE  Held(ed)
BY DEF TypeOK, SessionInv, SubmittedIffSaving, Saving, ReadyIsConnected, Held

\* The answer to the ticket in flight spends its submission.
LEMMA AnswerHeld ==
  ASSUME TypeOK, SessionInv, pending # None, NEW f \in Editors, NEW direction \in Directions,
         pending.feature = f, pending.direction = direction,
         NEW result \in Results(f, direction)
  PROVE  Held(EditorsAfter(f, direction, result))
<1> DEFINE editors == EditorsAfter(f, direction, result)
<1>1. EditorsTyped(editors)
  BY EditorsAfterTyped
<1>2. /\ result.kind \in {"ok", "error", "invalid"}
      /\ result.kind = "ok" => result.snapshot \in SnapshotsOf(f)
  BY ResultTyped
<1>3. ed[f] \in EditorOf(SnapshotsOf(f), Values[f])
  BY DEF TypeOK, EditorsTyped
<1>4. /\ editors[f] = Received(f, direction, result)
      /\ \A g \in Editors \ {f} : editors[g] \in {ed[g], Invalidate(ed[g])}
  BY DEF EditorsAfter
<1>5. /\ editors[f].submitted = None
      /\ Ready(editors[f]) => editors[f].baseline # None
  <2>1. CASE direction = "Read"
    <3>1. editors[f] = ReadResult(ed[f], result)
      BY <1>4, <2>1 DEF Received
    <3>2. ed[f].submitted = None
      BY <2>1 DEF SessionInv, SubmittedIffSaving, Saving
    <3>3. QED
      BY <1>2, <1>3, <3>1, <3>2, FeatureValues, ReadResultType
  <2>2. CASE direction # "Read"
    <3>1. editors[f] = ApplyResult(ed[f], result)
      BY <1>4, <2>2 DEF Received
    <3>2. QED
      BY <1>2, <1>3, <3>1, FeatureValues, ApplyResultType
  <2>3. QED
    BY <2>1, <2>2
<1>6. ASSUME NEW g \in Editors \ {f}
      PROVE  /\ editors[g].submitted = None
             /\ Ready(editors[g]) => editors[g].baseline # None
  <2>1. /\ ed[g].submitted = None
        /\ Ready(ed[g]) => ed[g].baseline # None
    BY DEF SessionInv, SubmittedIffSaving, Saving, ReadyIsConnected
  <2>2. ed[g] \in EditorOf(SnapshotsOf(g), Values[g])
    BY DEF TypeOK, EditorsTyped
  <2>3. QED
    BY <1>4, <2>1, <2>2, InvalidateType
<1>7. QED
  BY <1>1, <1>5, <1>6 DEF Held

\* Whether save-and-assign begins, skips or gives up its second write, what is
\* submitted is what its ticket is for.
LEMMA AdvanceAssignmentIssued ==
  ASSUME TypeOK, assignment # None, NEW editors, Held(editors),
         NEW f \in Editors, NEW direction \in Directions,
         AdvanceAssignment(editors, f, direction)
  PROVE  Issued
<1>1. assignment \in Assignments /\ "Keymap" \in Editors
  BY DEF TypeOK
<1>2. CASE Settle(editors)
  BY <1>2, SettleIssued
<1>3. CASE AssignKey(editors)
  <2> DEFINE keymap == editors["Keymap"]
             bound == Bound(keymap, assignment.key)
  <2>1. /\ keymap \in EditorOf(SnapshotsOf("Keymap"), Values["Keymap"])
        /\ keymap.submitted = None
        /\ Ready(keymap) => keymap.baseline # None
    BY <1>1 DEF Held, EditorsTyped
  <2>2. CASE ~Ready(keymap) \/ keymap.draft = None
    BY <1>3, <2>2, SettleIssued DEF AssignKey
  <2>3. CASE Ready(keymap) /\ keymap.draft # None
    <3>1. bound \in EditorOf(SnapshotsOf("Keymap"), Values["Keymap"])
      BY <1>1, <2>1, <2>3, BoundTyped DEF Assignments
    <3>2. /\ bound.submitted = None
          /\ Ready(bound) => bound.baseline # None
      BY <2>1, <2>3 DEF Bound, Stage, Ready, EditorOf
    <3>3. CASE ~CanRequestApply(bound)
      <4>1. Settle([editors EXCEPT !["Keymap"] = bound])
        BY <1>3, <2>3, <3>3 DEF AssignKey
      <4>2. Held([editors EXCEPT !["Keymap"] = bound])
        BY <1>1, <3>1, <3>2, UpdateHeld
      <4>3. QED
        BY <4>1, <4>2, SettleIssued
    <3>4. CASE CanRequestApply(bound)
      <4>1. SubmitWrite("Keymap", bound, editors)
        BY <1>3, <2>3, <3>4 DEF AssignKey
      <4>2. bound.draft # None
        BY <3>4 DEF CanRequestApply, Dirty
      <4>3. QED
        BY <1>1, <3>1, <3>2, <4>1, <4>2, SubmitWriteIssued
    <3>5. QED
      BY <3>3, <3>4
  <2>4. QED
    BY <2>2, <2>3
<1>4. QED
  BY <1>2, <1>3 DEF AdvanceAssignment

\* A read that is begun submits nothing.
LEMMA ReadIssued ==
  ASSUME TypeOK, MayIssue, NEW editors, Held(editors), NEW f \in Supported,
         NEW background \in BOOLEAN, ed' = editors, Begin(f, "Read", background)
  PROVE  Issued
<1>1. pending' = Ticket(f, "Read", background)
  BY DEF Begin
<1>2. pending'.direction # "Save" /\ pending'.generation = generation
  BY <1>1 DEF Ticket
<1>3. QED
  BY <1>2 DEF Issued, Held, SubmittedIffSaving, Saving

\* Whatever picture preparation begins, what is submitted is what its ticket is
\* for.
LEMMA BeginPreparationIssued ==
  ASSUME TypeOK, {"Lighting", "Picture"} \subseteq Editors,
         NEW editors, Held(editors), NEW plan, BeginPreparation(plan, editors)
  PROVE  Issued
<1>1. {"Lighting", "Picture"} \subseteq Supported
  BY DEF Editors
<1>2. CASE plan = "ReadLighting" /\ MayIssue
  <2>1. ed' = editors /\ Begin("Lighting", "Read", FALSE)
    BY <1>2 DEF BeginPreparation
  <2>2. QED
    BY <1>1, <1>2, <2>1, ReadIssued
<1>3. CASE plan = "ReadPicture" /\ MayIssue
  <2>1. ed' = editors /\ Begin("Picture", "Read", FALSE)
    BY <1>3 DEF BeginPreparation
  <2>2. QED
    BY <1>1, <1>3, <2>1, ReadIssued
<1>4. CASE plan = "SaveLighting"
  <2> DEFINE lighting == editors["Lighting"]
             staged == Stage(lighting, PictureDefault)
  <2>1. /\ lighting \in EditorOf(SnapshotsOf("Lighting"), Values["Lighting"])
        /\ Ready(lighting) => lighting.baseline # None
    BY DEF Held, EditorsTyped
  <2>2. PictureDefault \in Values["Lighting"] /\ PictureDefault # None
    BY ValuesAssumption, FeatureValues
  <2>3. /\ staged \in EditorOf(SnapshotsOf("Lighting"), Values["Lighting"])
        /\ staged.draft # None
        /\ Ready(staged) => staged.baseline # None
    BY <2>1, <2>2, StageType DEF Ready
  <2>4. SubmitWrite("Lighting", staged, editors)
    BY <1>4 DEF BeginPreparation
  <2>5. QED
    BY <2>3, <2>4, SubmitWriteIssued
<1>5. CASE Settle(editors)
  BY <1>5, SettleIssued
<1>6. QED
  BY <1>2, <1>3, <1>4, <1>5 DEF BeginPreparation

\* A feature's answer with the workflow step that may follow; the catalog scan
\* in flight may end, but none begins.
LEMMA FinishIssued ==
  ASSUME TypeOK, SessionInv, pending # None, NEW f \in Editors, NEW direction \in Directions,
         pending.feature = f, pending.direction = direction,
         NEW result \in Results(f, direction), Finish(f, direction, result)
  PROVE  /\ Issued
         /\ scan' # None => scan # None /\ scan'.generation = scan.generation
<1> DEFINE editors == EditorsAfter(f, direction, result)
<1>1. Held(editors)
  BY AnswerHeld
<1>2. scan' # None => scan # None /\ scan'.generation = scan.generation
  <2>1. scan' = ScanAfter(f, direction, editors[f])
    BY DEF Finish
  <2>2. scan # None => [scan EXCEPT !.refreshed = @ \cup {slot}].generation = scan.generation
    BY DEF TypeOK, Scans
  <2>3. QED
    BY <2>1, <2>2 DEF ScanAfter
<1>3. CASE assignment # None
  <2>1. AdvanceAssignment(editors, f, direction)
    BY <1>3 DEF Finish
  <2>2. QED
    BY <1>1, <1>2, <1>3, <2>1, AdvanceAssignmentIssued
<1>4. CASE assignment = None /\ preparation # None
  <2>1. AdvancePreparation(editors, f, direction)
    BY <1>4 DEF Finish
  <2>2. \/ \E plan : BeginPreparation(plan, editors)
        \/ Settle(editors)
    BY <2>1 DEF AdvancePreparation
  <2>3. {"Lighting", "Picture"} \subseteq Editors
    BY <1>4 DEF TypeOK
  <2>4. QED
    BY <1>1, <1>2, <2>2, <2>3, BeginPreparationIssued, SettleIssued
<1>5. CASE assignment = None /\ preparation = None
  <2>1. Settle(editors)
    BY <1>5 DEF Finish
  <2>2. QED
    BY <1>1, <1>2, <2>1, SettleIssued
<1>6. QED
  BY <1>3, <1>4, <1>5

\* What a step that may hand out a ticket leaves is the invariant of the next
\* state, unless it touches the connection, a recording or host lighting.
LEMMA IssuedInv ==
  ASSUME TypeOK, SessionInv, connected, Issued,
         UNCHANGED <<connected, generation, recording, host>>,
         scan' # None => scan # None /\ scan'.generation = scan.generation
  PROVE  SessionInv'
<1>1. SubmittedIffSaving'
  BY DEF Issued
<1>2. ReadyIsConnected'
  BY DEF Issued, ReadyIsConnected
<1>3. ExclusiveActivities'
  BY DEF Issued, SessionInv, ExclusiveActivities, MayIssue, HostIdle
<1>4. QED
  BY <1>1, <1>2, <1>3 DEF SessionInv

\* A step on one editor that leaves submission and readiness alone.
LEMMA OneEditorInv ==
  ASSUME TypeOK, SessionInv, NEW f \in Editors,
         NEW e \in EditorOf(SnapshotsOf(f), Values[f]), ed' = [ed EXCEPT ![f] = e],
         e.submitted = ed[f].submitted,
         Ready(e) => connected /\ e.baseline # None,
         UNCHANGED <<pending, connected, generation, recording, host, scan>>
  PROVE  SessionInv'
<1>1. /\ ed'[f] = e
      /\ \A g \in Editors \ {f} : ed'[g] = ed[g]
  BY UpdateTyped DEF TypeOK
<1>2. SubmittedIffSaving' /\ ReadyIsConnected'
  BY <1>1 DEF SessionInv, SubmittedIffSaving, Saving, ReadyIsConnected
<1>3. ExclusiveActivities'
  BY DEF SessionInv, ExclusiveActivities, HostIdle
<1>4. QED
  BY <1>2, <1>3 DEF SessionInv

\* A step that leaves every editor alone.
LEMMA NoEditorInv ==
  ASSUME SessionInv, UNCHANGED <<pending, connected, ed>>, ExclusiveActivities'
  PROVE  SessionInv'
BY DEF SessionInv, SubmittedIffSaving, Saving, ReadyIsConnected

\* A new session satisfies the three invariants.
LEMMA InitInv == Init => SessionInv
BY DEF Init, SessionInv, SubmittedIffSaving, Saving, ReadyIsConnected, ExclusiveActivities,
       HostIdle, NewEditor, Ready

\* A lost connection spends the submission of the save it interrupts and leaves
\* no editor ready; a new one finds nothing running.
LEMMA ConnectionsInv == TypeOK /\ SessionInv /\ Connections => SessionInv'
<1> SUFFICES ASSUME TypeOK, SessionInv, Connections PROVE SessionInv'
  OBVIOUS
<1> USE DEF workflows, activities
<1>1. CASE Connect
  <2>1. \A f \in Editors : ed'[f] = Invalidate(ed[f])
    BY <1>1 DEF Connect, InvalidateAll
  <2>2. /\ pending = None /\ HostIdle /\ ~recording
        /\ UNCHANGED <<pending, recording, host>>
        /\ connected' /\ scan' = None
    BY <1>1 DEF Connect, Idle, LibraryInvalidated
  <2>3. \A f \in Editors : ~Ready(ed'[f]) /\ ed'[f].submitted = None
    BY <2>1, <2>2, IdleHeld, InvalidateType DEF Held, EditorsTyped
  <2>4. QED
    BY <2>2, <2>3 DEF SessionInv, SubmittedIffSaving, Saving, ReadyIsConnected,
                      ExclusiveActivities, HostIdle
<1>2. CASE Disconnect
  <2>1. PICK recorded \in Values["Macro"] \cup {None} :
          ed' = [f \in Editors |-> Abandoned(f, recorded)]
    BY <1>2 DEF Disconnect
  <2>2. pending' = None /\ ~recording' /\ host'.phase = "Idle" /\ scan' = None
    BY <1>2 DEF Disconnect, LibraryInvalidated
  <2>3. \A f \in Editors : ~Ready(ed'[f]) /\ ed'[f].submitted = None
    BY <2>1, AbandonedTyped DEF SessionInv, SubmittedIffSaving, Saving
  <2>4. QED
    BY <2>2, <2>3 DEF SessionInv, SubmittedIffSaving, Saving, ReadyIsConnected,
                      ExclusiveActivities, HostIdle
<1>3. QED
  BY <1>1, <1>2 DEF Connections

\* A read begins only when nothing else is in flight, and submits nothing.
LEMMA ReadsInv == TypeOK /\ SessionInv /\ Reads => SessionInv'
<1> SUFFICES ASSUME TypeOK, SessionInv, Reads PROVE SessionInv'
  OBVIOUS
<1>1. ASSUME NEW f \in Supported, NEW background \in BOOLEAN,
             CanBegin, Begin(f, "Read", background), OnlyRequest
      PROVE  SessionInv'
  <2>1. MayIssue /\ connected /\ Held(ed) /\ ed' = ed
    BY <1>1, IdleHeld DEF CanBegin, MayIssue, OnlyRequest
  <2>2. Issued
    BY <1>1, <2>1, ReadIssued
  <2>3. QED
    BY <1>1, <2>1, <2>2, IssuedInv DEF OnlyRequest, library, activities
<1>2. ASSUME NEW f, Read(f) PROVE SessionInv'
  BY <1>1, <1>2 DEF Read
<1>3. ASSUME NEW f \in Editors, Observe(f) PROVE SessionInv'
  BY <1>1, <1>3 DEF Observe, Editors
<1>4. QED
  BY <1>2, <1>3 DEF Reads, CaptureArchive, RefreshNext

\* Edits move drafts only.
LEMMA EditsInv == TypeOK /\ SessionInv /\ Edits => SessionInv'
<1> SUFFICES ASSUME TypeOK, SessionInv, Edits PROVE SessionInv'
  OBVIOUS
<1> USE DEF OnlyEditors, library, activities
<1>1. ASSUME NEW f \in Editors
      PROVE  /\ ed[f] \in EditorOf(SnapshotsOf(f), Values[f])
             /\ Ready(ed[f]) => connected /\ ed[f].baseline # None
  BY DEF TypeOK, EditorsTyped, SessionInv, ReadyIsConnected
<1>2. ASSUME NEW f \in Editors, NEW next \in Values[f],
             ed' = [ed EXCEPT ![f] = Stage(ed[f], next)], OnlyEditors
      PROVE  SessionInv'
  <2>1. /\ Stage(ed[f], next) \in EditorOf(SnapshotsOf(f), Values[f])
        /\ Stage(ed[f], next).submitted = ed[f].submitted
        /\ Ready(Stage(ed[f], next)) => connected /\ Stage(ed[f], next).baseline # None
    BY <1>1, StageType DEF Ready
  <2>2. QED
    BY <1>2, <2>1, OneEditorInv
<1>3. ASSUME NEW f \in Editors, RevertEdit(f) PROVE SessionInv'
  <2>1. /\ Revert(ed[f]) \in EditorOf(SnapshotsOf(f), Values[f])
        /\ Revert(ed[f]).submitted = ed[f].submitted
        /\ Ready(Revert(ed[f])) => connected /\ Revert(ed[f]).baseline # None
    BY <1>1, <1>3, FeatureValues, RevertType DEF RevertEdit, Ready
  <2>2. QED
    BY <1>3, <2>1, OneEditorInv DEF RevertEdit
<1>4. QED
  BY <1>2, <1>3 DEF Edits, Edit, EditLighting, StageLighting

\* A save submits exactly the feature its ticket names, or takes it back.
LEMMA SavesInv == TypeOK /\ SessionInv /\ Saves => SessionInv'
<1> SUFFICES ASSUME TypeOK, SessionInv, NEW f \in Editors, Save(f) PROVE SessionInv'
  BY DEF Saves
<1>1. /\ ed[f] \in EditorOf(SnapshotsOf(f), Values[f])
      /\ ed[f].submitted = None /\ ed[f].draft # None /\ ed[f].baseline # None
      /\ connected
  BY DEF TypeOK, EditorsTyped, Save, CanRequestApply, Dirty, SessionInv, ReadyIsConnected
<1>2. /\ scan' \in {scan, None}
      /\ UNCHANGED <<connected, generation, recording, host>>
  BY DEF Save, activities
<1>3. CASE pending = None
  <2>1. SubmitWrite(f, ed[f], ed)
    BY <1>3 DEF Save
  <2>2. Issued
    BY <1>1, <1>3, <2>1, IdleHeld, SubmitWriteIssued
  <2>3. QED
    BY <1>1, <1>2, <2>2, IssuedInv
<1>4. CASE pending # None
  <2> DEFINE e == CancelApply(RequestApply(ed[f]))
  <2>1. /\ e \in EditorOf(SnapshotsOf(f), Values[f])
        /\ e.submitted = None
        /\ e.baseline # None
    BY <1>1, RequestType
  <2>2. ed' = [ed EXCEPT ![f] = e] /\ UNCHANGED pending /\ scan' = scan
    BY <1>4 DEF Save, CanBegin
  <2>3. QED
    BY <1>1, <1>2, <2>1, <2>2, OneEditorInv
<1>5. QED
  BY <1>3, <1>4

\* Recording and catalog scans begin only beside what they may run beside; a
\* slot is left only when nothing is in flight.
LEMMA MacroActionsInv == TypeOK /\ SessionInv /\ MacroActions => SessionInv'
<1> SUFFICES ASSUME TypeOK, SessionInv, MacroActions PROVE SessionInv'
  OBVIOUS
<1> USE DEF library, workflows, activities
<1>0. /\ "Macro" \in Editors
      /\ ed["Macro"] \in EditorOf(SnapshotsOf("Macro"), Values["Macro"])
      /\ Ready(ed["Macro"]) => connected /\ ed["Macro"].baseline # None
  BY DEF MacroActions, TypeOK, EditorsTyped, SessionInv, ReadyIsConnected
<1>1. ASSUME NEW s \in Slots, SelectMacro(s) PROVE SessionInv'
  <2> DEFINE e == [ed["Macro"] EXCEPT !.baseline = None, !.draft = None, !.status = "Unloaded"]
  <2>1. /\ e \in EditorOf(SnapshotsOf("Macro"), Values["Macro"])
        /\ e.submitted = ed["Macro"].submitted
        /\ ~Ready(e)
    BY <1>0 DEF EditorOf, Status, Ready
  <2>2. QED
    BY <1>0, <1>1, <2>1, OneEditorInv DEF SelectMacro
<1>2. CASE RequestCatalog \/ CancelCatalog \/ ConfigurationChanged \/ StartRecording
  <2>1. UNCHANGED <<pending, connected, ed>>
    BY <1>2 DEF RequestCatalog, CancelCatalog, ConfigurationChanged, StartRecording
  <2>2. ExclusiveActivities'
    <3>1. CASE RequestCatalog
      BY <3>1 DEF RequestCatalog, SessionInv, ExclusiveActivities, HostIdle
    <3>2. CASE CancelCatalog \/ ConfigurationChanged
      BY <3>2 DEF CancelCatalog, ConfigurationChanged, LibraryInvalidated, SessionInv,
                  ExclusiveActivities, HostIdle
    <3>3. CASE StartRecording
      BY <1>0, <3>3 DEF StartRecording, Idle, SessionInv, ExclusiveActivities, HostIdle
    <3>4. QED
      BY <1>2, <3>1, <3>2, <3>3
  <2>3. QED
    BY <2>1, <2>2, NoEditorInv
<1>3. ASSUME NEW next \in Values["Macro"], RecordInput(next) \/ StopRecording(next)
      PROVE  SessionInv'
  <2> DEFINE e == Stage(ed["Macro"], next)
  <2>1. /\ e \in EditorOf(SnapshotsOf("Macro"), Values["Macro"])
        /\ e.submitted = ed["Macro"].submitted
        /\ Ready(e) => connected /\ e.baseline # None
    BY <1>0, StageType DEF Ready
  <2>2. CASE RecordInput(next)
    BY <1>0, <2>1, <2>2, OneEditorInv DEF RecordInput, OnlyEditors
  <2>3. CASE StopRecording(next)
    <3>1. /\ ed' = [ed EXCEPT !["Macro"] = e]
          /\ ~recording'
          /\ UNCHANGED <<pending, connected, generation, host, scan>>
      BY <2>3 DEF StopRecording
    <3>2. /\ ed'["Macro"] = e
          /\ \A g \in Editors \ {"Macro"} : ed'[g] = ed[g]
      BY <1>0, <2>1, <3>1, UpdateTyped DEF TypeOK
    <3>3. SubmittedIffSaving' /\ ReadyIsConnected'
      BY <1>0, <2>1, <3>1, <3>2 DEF SessionInv, SubmittedIffSaving, Saving, ReadyIsConnected
    <3>4. ExclusiveActivities'
      BY <3>1 DEF SessionInv, ExclusiveActivities, HostIdle
    <3>5. QED
      BY <3>3, <3>4 DEF SessionInv
  <2>4. QED
    BY <1>3, <2>2, <2>3
<1>4. ASSUME "Keymap" \in Editors, NEW key \in Keys, SaveAndAssign(key) PROVE SessionInv'
  <2> DEFINE bound == Bound(ed["Keymap"], key)
  <2>1. /\ connected /\ Held(ed)
        /\ scan' \in {scan, None}
        /\ UNCHANGED <<connected, generation, recording, host>>
    BY <1>4, IdleHeld DEF SaveAndAssign, Idle
  <2>2. Issued
    <3>1. CASE Dirty(ed["Macro"])
      <4>1. SubmitWrite("Macro", ed["Macro"], ed) /\ ed["Macro"].draft # None
        BY <1>4, <3>1 DEF SaveAndAssign, Dirty
      <4>2. QED
        BY <1>0, <2>1, <4>1, SubmitWriteIssued
    <3>2. CASE ~Dirty(ed["Macro"])
      <4>1. /\ SubmitWrite("Keymap", bound, ed)
            /\ ed["Keymap"].draft # None /\ CanRequestApply(bound)
        BY <1>4, <3>2 DEF SaveAndAssign
      <4>2. /\ bound \in EditorOf(SnapshotsOf("Keymap"), Values["Keymap"])
            /\ bound.draft # None /\ bound.baseline # None
        BY <1>4, <4>1, BoundTyped DEF TypeOK, EditorsTyped, CanRequestApply, Dirty
      <4>3. QED
        BY <1>4, <2>1, <4>1, <4>2, SubmitWriteIssued
    <3>3. QED
      BY <3>1, <3>2
  <2>3. QED
    BY <2>1, <2>2, IssuedInv
<1>5. QED
  BY <1>1, <1>2, <1>3, <1>4 DEF MacroActions

\* Picture preparation begins one operation, or none.
LEMMA PreparePictureInv ==
  ASSUME TypeOK, SessionInv, {"Lighting", "Picture"} \subseteq Editors, PreparePicture
  PROVE  SessionInv'
<1>1. /\ connected /\ Held(ed)
      /\ UNCHANGED <<connected, generation, recording, host, scan>>
  BY IdleHeld DEF PreparePicture, Idle, library, activities
<1>2. Issued
  BY <1>1, BeginPreparationIssued DEF PreparePicture
<1>3. QED
  BY <1>1, <1>2, IssuedInv

\* Host lighting begins only when nothing else runs, and its end submits
\* nothing and verifies nothing but the baseline it read back.
LEMMA HostActionsInv == TypeOK /\ SessionInv /\ HostActions => SessionInv'
<1> SUFFICES ASSUME TypeOK, SessionInv, HostActions PROVE SessionInv'
  OBVIOUS
<1> USE DEF library, workflows, activities
<1>1. CASE StartHost
  <2>1. ExclusiveActivities'
    BY <1>1 DEF StartHost, Idle, SessionInv, ExclusiveActivities, HostIdle
  <2>2. QED
    BY <1>1, <2>1, NoEditorInv DEF StartHost
<1>2. ASSUME NEW ticket, StopHost \/ HostStarted(ticket) PROVE SessionInv'
  <2>1. /\ UNCHANGED <<pending, connected, ed, generation, recording, scan>>
        /\ ~HostIdle
    BY <1>2 DEF StopHost, HostStarted, HostIdle
  <2>2. ExclusiveActivities'
    BY <2>1 DEF SessionInv, ExclusiveActivities, HostIdle
  <2>3. QED
    BY <2>1, <2>2, NoEditorInv
<1>3. ASSUME NEW ticket, NEW result \in Writings("Lighting"), HostFinished(ticket, result)
      PROVE  SessionInv'
  <2> DEFINE starting == "Starting" \in {host.phase, host.source}
             e == Restored(ed["Lighting"], starting, result)
  <2>1. /\ "Lighting" \in Editors
        /\ ~HostIdle /\ pending = None /\ connected
        /\ ed' = [ed EXCEPT !["Lighting"] = e]
        /\ host'.phase = "Idle"
        /\ UNCHANGED <<pending, connected, generation, recording, scan>>
    BY <1>3 DEF HostActions, HostFinished, HostIdle, SessionInv, ExclusiveActivities
  <2>2. e \in EditorOf(SnapshotsOf("Lighting"), Values["Lighting"])
    <3>1. starting \in BOOLEAN
      OBVIOUS
    <3> HIDE DEF starting
    <3>2. QED
      BY <2>1, <3>1, RestoredTyped
  <2>3. e.submitted = None /\ (Ready(e) => e.baseline # None)
    <3>1. /\ ed["Lighting"].submitted = None
          /\ Ready(ed["Lighting"]) => ed["Lighting"].baseline # None
      BY <2>1, IdleHeld DEF Held
    <3>2. starting \in BOOLEAN
      OBVIOUS
    <3> HIDE DEF starting
    <3>3. QED
      BY <2>1, <3>1, <3>2, RestoredTyped
  <2>4. Held(ed')
    BY <2>1, <2>2, <2>3, IdleHeld, UpdateHeld
  <2>5. QED
    BY <2>1, <2>4 DEF Held, SessionInv, SubmittedIffSaving, Saving, ReadyIsConnected,
                      ExclusiveActivities, HostIdle
<1>4. QED
  BY <1>1, <1>2, <1>3 DEF HostActions

\* A completion spends the ticket it answers with the submission of its save.
LEMMA CompletionsInv == TypeOK /\ SessionInv /\ Completions => SessionInv'
<1> SUFFICES ASSUME TypeOK, SessionInv, Completions PROVE SessionInv'
  OBVIOUS
<1> USE DEF library, workflows, activities
<1>1. ASSUME NEW c, AcceptCatalog(c) PROVE SessionInv'
  <2>1. ExclusiveActivities'
    BY <1>1 DEF AcceptCatalog, SessionInv, ExclusiveActivities, HostIdle
  <2>2. QED
    BY <1>1, <2>1, NoEditorInv DEF AcceptCatalog
<1>2. ASSUME NEW c, AcceptArchive(c) PROVE SessionInv'
  <2>1. /\ pending # None /\ pending.feature = "Archive" /\ pending' = None
        /\ UNCHANGED <<connected, generation, ed, scan, recording, host>>
    BY <1>2 DEF AcceptArchive, Answers
  <2>2. SubmittedIffSaving'
    BY <2>1 DEF SessionInv, SubmittedIffSaving, Saving, Editors
  <2>3. ReadyIsConnected' /\ ExclusiveActivities'
    BY <2>1 DEF SessionInv, ReadyIsConnected, ExclusiveActivities, HostIdle
  <2>4. QED
    BY <2>2, <2>3 DEF SessionInv
<1>3. ASSUME NEW c, c.direction \in Directions, AcceptFeature(c) PROVE SessionInv'
  <2>1. PICK result \in Results(c.feature, c.direction) : Finish(c.feature, c.direction, result)
    BY <1>3 DEF AcceptFeature
  <2>2. /\ pending # None /\ pending.feature = c.feature /\ pending.direction = c.direction
        /\ c.feature \in Editors
        /\ UNCHANGED <<connected, generation, recording, host>>
    BY <1>3 DEF AcceptFeature, Answers
  <2>3. /\ Issued
        /\ scan' # None => scan # None /\ scan'.generation = scan.generation
    BY <1>3, <2>1, <2>2, FinishIssued
  <2>4. connected
    BY <2>2 DEF SessionInv, ExclusiveActivities
  <2>5. QED
    BY <2>2, <2>3, <2>4, IssuedInv
<1>4. QED
  BY <1>1, <1>2, <1>3 DEF Completions, Completion

\* Every step keeps the three invariants.
LEMMA StepInv == TypeOK /\ SessionInv /\ [Next]_vars => SessionInv'
<1>1. SessionInv /\ UNCHANGED vars => SessionInv'
  BY DEF SessionInv, SubmittedIffSaving, Saving, ReadyIsConnected, ExclusiveActivities, HostIdle,
         vars, library, workflows, activities
<1>2. QED
  BY <1>1, ConnectionsInv, ReadsInv, EditsInv, SavesInv, MacroActionsInv, PreparePictureInv,
     HostActionsInv, CompletionsInv DEF Next

\* Submissions match the save in flight, readiness needs a connection and the
\* activities exclude each other, in every reachable state.
THEOREM SessionInvariant == Spec => []SessionInv
BY InitInv, StepInv, TypeCorrect, PTL DEF Spec

\* A submission exists exactly while its write is in flight.
THEOREM SubmissionsAreInFlight == Spec => []SubmittedIffSaving
<1>1. SessionInv => SubmittedIffSaving
  BY DEF SessionInv
<1>2. QED
  BY <1>1, SessionInvariant, PTL

\* No cache passes for verified device state without a connection.
THEOREM ReadinessNeedsConnection == Spec => []ReadyIsConnected
<1>1. SessionInv => ReadyIsConnected
  BY DEF SessionInv
<1>2. QED
  BY <1>1, SessionInvariant, PTL

\* Host lighting, recording, catalog scan and device operation exclude each
\* other as their guards intend, in every order of calls and answers.
THEOREM ActivitiesExclude == Spec => []ExclusiveActivities
<1>1. SessionInv => ExclusiveActivities
  BY DEF SessionInv
<1>2. QED
  BY <1>1, SessionInvariant, PTL

-----------------------------------------------------------------------------
(* Host lighting and recording. *)

\* Each of the two runs on an editor that is verified and has a draft.
OwnershipInv ==
  /\ ~HostIdle => "Lighting" \in Editors
  /\ recording => "Macro" \in Editors
  /\ HostKeepsBaseline
  /\ RecorderHasDraft

\* Nothing is owned while neither runs.
LEMMA NothingOwned ==
  ASSUME HostIdle', ~recording'
  PROVE  OwnershipInv'
BY DEF OwnershipInv, HostKeepsBaseline, RecorderHasDraft

\* A step that begins or answers an operation finds neither running, and one
\* that leaves both alone starts neither.
LEMMA NothingRuns ==
  ASSUME SessionInv, Idle \/ pending # None, UNCHANGED <<host, recording>>
  PROVE  OwnershipInv'
<1>1. HostIdle /\ ~recording
  BY DEF Idle, SessionInv, ExclusiveActivities
<1>2. QED
  BY <1>1, NothingOwned DEF HostIdle

\* A step that leaves the editors and both activities alone.
LEMMA EditorsKept ==
  ASSUME OwnershipInv, UNCHANGED <<ed, host, recording>>
  PROVE  OwnershipInv'
BY DEF OwnershipInv, HostKeepsBaseline, RecorderHasDraft, HostIdle

\* Host lighting starts only on verified, unedited lighting, and its end
\* releases the editor.
LEMMA HostActionsOwned ==
  ASSUME TypeOK, SessionInv, OwnershipInv, HostActions
  PROVE  OwnershipInv'
<1>1. CASE StartHost
  <2>1. /\ "Lighting" \in Editors /\ Idle
        /\ Ready(ed["Lighting"]) /\ ~Dirty(ed["Lighting"]) /\ ed["Lighting"].draft # None
        /\ UNCHANGED <<ed, recording>>
    BY <1>1 DEF HostActions, StartHost
  <2>2. QED
    BY <2>1 DEF OwnershipInv, HostKeepsBaseline, RecorderHasDraft, Idle
<1>2. ASSUME NEW ticket, StopHost \/ HostStarted(ticket) PROVE OwnershipInv'
  <2>1. ~HostIdle /\ UNCHANGED <<ed, recording>>
    BY <1>2 DEF StopHost, HostStarted, HostIdle
  <2>2. QED
    BY <2>1 DEF OwnershipInv, HostKeepsBaseline, RecorderHasDraft
<1>3. ASSUME NEW ticket, NEW result, HostFinished(ticket, result) PROVE OwnershipInv'
  <2>1. ~HostIdle /\ HostIdle' /\ UNCHANGED recording
    BY <1>3 DEF HostFinished, HostIdle
  <2>2. ~recording
    BY <2>1 DEF SessionInv, ExclusiveActivities
  <2>3. QED
    BY <2>1, <2>2, NothingOwned
<1>4. QED
  BY <1>1, <1>2, <1>3 DEF HostActions

\* A recording starts only on a verified macro the editor can hold, and every
\* edge leaves it a draft; no other macro action runs beside it.
LEMMA MacroActionsOwned ==
  ASSUME TypeOK, SessionInv, OwnershipInv, MacroActions
  PROVE  OwnershipInv'
<1>0. /\ "Macro" \in Editors
      /\ ed["Macro"] \in EditorOf(SnapshotsOf("Macro"), Values["Macro"])
  BY DEF MacroActions, TypeOK, EditorsTyped
<1>1. ASSUME NEW s, SelectMacro(s) PROVE OwnershipInv'
  BY <1>1, NothingRuns DEF SelectMacro, activities
<1>2. CASE RequestCatalog \/ CancelCatalog \/ ConfigurationChanged
  BY <1>2, EditorsKept DEF RequestCatalog, CancelCatalog, ConfigurationChanged, activities
<1>3. CASE StartRecording
  <2>1. ed["Macro"].draft # None
    BY <1>0, <1>3, ValuesAssumption, FeatureValues DEF StartRecording
  <2>2. Ready(ed["Macro"]) /\ Idle /\ UNCHANGED <<ed, host>>
    BY <1>3 DEF StartRecording
  <2>3. QED
    BY <1>0, <2>1, <2>2 DEF OwnershipInv, HostKeepsBaseline, RecorderHasDraft, Idle, HostIdle
<1>4. ASSUME NEW next \in Values["Macro"], RecordInput(next) PROVE OwnershipInv'
  <2>1. /\ recording /\ UNCHANGED <<recording, host>>
        /\ ed' = [ed EXCEPT !["Macro"] = Stage(ed["Macro"], next)]
    BY <1>4 DEF RecordInput, OnlyEditors, activities
  <2>2. HostIdle
    BY <2>1 DEF SessionInv, ExclusiveActivities
  <2>3. ed'["Macro"] = Stage(ed["Macro"], next)
    BY <1>0, <2>1 DEF TypeOK, EditorsTyped
  <2>4. Ready(ed'["Macro"]) /\ ed'["Macro"].draft # None
    BY <1>0, <2>1, <2>3, StageType, FeatureValues DEF OwnershipInv, RecorderHasDraft, Ready
  <2>5. QED
    BY <1>0, <2>1, <2>2, <2>4 DEF OwnershipInv, HostKeepsBaseline, RecorderHasDraft, HostIdle
<1>5. ASSUME NEW next \in Values["Macro"], StopRecording(next) PROVE OwnershipInv'
  <2>1. HostIdle /\ UNCHANGED host /\ ~recording'
    BY <1>5 DEF StopRecording, SessionInv, ExclusiveActivities
  <2>2. QED
    BY <2>1, NothingOwned DEF HostIdle
<1>6. ASSUME NEW key, SaveAndAssign(key) PROVE OwnershipInv'
  BY <1>6, NothingRuns DEF SaveAndAssign, activities
<1>7. QED
  BY <1>1, <1>2, <1>3, <1>4, <1>5, <1>6 DEF MacroActions

\* No edit reaches an editor that host lighting or a recording owns, and a save
\* moves neither a draft nor a status.
LEMMA UserOwned ==
  ASSUME TypeOK, SessionInv, OwnershipInv, Edits \/ Saves
  PROVE  OwnershipInv'
<1>1. CASE Edits
  <2>1. ASSUME NEW f, EditableActivity(f) PROVE Idle \/ pending # None
    BY <2>1 DEF EditableActivity
  <2>2. (Idle \/ pending # None) /\ UNCHANGED <<host, recording>>
    BY <1>1, <2>1 DEF Edits, Edit, EditLighting, StageLighting, RevertEdit, OnlyEditors, activities
  <2>3. QED
    BY <2>2, NothingRuns
<1>2. ASSUME NEW f \in Editors, Save(f) PROVE OwnershipInv'
  <2>1. /\ Dirty(ed[f])
        /\ UNCHANGED <<host, recording>>
    BY <1>2 DEF Save, CanRequestApply, activities
  <2>2. CASE pending # None
    BY <2>1, <2>2, NothingRuns
  <2>3. CASE pending = None
    <3> DEFINE submitted == IF MayIssue THEN RequestApply(ed[f])
                                        ELSE CancelApply(RequestApply(ed[f]))
    <3>1. /\ ed[f] \in EditorOf(SnapshotsOf(f), Values[f])
          /\ EditorsTyped(ed)
      BY DEF TypeOK, EditorsTyped
    <3>2. ed' = [ed EXCEPT ![f] = submitted]
      BY <1>2, <2>3 DEF Save, SubmitWrite
    <3>3. \A g \in Editors : /\ ed'[g].status = ed[g].status
                             /\ ed'[g].draft = ed[g].draft
                             /\ ed'[g].baseline = ed[g].baseline
      BY <3>1, <3>2, RequestType, UpdateTyped
    <3>4. QED
      BY <2>1, <3>3 DEF OwnershipInv, HostKeepsBaseline, RecorderHasDraft, HostIdle, Ready, Dirty
  <2>4. QED
    BY <2>2, <2>3
<1>3. QED
  BY <1>1, <1>2 DEF Saves

\* A new session runs neither, and no step lets go of what they own.
LEMMA OwnershipStep ==
  /\ Init => OwnershipInv
  /\ TypeOK /\ SessionInv /\ OwnershipInv /\ [Next]_vars => OwnershipInv'
<1>1. Init => OwnershipInv
  BY DEF Init, OwnershipInv, HostKeepsBaseline, RecorderHasDraft, HostIdle
<1>2. ASSUME TypeOK, SessionInv, OwnershipInv, [Next]_vars PROVE OwnershipInv'
  <2>1. CASE Connections
    <3>1. CASE Connect
      BY <1>2, <3>1, NothingRuns DEF Connect, activities
    <3>2. CASE Disconnect
      BY <3>2, NothingOwned DEF Disconnect, HostIdle
    <3>3. QED
      BY <2>1, <3>1, <3>2 DEF Connections
  <2>2. CASE Reads
    <3>1. UNCHANGED <<ed, host, recording>>
      BY <2>2 DEF Reads, CaptureArchive, RefreshNext, Observe, Read, OnlyRequest, activities
    <3>2. QED
      BY <1>2, <3>1, EditorsKept
  <2>3. CASE PreparePicture
    BY <1>2, <2>3, NothingRuns DEF PreparePicture, activities
  <2>4. CASE Completions
    <3>1. ASSUME NEW c, AcceptCatalog(c) PROVE OwnershipInv'
      BY <1>2, <3>1, EditorsKept DEF AcceptCatalog, activities
    <3>2. ASSUME NEW c, AcceptArchive(c) \/ AcceptFeature(c) PROVE OwnershipInv'
      BY <1>2, <3>2, NothingRuns DEF AcceptArchive, AcceptFeature, Answers, activities
    <3>3. QED
      BY <2>4, <3>1, <3>2 DEF Completions
  <2>5. CASE UNCHANGED vars
    BY <1>2, <2>5, EditorsKept DEF vars, activities
  <2>6. QED
    BY <1>2, <2>1, <2>2, <2>3, <2>4, <2>5, HostActionsOwned, MacroActionsOwned, UserOwned DEF Next
<1>3. QED
  BY <1>1, <1>2

\* Host lighting and a recording own a verified editor with a draft for as long
\* as they run.
THEOREM OwnershipInvariant == Spec => []OwnershipInv
BY OwnershipStep, SessionInvariant, TypeCorrect, PTL DEF Spec

\* While host lighting runs, the lighting baseline is the verified and unedited
\* one it started from, so a restoration is compared with the right snapshot.
THEOREM HostOwnsBaseline == Spec => []HostKeepsBaseline
<1>1. OwnershipInv => HostKeepsBaseline
  BY DEF OwnershipInv
<1>2. QED
  BY <1>1, OwnershipInvariant, PTL

\* Every edge of a recording, and the releases of its end, find the verified
\* macro's draft.
THEOREM RecorderOwnsDraft == Spec => []RecorderHasDraft
<1>1. OwnershipInv => RecorderHasDraft
  BY DEF OwnershipInv
<1>2. QED
  BY <1>1, OwnershipInvariant, PTL

-----------------------------------------------------------------------------
(* The two workflows.  Each holds the ticket of its step, and the ticket    *)
(* keeps everyone but the editor being written away from what the next step *)
(* builds on.                                                               *)

WorkflowInv == AssignmentOwnsTicket /\ PreparationOwnsTicket

\* Neither workflow runs.
NoWorkflow == assignment = None /\ preparation = None

\* Nothing is owed to a workflow that does not run.
LEMMA EndedWorkflow == NoWorkflow' => WorkflowInv'
BY DEF NoWorkflow, WorkflowInv, AssignmentOwnsTicket, PreparationOwnsTicket

\* A workflow always waits for an answer, and only one of them does.
LEMMA WaitingWorkflow ==
  ASSUME TypeOK, WorkflowInv
  PROVE  /\ pending = None => NoWorkflow
         /\ assignment # None => preparation = None
<1>1. pending = None => NoWorkflow
  BY DEF WorkflowInv, AssignmentOwnsTicket, PreparationOwnsTicket, NoWorkflow
<1>2. assignment # None => pending.feature \in {"Macro", "Keymap"}
  BY DEF WorkflowInv, AssignmentOwnsTicket, Saving
<1>3. preparation # None => pending.feature \in {"Lighting", "Picture"}
  BY DEF WorkflowInv, PreparationOwnsTicket, Saving, TypeOK, PreparationSteps
<1>4. QED
  BY <1>1, <1>2, <1>3

\* A step that finds no operation in flight and starts no workflow.
LEMMA IdleWorkflow ==
  ASSUME TypeOK, WorkflowInv, pending = None, UNCHANGED workflows
  PROVE  WorkflowInv'
BY WaitingWorkflow, EndedWorkflow DEF NoWorkflow, workflows

\* A step that moves neither ticket nor workflow, and no editor but its
\* submission.
LEMMA WorkflowKept ==
  ASSUME TypeOK, WorkflowInv, UNCHANGED <<pending, assignment, preparation>>,
         \A f \in Editors : /\ ed'[f].status = ed[f].status
                            /\ ed'[f].draft = ed[f].draft
                            /\ ed'[f].baseline = ed[f].baseline
  PROVE  WorkflowInv'
<1>1. \A f \in Editors : (Ready(ed[f]) <=> Ready(ed'[f])) /\ (Dirty(ed[f]) <=> Dirty(ed'[f]))
  BY DEF Ready, Dirty
<1>2. AssignmentOwnsTicket'
  <2>1. assignment # None => {"Keymap", "Macro"} \subseteq Editors
    BY DEF TypeOK
  <2>2. QED
    BY <1>1, <2>1 DEF WorkflowInv, AssignmentOwnsTicket, Saving
<1>3. PreparationOwnsTicket'
  <2>1. preparation # None => "Picture" \in Editors /\ preparation \in PreparationSteps
    BY DEF TypeOK
  <2>2. QED
    BY <1>1, <2>1 DEF WorkflowInv, PreparationOwnsTicket, Saving, PreparationSteps
<1>4. QED
  BY <1>2, <1>3 DEF WorkflowInv

\* What a ticket handed out says.
LEMMA TicketIssued ==
  ASSUME TypeOK, MayIssue, NEW f \in Supported, NEW direction \in Directions,
         Begin(f, direction, FALSE)
  PROVE  /\ pending' # None /\ pending'.background = FALSE
         /\ pending'.feature = f /\ pending'.direction = direction
<1>1. pending' \in Tickets /\ pending' = Ticket(f, direction, FALSE)
  BY BeginTyped
<1>2. QED
  BY <1>1, NoneAssumption DEF Ticket

\* The write a workflow submits is in flight, and no other editor has moved.
LEMMA WriteOwned ==
  ASSUME TypeOK, MayIssue, NEW f \in Editors, NEW e \in EditorOf(SnapshotsOf(f), Values[f]),
         NEW editors, EditorsTyped(editors), SubmitWrite(f, e, editors)
  PROVE  /\ Saving(f)' /\ pending' # None /\ pending'.background = FALSE
         /\ \A g \in Editors \ {f} : ed'[g] = editors[g]
<1>1. /\ ed' = [editors EXCEPT ![f] = RequestApply(e)]
      /\ Begin(f, "Save", FALSE)
  BY DEF SubmitWrite
<1>2. \A g \in Editors \ {f} : ed'[g] = editors[g]
  BY <1>1, RequestType, UpdateTyped
<1>3. f \in Supported /\ "Save" \in Directions
  BY DEF Editors, Directions
<1>4. QED
  BY <1>1, <1>2, <1>3, TicketIssued DEF Saving

\* Save-and-assign begins beside no other workflow and holds the keymap, or the
\* macro, its next step builds on.
LEMMA SaveAndAssignOwned ==
  ASSUME TypeOK, WorkflowInv, {"Keymap", "Macro"} \subseteq Editors, NEW key \in Keys,
         SaveAndAssign(key)
  PROVE  WorkflowInv'
<1> DEFINE bound == Bound(ed["Keymap"], key)
<1>1. /\ pending = None /\ preparation' = preparation
      /\ Ready(ed["Keymap"]) /\ ~Dirty(ed["Keymap"]) /\ Ready(ed["Macro"])
  BY DEF SaveAndAssign, Idle
<1>2. preparation' = None
  BY <1>1, WaitingWorkflow DEF NoWorkflow
<1>3. /\ ed["Macro"] \in EditorOf(SnapshotsOf("Macro"), Values["Macro"])
      /\ ed["Keymap"] \in EditorOf(SnapshotsOf("Keymap"), Values["Keymap"])
      /\ EditorsTyped(ed)
  BY DEF TypeOK, EditorsTyped
<1>4. CASE ~MayIssue
  <2>1. assignment' = None
    BY <1>4 DEF SaveAndAssign
  <2>2. QED
    BY <1>2, <2>1, EndedWorkflow DEF NoWorkflow
<1>5. CASE MayIssue /\ Dirty(ed["Macro"])
  <2>1. /\ SubmitWrite("Macro", ed["Macro"], ed)
        /\ assignment'.step = "SavingMacro"
    BY <1>5 DEF SaveAndAssign
  <2>2. /\ Saving("Macro")' /\ pending' # None /\ pending'.background = FALSE
        /\ ed'["Keymap"] = ed["Keymap"]
    BY <1>3, <1>5, <2>1, WriteOwned, ZenonT(60)
  <2>3. QED
    BY <1>1, <1>2, <2>1, <2>2 DEF WorkflowInv, AssignmentOwnsTicket, PreparationOwnsTicket
<1>6. CASE MayIssue /\ ~Dirty(ed["Macro"])
  <2>1. /\ SubmitWrite("Keymap", bound, ed) /\ ed["Keymap"].draft # None
        /\ assignment'.step = "Assigning"
    BY <1>6 DEF SaveAndAssign
  <2>2. bound \in EditorOf(SnapshotsOf("Keymap"), Values["Keymap"])
    BY <1>3, <2>1, BoundTyped
  <2>3. /\ Saving("Keymap")' /\ pending' # None /\ pending'.background = FALSE
        /\ ed'["Macro"] = ed["Macro"]
    <3>1. /\ "Keymap" \in Editors /\ "Macro" \in Editors \ {"Keymap"}
          /\ MayIssue /\ SubmitWrite("Keymap", bound, ed)
      BY <1>6, <2>1
    <3> HIDE DEF bound
    <3>2. EditorsTyped(ed)
      BY <1>3
    <3>3. /\ Saving("Keymap")' /\ pending' # None /\ pending'.background = FALSE
          /\ \A g \in Editors \ {"Keymap"} : ed'[g] = ed[g]
      BY <2>2, <3>1, <3>2, WriteOwned, ZenonT(60)
    <3>4. QED
      BY <3>1, <3>3
  <2>4. ~Dirty(ed'["Macro"]) /\ Ready(ed'["Macro"])
    BY <1>1, <1>6, <2>3
  <2>5. QED
    BY <1>2, <2>1, <2>3, <2>4 DEF WorkflowInv, AssignmentOwnsTicket, PreparationOwnsTicket
<1>7. QED
  BY <1>4, <1>5, <1>6

\* The second step of save-and-assign follows only a macro that was verified.
LEMMA AdvanceAssignmentOwned ==
  ASSUME TypeOK, assignment # None, preparation' = None, NEW editors, EditorsTyped(editors),
         NEW f \in Editors, NEW direction \in Directions,
         AdvanceAssignment(editors, f, direction)
  PROVE  WorkflowInv'
<1>1. assignment \in Assignments /\ "Keymap" \in Editors
  BY DEF TypeOK
<1>2. CASE assignment' = None
  BY <1>2, EndedWorkflow DEF NoWorkflow
<1>3. CASE assignment' # None
  <2> DEFINE keymap == editors["Keymap"]
             bound == Bound(keymap, assignment.key)
  <2>1. /\ f = "Macro" /\ Outcome(editors["Macro"]) = "Success" /\ AssignKey(editors)
    BY <1>3 DEF AdvanceAssignment
  <2>2. /\ SubmitWrite("Keymap", bound, editors) /\ keymap.draft # None /\ MayIssue
        /\ assignment' = [assignment EXCEPT !.step = "Assigning", !.macroSaved = TRUE]
    BY <1>3, <2>1 DEF AssignKey
  <2>3. bound \in EditorOf(SnapshotsOf("Keymap"), Values["Keymap"])
    BY <1>1, <2>2, BoundTyped DEF Assignments, EditorsTyped
  <2>4. /\ Saving("Keymap")' /\ pending' # None /\ pending'.background = FALSE
        /\ ed'["Macro"] = editors["Macro"]
    <3>1. /\ "Keymap" \in Editors /\ "Macro" \in Editors \ {"Keymap"}
          /\ MayIssue /\ SubmitWrite("Keymap", bound, editors)
      BY <1>1, <2>1, <2>2
    <3> HIDE DEF bound
    <3>2. QED
      BY <2>3, <3>1, WriteOwned
  <2>5. Ready(ed'["Macro"])
    BY <2>1, <2>4 DEF Outcome, Ready
  <2>6. assignment'.step = "Assigning" /\ assignment'.macroSaved
    BY <1>1, <2>2 DEF Assignments
  <2>7. QED
    BY <2>4, <2>5, <2>6 DEF WorkflowInv, AssignmentOwnsTicket, PreparationOwnsTicket
<1>4. QED
  BY <1>2, <1>3

\* Picture preparation begins an operation only when no colours are unsaved.
LEMMA BeginPreparationOwned ==
  ASSUME TypeOK, {"Lighting", "Picture"} \subseteq Editors, assignment' = None,
         NEW editors, EditorsTyped(editors), NEW plan,
         plan \in {"ReadLighting", "SaveLighting", "ReadPicture"} => ~Dirty(editors["Picture"]),
         BeginPreparation(plan, editors)
  PROVE  WorkflowInv'
<1>1. /\ {"Lighting", "Picture"} \subseteq Supported
      /\ "Read" \in Directions
  BY DEF Editors, Directions
<1>2. CASE preparation' = None
  BY <1>2, EndedWorkflow DEF NoWorkflow
<1>3. CASE plan = "ReadLighting" /\ MayIssue
  <2>1. ed' = editors /\ Begin("Lighting", "Read", FALSE) /\ preparation' = "ReadingLighting"
    BY <1>3 DEF BeginPreparation
  <2>2. QED
    BY <1>1, <1>3, <2>1, TicketIssued
       DEF WorkflowInv, AssignmentOwnsTicket, PreparationOwnsTicket
<1>4. CASE plan = "ReadPicture" /\ MayIssue
  <2>1. ed' = editors /\ Begin("Picture", "Read", FALSE) /\ preparation' = "ReadingPicture"
    BY <1>4 DEF BeginPreparation
  <2>2. QED
    BY <1>1, <1>4, <2>1, TicketIssued
       DEF WorkflowInv, AssignmentOwnsTicket, PreparationOwnsTicket
<1>5. CASE plan = "SaveLighting" /\ MayIssue
  <2> DEFINE staged == Stage(editors["Lighting"], PictureDefault)
  <2>1. staged \in EditorOf(SnapshotsOf("Lighting"), Values["Lighting"])
    BY ValuesAssumption, StageType DEF EditorsTyped
  <2>2. SubmitWrite("Lighting", staged, editors) /\ preparation' = "SavingLighting"
    BY <1>5 DEF BeginPreparation
  <2>3. /\ Saving("Lighting")' /\ pending' # None /\ pending'.background = FALSE
        /\ ed'["Picture"] = editors["Picture"]
    BY <1>5, <2>1, <2>2, WriteOwned
  <2>4. QED
    BY <1>5, <2>2, <2>3 DEF WorkflowInv, AssignmentOwnsTicket, PreparationOwnsTicket
<1>6. QED
  BY <1>2, <1>3, <1>4, <1>5 DEF BeginPreparation

\* What the plan starts finds the picture without unsaved colours.
LEMMA PlanOwned ==
  ASSUME NEW lighting, NEW picture,
         PreparationPlan(lighting, picture) \in {"ReadLighting", "SaveLighting", "ReadPicture"}
  PROVE  ~Dirty(picture)
BY DEF PreparationPlan, PreparationStep

\* The answer a workflow waits for, and the step that follows it.
LEMMA FinishOwned ==
  ASSUME TypeOK, WorkflowInv, NEW f \in Editors, NEW direction \in Directions,
         NEW result \in Results(f, direction), Finish(f, direction, result)
  PROVE  WorkflowInv'
<1> DEFINE editors == EditorsAfter(f, direction, result)
<1>1. EditorsTyped(editors)
  BY EditorsAfterTyped
<1>2. CASE assignment # None
  <2>1. AdvanceAssignment(editors, f, direction) /\ preparation' = None
    BY <1>2, WaitingWorkflow DEF Finish
  <2>2. QED
    BY <1>1, <1>2, <2>1, AdvanceAssignmentOwned
<1>3. CASE assignment = None /\ preparation # None
  <2>1. AdvancePreparation(editors, f, direction) /\ assignment' = None
    BY <1>3 DEF Finish
  <2>2. {"Lighting", "Picture"} \subseteq Editors
    BY <1>3 DEF TypeOK
  <2>3. CASE preparation' = None
    BY <2>1, <2>3, EndedWorkflow DEF NoWorkflow
  <2>4. CASE BeginPreparation(PreparationPlan(editors["Lighting"], editors["Picture"]), editors)
    BY <1>1, <2>1, <2>2, <2>4, PlanOwned, BeginPreparationOwned
  <2>5. CASE f = "Lighting" /\ BeginPreparation("ReadPicture", editors)
    <3>1. ~Dirty(ed["Picture"])
      BY <1>3 DEF WorkflowInv, PreparationOwnsTicket
    <3>2. editors["Picture"] \in {ed["Picture"], Invalidate(ed["Picture"])}
      BY <2>2, <2>5 DEF EditorsAfter
    <3>3. ed["Picture"] \in EditorOf(SnapshotsOf("Picture"), Values["Picture"])
      BY <2>2 DEF TypeOK, EditorsTyped
    <3>4. ~Dirty(editors["Picture"])
      BY <3>1, <3>2, <3>3 DEF Dirty, Invalidate, EditorOf
    <3>5. QED
      BY <1>1, <2>1, <2>2, <2>5, <3>4, BeginPreparationOwned
  <2>6. QED
    BY <2>1, <2>3, <2>4, <2>5 DEF AdvancePreparation
<1>4. CASE NoWorkflow
  <2>1. NoWorkflow'
    BY <1>4 DEF Finish, NoWorkflow
  <2>2. QED
    BY <2>1, EndedWorkflow
<1>5. QED
  BY <1>2, <1>3, <1>4 DEF NoWorkflow

\* Edits reach only the editor a workflow is writing, and a save beside its
\* operation is taken back.
LEMMA UserWorkflow ==
  ASSUME TypeOK, SessionInv, WorkflowInv, Edits \/ Saves
  PROVE  WorkflowInv'
<1>1. CASE pending = None
  <2>1. UNCHANGED workflows
    BY DEF Edits, Edit, EditLighting, StageLighting, RevertEdit, OnlyEditors, Saves, Save
  <2>2. QED
    BY <1>1, <2>1, IdleWorkflow
<1>2. ASSUME pending # None, NEW f \in Editors, EditableActivity(f), OnlyEditors,
             NEW next \in Values[f], ed' = [ed EXCEPT ![f] = Stage(ed[f], next)]
      PROVE  WorkflowInv'
  <2>1. /\ preparation = None
        /\ pending.background \/ pending.feature = f
        /\ UNCHANGED <<pending, assignment, preparation>>
    BY <1>2 DEF EditableActivity, Idle, OnlyEditors, workflows
  <2>2. CASE assignment = None
    BY <2>1, <2>2, EndedWorkflow DEF NoWorkflow
  <2>3. CASE assignment # None
    <3>1. pending.feature = f
      BY <2>1, <2>3 DEF WorkflowInv, AssignmentOwnsTicket
    <3>2. {"Keymap", "Macro"} \subseteq Editors
      BY <2>3 DEF TypeOK
    <3>3. \A g \in Editors \ {f} : ed'[g] = ed[g]
      BY <1>2 DEF TypeOK, EditorsTyped
    <3>4. QED
      BY <2>1, <3>1, <3>2, <3>3
         DEF WorkflowInv, AssignmentOwnsTicket, PreparationOwnsTicket, Saving
  <2>4. QED
    BY <2>2, <2>3
<1>3. ASSUME pending # None, NEW f \in Editors, Save(f) PROVE WorkflowInv'
  <2>1. /\ ed' = [ed EXCEPT ![f] = CancelApply(RequestApply(ed[f]))]
        /\ UNCHANGED <<pending, assignment, preparation>>
    BY <1>3 DEF Save, workflows
  <2>2. ed[f] \in EditorOf(SnapshotsOf(f), Values[f]) /\ EditorsTyped(ed)
    BY DEF TypeOK, EditorsTyped
  <2>3. \A g \in Editors : /\ ed'[g].status = ed[g].status
                           /\ ed'[g].draft = ed[g].draft
                           /\ ed'[g].baseline = ed[g].baseline
    BY <2>1, <2>2, RequestType, UpdateTyped
  <2>4. QED
    BY <2>1, <2>3, WorkflowKept
<1>4. ASSUME pending # None, Edits PROVE WorkflowInv'
  <2>1. ASSUME NEW f, RevertEdit(f) PROVE FALSE
    BY <1>4, <2>1 DEF RevertEdit, Idle
  <2>2. QED
    BY <1>2, <1>4, <2>1 DEF Edits, Edit, EditLighting, StageLighting
<1>5. QED
  BY <1>1, <1>3, <1>4 DEF Saves

\* Macro actions leave a running workflow alone.
LEMMA MacroActionsWorkflow ==
  ASSUME TypeOK, SessionInv, WorkflowInv, MacroActions
  PROVE  WorkflowInv'
<1>1. ASSUME NEW s, SelectMacro(s) PROVE WorkflowInv'
  BY <1>1, IdleWorkflow DEF SelectMacro, Idle
<1>2. CASE RequestCatalog \/ CancelCatalog \/ ConfigurationChanged
  BY <1>2, WorkflowKept DEF RequestCatalog, CancelCatalog, ConfigurationChanged, workflows
<1>3. CASE StartRecording
  BY <1>3, IdleWorkflow DEF StartRecording, Idle
<1>4. ASSUME NEW next, RecordInput(next) \/ StopRecording(next) PROVE WorkflowInv'
  <2>1. pending = None /\ UNCHANGED workflows
    BY <1>4 DEF RecordInput, StopRecording, OnlyEditors, SessionInv, ExclusiveActivities
  <2>2. QED
    BY <2>1, IdleWorkflow
<1>5. QED
  BY <1>1, <1>2, <1>3, <1>4, SaveAndAssignOwned DEF MacroActions

\* No workflow runs in a new session, and every step keeps what a running one
\* holds.
LEMMA WorkflowStep ==
  /\ Init => WorkflowInv
  /\ TypeOK /\ SessionInv /\ WorkflowInv /\ [Next]_vars => WorkflowInv'
<1>1. Init => WorkflowInv
  BY DEF Init, WorkflowInv, AssignmentOwnsTicket, PreparationOwnsTicket
<1>2. ASSUME TypeOK, SessionInv, WorkflowInv, [Next]_vars PROVE WorkflowInv'
  <2>1. CASE Connections
    <3>1. CASE Connect
      BY <1>2, <3>1, IdleWorkflow DEF Connect, Idle
    <3>2. CASE Disconnect
      BY <3>2, EndedWorkflow DEF Disconnect, NoWorkflow
    <3>3. QED
      BY <2>1, <3>1, <3>2 DEF Connections
  <2>2. CASE Reads
    <3>1. pending = None /\ UNCHANGED workflows
      BY <2>2 DEF Reads, CaptureArchive, RefreshNext, Observe, Read, CanBegin, OnlyRequest
    <3>2. QED
      BY <1>2, <3>1, IdleWorkflow
  <2>3. CASE {"Lighting", "Picture"} \subseteq Editors /\ PreparePicture
    <3>1. /\ assignment' = None
          /\ BeginPreparation(PreparationPlan(ed["Lighting"], ed["Picture"]), ed)
      BY <1>2, <2>3, WaitingWorkflow DEF PreparePicture, Idle, NoWorkflow
    <3>2. EditorsTyped(ed)
      BY <1>2 DEF TypeOK
    <3>3. QED
      BY <1>2, <2>3, <3>1, <3>2, PlanOwned, BeginPreparationOwned
  <2>4. CASE HostActions
    <3>1. pending = None /\ UNCHANGED workflows
      BY <1>2, <2>4 DEF HostActions, StartHost, Idle, StopHost, HostStarted, HostFinished,
                        SessionInv, ExclusiveActivities, HostIdle
    <3>2. QED
      BY <1>2, <3>1, IdleWorkflow
  <2>5. CASE Completions
    <3>1. ASSUME NEW c, AcceptCatalog(c) PROVE WorkflowInv'
      BY <1>2, <3>1, WorkflowKept DEF AcceptCatalog, workflows
    <3>2. ASSUME NEW c, AcceptArchive(c) PROVE WorkflowInv'
      BY <3>2, EndedWorkflow DEF AcceptArchive, NoWorkflow
    <3>3. ASSUME NEW c, c.direction \in Directions, AcceptFeature(c) PROVE WorkflowInv'
      BY <1>2, <3>3, FinishOwned DEF AcceptFeature
    <3>4. QED
      BY <2>5, <3>1, <3>2, <3>3 DEF Completions, Completion
  <2>6. CASE UNCHANGED vars
    BY <1>2, <2>6, WorkflowKept DEF vars, workflows
  <2>7. QED
    BY <1>2, <2>1, <2>2, <2>3, <2>4, <2>5, <2>6, UserWorkflow, MacroActionsWorkflow DEF Next
<1>3. QED
  BY <1>1, <1>2

\* Each workflow holds the ticket of its step for as long as it runs.
THEOREM WorkflowInvariant == Spec => []WorkflowInv
BY WorkflowStep, SessionInvariant, TypeCorrect, PTL DEF Spec

\* Save-and-assign waits for its own write, and the keymap or macro its next
\* step builds on stays verified and unedited until then.
THEOREM AssignmentHoldsTicket == Spec => []AssignmentOwnsTicket
<1>1. WorkflowInv => AssignmentOwnsTicket
  BY DEF WorkflowInv
<1>2. QED
  BY <1>1, WorkflowInvariant, PTL

\* Picture preparation waits for its own operation, and no colours become
\* unsaved while it runs.
THEOREM PreparationHoldsTicket == Spec => []PreparationOwnsTicket
<1>1. WorkflowInv => PreparationOwnsTicket
  BY DEF WorkflowInv
<1>2. QED
  BY <1>1, WorkflowInvariant, PTL
-----------------------------------------------------------------------------
(* The picture and its layer: the inductive invariant, in terms of the two
   editors. *)

\* Unsaved colours and an unsaved change of their layer do not coexist.
Aligned(lighting, picture) ==
  ~ /\ Dirty(picture)
    /\ lighting.baseline # None /\ lighting.baseline.value # None /\ lighting.draft # None
    /\ Selector(lighting.draft) # Selector(lighting.baseline.value)

\* An editor whose baseline has a value, or which has submitted one, has a draft.
Drafted(e) ==
  /\ e.baseline # None /\ e.baseline.value # None => e.draft # None
  /\ e.submitted # None => e.draft # None

\* Lighting is what the colours were edited for.
Settled(lighting, picture) ==
  lighting.baseline # None =>
    /\ Ready(lighting) /\ ~SelectorPending(lighting)
    /\ picture.baseline.context = lighting.baseline.context

\* The submitted lighting keeps the effect and option of the baseline.
Pinned(lighting) ==
  /\ lighting.baseline # None /\ lighting.baseline.value # None
  /\ Selector(lighting.submitted) = Selector(lighting.baseline.value)

Layered == {"Lighting", "Picture"} \subseteq Editors

PictureInv ==
  Layered =>
    /\ Aligned(ed["Lighting"], ed["Picture"])
    /\ Drafted(ed["Lighting"])
    /\ pending # None /\ pending.direction = "Save" => ~pending.background
    /\ Saving("Picture") => Settled(ed["Lighting"], ed["Picture"])
    /\ Saving("Lighting") /\ Dirty(ed["Picture"]) => Pinned(ed["Lighting"])

\* A save is of a feature with an editor.
LEMMA SavingEditor ==
  ASSUME TypeOK, NEW f, f # "Archive", Saving(f)
  PROVE  f \in Editors
BY DEF TypeOK, Tickets, Saving, Editors

\* The invariant says what the three properties promise.
LEMMA PictureInvImplies ==
  ASSUME TypeOK, PictureInv
  PROVE  SelectorEditsExclusive /\ PictureSavedInContext /\ SelectorSavedAlone
<1>1. SelectorEditsExclusive
  BY DEF PictureInv, Layered, Aligned, SelectorEditsExclusive
<1>2. PictureSavedInContext
  BY SavingEditor DEF PictureInv, Layered, Settled, PictureSavedInContext
<1>3. SelectorSavedAlone
  BY SavingEditor DEF PictureInv, Layered, Pinned, SelectorSavedAlone, BaselineSelector
<1>4. QED
  BY <1>1, <1>2, <1>3

-----------------------------------------------------------------------------
(* What the operations of an editor do to alignment. *)

\* Only baselines and drafts matter.
LEMMA SameContent ==
  ASSUME NEW lighting, NEW picture, NEW lighting2, NEW picture2,
         lighting2.baseline = lighting.baseline, lighting2.draft = lighting.draft,
         picture2.baseline = picture.baseline, picture2.draft = picture.draft
  PROVE  Aligned(lighting2, picture2) <=> Aligned(lighting, picture)
BY DEF Aligned, Dirty

\* Invalidating moves neither baseline, draft nor submission.
LEMMA InvalidateContent ==
  ASSUME NEW S, NEW V, NEW e \in EditorOf(S, V)
  PROVE  /\ Invalidate(e).baseline = e.baseline
         /\ Invalidate(e).draft = e.draft
         /\ Invalidate(e).submitted = e.submitted
BY DEF Invalidate, EditorOf

\* The answer to a read leaves a draft that was edited on the baseline it was
\* edited on, or takes draft and baseline from one snapshot.
LEMMA ReadContent ==
  ASSUME NEW S, NEW V, NEW e \in EditorOf(S, V), NEW result
  PROVE  LET read == ReadResult(e, result)
         IN /\ read.submitted = e.submitted
            /\ \/ read.baseline = e.baseline /\ read.draft = e.draft
               \/ read.draft = read.baseline.value
BY DEF ReadResult, EditorOf

\* The answer to a write never moves the draft, and moves the baseline only to
\* the value that was submitted.
LEMMA ApplyContent ==
  ASSUME NEW S, NEW V, NEW e \in EditorOf(S, V), NEW result,
         result.kind \in {"ok", "error", "invalid"}
  PROVE  LET applied == ApplyResult(e, result)
         IN /\ applied.submitted = None
            /\ applied.draft = e.draft
            /\ \/ applied.baseline = e.baseline
               \/ /\ e.submitted # None
                  /\ applied.baseline.value = e.submitted
<1>1. ApplyStatus(e, result) = "Ready" =>
        e.submitted # None /\ result.snapshot.value = e.submitted
  BY DEF ApplyStatus
<1>2. QED
  BY <1>1 DEF ApplyResult, EditorOf

\* Lighting read again stays aligned with the colours.
LEMMA ReadAligned ==
  ASSUME NEW S, NEW V, NEW lighting \in EditorOf(S, V), NEW picture, NEW result,
         Aligned(lighting, picture), Drafted(lighting)
  PROVE  /\ Aligned(ReadResult(lighting, result), picture)
         /\ lighting.submitted = None => Drafted(ReadResult(lighting, result))
<1> DEFINE read == ReadResult(lighting, result)
<1>1. /\ read.submitted = lighting.submitted
      /\ \/ read.baseline = lighting.baseline /\ read.draft = lighting.draft
         \/ read.draft = read.baseline.value
  BY ReadContent
<1> HIDE DEF read
<1>2. Aligned(read, picture) /\ (lighting.submitted = None => Drafted(read))
  BY <1>1 DEF Aligned, Drafted
<1>3. QED
  BY <1>2 DEF read

\* An answered lighting write stays aligned with unsaved colours when the
\* submission was pinned to their layer.
LEMMA ApplyAligned ==
  ASSUME NEW S, NEW V, NEW lighting \in EditorOf(S, V), NEW picture, NEW result,
         result.kind \in {"ok", "error", "invalid"},
         Aligned(lighting, picture), Drafted(lighting),
         Dirty(picture) => Pinned(lighting) \/ lighting.submitted = None
  PROVE  /\ Aligned(ApplyResult(lighting, result), picture)
         /\ Drafted(ApplyResult(lighting, result))
<1> DEFINE applied == ApplyResult(lighting, result)
<1>1. /\ applied.submitted = None
      /\ applied.draft = lighting.draft
      /\ \/ applied.baseline = lighting.baseline
         \/ /\ lighting.submitted # None
            /\ applied.baseline.value = lighting.submitted
  BY ApplyContent
<1> HIDE DEF applied
<1>2. Aligned(applied, picture) /\ Drafted(applied)
  BY <1>1 DEF Aligned, Drafted, Pinned
<1>3. QED
  BY <1>2 DEF applied

-----------------------------------------------------------------------------
(* One step per operation. *)

\* The two editors are typed.
LEMMA LayeredTyped ==
  ASSUME TypeOK, Layered
  PROVE  /\ "Lighting" \in Editors /\ "Picture" \in Editors /\ EditorsTyped(ed)
         /\ ed["Lighting"] \in EditorOf(SnapshotsOf("Lighting"), Values["Lighting"])
         /\ ed["Picture"] \in EditorOf(SnapshotsOf("Picture"), Values["Picture"])
BY DEF TypeOK, EditorsTyped, Layered

\* A step after which neither editor is being written.
LEMMA Unwritten ==
  ASSUME Layered => Aligned(ed'["Lighting"], ed'["Picture"]) /\ Drafted(ed'["Lighting"]),
         \/ pending' = None
         \/ pending'.direction = "Read"
         \/ ~pending'.background /\ pending'.feature \notin {"Lighting", "Picture"}
  PROVE  PictureInv'
BY DEF PictureInv, Layered, Saving

\* A step that leaves the ticket and the two editors alone, but for a draft
\* that no rule here is about.
LEMMA Untouched ==
  ASSUME PictureInv, UNCHANGED pending,
         Layered => ed'["Lighting"] = ed["Lighting"] /\ ed'["Picture"] = ed["Picture"]
  PROVE  PictureInv'
BY DEF PictureInv, Layered, Saving

\* A reading begun on editors that are aligned.
LEMMA ReadBegun ==
  ASSUME NEW editors, Layered => Aligned(editors["Lighting"], editors["Picture"])
                                 /\ Drafted(editors["Lighting"]),
         ed' = editors, NEW f, NEW background, Begin(f, "Read", background)
  PROVE  PictureInv'
<1>1. pending'.direction = "Read"
  BY DEF Begin, Ticket
<1>2. QED
  BY <1>1, Unwritten

\* Settling editors that are aligned.
LEMMA SettledAligned ==
  ASSUME NEW editors, Layered => Aligned(editors["Lighting"], editors["Picture"])
                                 /\ Drafted(editors["Lighting"]),
         Settle(editors)
  PROVE  PictureInv'
<1>1. ed' = editors /\ pending' = None
  BY DEF Settle
<1>2. QED
  BY <1>1, Unwritten

\* Submitting a write of e, whose rule was checked, on aligned editors.
LEMMA WriteSubmitted ==
  ASSUME TypeOK, NEW editors, EditorsTyped(editors), NEW f \in Editors,
         NEW e \in EditorOf(SnapshotsOf(f), Values[f]), SubmitWrite(f, e, editors),
         NEW lighting, NEW picture,
         lighting = IF f = "Lighting" THEN e ELSE editors["Lighting"],
         picture = IF f = "Picture" THEN e ELSE editors["Picture"],
         Layered =>
           /\ Aligned(lighting, picture)
           /\ Drafted(lighting)
           /\ f = "Picture" => Settled(lighting, picture)
           /\ f = "Lighting" =>
                /\ e.draft # None
                /\ Dirty(picture) => Pinned(RequestApply(lighting))
  PROVE  PictureInv'
<1> DEFINE written == IF MayIssue THEN RequestApply(e) ELSE CancelApply(RequestApply(e))
<1>1. /\ written \in EditorOf(SnapshotsOf(f), Values[f])
      /\ written.status = e.status /\ written.baseline = e.baseline /\ written.draft = e.draft
      /\ written.submitted = IF MayIssue THEN e.draft ELSE None
  BY RequestType
<1>2. ed' = [editors EXCEPT ![f] = written]
  BY DEF SubmitWrite
<1> HIDE DEF written
<1>3. ed'[f] = written /\ \A g \in Editors \ {f} : ed'[g] = editors[g]
  BY <1>1, <1>2, UpdateTyped
<1>4. ASSUME Layered
      PROVE  /\ Aligned(ed'["Lighting"], ed'["Picture"]) /\ Drafted(ed'["Lighting"])
             /\ MayIssue /\ f = "Picture" => Settled(ed'["Lighting"], ed'["Picture"])
             /\ MayIssue /\ f = "Lighting" /\ Dirty(ed'["Picture"]) => Pinned(ed'["Lighting"])
  <2>1. CASE f = "Lighting"
    <3>1. ed'["Lighting"] = written /\ ed'["Picture"] = picture /\ lighting = e
      BY <1>3, <1>4, <2>1 DEF Layered
    <3>2. Aligned(written, picture)
      BY <1>1, <1>4, <3>1, SameContent
    <3>3. Drafted(written)
      BY <1>1, <1>4, <2>1, <3>1 DEF Drafted
    <3>4. MayIssue /\ Dirty(picture) => Pinned(written)
      BY <1>1, <1>4, <2>1, <3>1, RequestType DEF Pinned
    <3>5. QED
      BY <2>1, <3>1, <3>2, <3>3, <3>4
  <2>2. CASE f = "Picture"
    <3>1. ed'["Lighting"] = lighting /\ ed'["Picture"] = written /\ picture = e
      BY <1>3, <1>4, <2>2 DEF Layered
    <3>2. Aligned(lighting, written)
      BY <1>1, <1>4, <3>1, SameContent
    <3>3. Settled(lighting, written)
      BY <1>1, <1>4, <2>2, <3>1 DEF Settled
    <3>4. QED
      BY <1>4, <2>2, <3>1, <3>2, <3>3
  <2>3. CASE f \notin {"Lighting", "Picture"}
    BY <1>3, <1>4, <2>3 DEF Layered
  <2>4. QED
    BY <2>1, <2>2, <2>3
<1>5. CASE ~MayIssue
  <2>1. pending' = None
    BY <1>5 DEF SubmitWrite
  <2>2. QED
    BY <1>4, <2>1, Unwritten
<1>6. CASE MayIssue
  <2>1. Begin(f, "Save", FALSE) /\ f \in Supported /\ "Save" \in Directions
    BY <1>6 DEF SubmitWrite, Editors, Directions
  <2>2. pending' # None /\ ~pending'.background /\ pending'.feature = f
    BY <1>6, <2>1, TicketIssued
  <2>3. QED
    BY <1>4, <1>6, <2>2 DEF PictureInv, Layered, Saving
<1>7. QED
  BY <1>5, <1>6

\* The loss of the connection moves no baseline, and no draft but that of the
\* macro being recorded.
LEMMA AbandonedContent ==
  ASSUME TypeOK, NEW f \in Editors, f = "Macro" => ~recording, NEW recorded
  PROVE  /\ Abandoned(f, recorded).baseline = ed[f].baseline
         /\ Abandoned(f, recorded).draft = ed[f].draft
         /\ Abandoned(f, recorded).submitted \in {ed[f].submitted, None}
<1> DEFINE S == SnapshotsOf(f)
           V == Values[f]
           Kept(e) == /\ e \in EditorOf(S, V)
                      /\ e.baseline = ed[f].baseline /\ e.draft = ed[f].draft
                      /\ e.submitted \in {ed[f].submitted, None}
           hosted == IF f = "Lighting" /\ ~HostIdle THEN ApplyResult(ed[f], LostWrite) ELSE ed[f]
           failed == IF pending # None /\ pending.direction = "Save" /\ pending.feature = f
                       THEN ApplyResult(hosted, LostWrite) ELSE hosted
<1>1. ed[f] \in EditorOf(S, V)
  BY DEF TypeOK, EditorsTyped
<1>2. ASSUME NEW e, Kept(e) PROVE Kept(ApplyResult(e, LostWrite))
  <2>1. ApplyStatus(e, LostWrite) = "Apply"
    BY DEF ApplyStatus, LostWrite
  <2>2. QED
    BY <1>2, <2>1 DEF ApplyResult, EditorOf, Status, Unverified, WriteProblems
<1>3. Kept(hosted)
  BY <1>1, <1>2
<1>4. Kept(failed)
  BY <1>2, <1>3
<1>5. Abandoned(f, recorded) = Invalidate(failed)
  BY DEF Abandoned
<1> HIDE DEF failed
<1>6. QED
  BY <1>4, <1>5, InvalidateContent

\* Connecting and disconnecting move nothing that was edited.
LEMMA ConnectionsPicture ==
  ASSUME TypeOK, PictureInv, Connections
  PROVE  PictureInv'
<1>1. pending' = None
  BY DEF Connections, Connect, Idle, Disconnect
<1>2. ASSUME Layered
      PROVE  \A f \in {"Lighting", "Picture"} :
               /\ ed'[f].baseline = ed[f].baseline
               /\ ed'[f].draft = ed[f].draft
               /\ ed'[f].submitted \in {ed[f].submitted, None}
  <2>1. CASE Connect
    BY <1>2, <2>1, LayeredTyped, InvalidateContent DEF Connect, InvalidateAll
  <2>2. CASE Disconnect
    <3>1. PICK recorded : ed' = [f \in Editors |-> Abandoned(f, recorded)]
      BY <2>2 DEF Disconnect
    <3>2. QED
      BY <1>2, <3>1, LayeredTyped, AbandonedContent
  <2>3. QED
    BY <2>1, <2>2 DEF Connections
<1>3. ASSUME Layered
      PROVE  Aligned(ed'["Lighting"], ed'["Picture"]) /\ Drafted(ed'["Lighting"])
  <2>1. Aligned(ed'["Lighting"], ed'["Picture"])
    BY <1>2, <1>3, SameContent DEF PictureInv
  <2>2. Drafted(ed'["Lighting"])
    BY <1>2, <1>3 DEF PictureInv, Drafted
  <2>3. QED
    BY <2>1, <2>2
<1>4. QED
  BY <1>1, <1>3, Unwritten

\* Reads, archive captures, observations and refreshes begin on the editors as
\* they are.
LEMMA ReadsPicture ==
  ASSUME PictureInv, Reads
  PROVE  PictureInv'
<1>1. ASSUME NEW f, NEW background, Begin(f, "Read", background), OnlyRequest
      PROVE  PictureInv'
  BY <1>1, ReadBegun DEF PictureInv, OnlyRequest
<1>2. ASSUME NEW f, Read(f) \/ Observe(f) PROVE PictureInv'
  BY <1>1, <1>2 DEF Read, Observe
<1>3. QED
  BY <1>2 DEF Reads, CaptureArchive, RefreshNext

\* An edit of lighting or picture passes the rule that keeps them aligned, and
\* is refused while the other one is being written.
LEMMA EditsPicture ==
  ASSUME TypeOK, SessionInv, PictureInv, Edits
  PROVE  PictureInv'
<1>1. CASE ~Layered
  BY <1>1 DEF PictureInv, Layered
<1>2. ASSUME Layered, NEW f \in Editors, NEW next \in Values[f],
             EditableActivity(f), OnlyEditors, ed' = [ed EXCEPT ![f] = Stage(ed[f], next)],
             f = "Picture" => SelectorSettled,
             f = "Lighting" => \/ SelectorChangeAllowed(next)
                               \/ ed["Lighting"].draft = None /\ ed["Lighting"].baseline # None
      PROVE  PictureInv'
  <2> DEFINE L == ed["Lighting"]
             P == ed["Picture"]
  <2>1. /\ Aligned(L, P) /\ Drafted(L) /\ UNCHANGED pending
        /\ pending # None /\ pending.direction = "Save" => ~pending.background
    BY <1>2 DEF PictureInv, OnlyEditors
  <2>2. \A g \in Editors \ {f} : ed'[g] = ed[g]
    BY <1>2 DEF TypeOK, EditorsTyped
  <2>3. ed'[f] = Stage(ed[f], next)
    BY <1>2 DEF TypeOK, EditorsTyped
  <2>4. \A g \in Editors : Saving(g) => g = f
    BY <1>2, <2>1 DEF EditableActivity, Idle, Saving
  <2>5. next # None
    BY <1>2, FeatureValues
  <2>6. CASE f \notin {"Lighting", "Picture"}
    BY <1>2, <2>1, <2>2, <2>6, Untouched DEF Layered
  <2>7. CASE f = "Picture"
    <3>1. /\ ed'["Lighting"] = L /\ ed'["Picture"].baseline = P.baseline
          /\ ~Saving("Lighting")
      BY <1>2, <2>2, <2>3, <2>4, <2>7, LayeredTyped, StageType
    <3>2. Aligned(L, ed'["Picture"])
      BY <1>2, <2>7 DEF SelectorSettled, SelectorPending, Aligned, Layered
    <3>3. Saving("Picture") => Settled(L, ed'["Picture"])
      BY <1>2, <3>1 DEF PictureInv, Settled
    <3>4. QED
      BY <2>1, <3>1, <3>2, <3>3 DEF PictureInv, Saving
  <2>8. CASE f = "Lighting"
    <3>1. /\ ed'["Picture"] = P /\ ed'["Lighting"] = Stage(L, next)
          /\ ~Saving("Picture")
      BY <1>2, <2>2, <2>3, <2>4, <2>8, LayeredTyped
    <3>2. /\ Stage(L, next).baseline = L.baseline /\ Stage(L, next).draft = next
          /\ Stage(L, next).submitted = L.submitted
      BY <1>2, <2>8, LayeredTyped, StageType
    <3>3. Drafted(Stage(L, next))
      BY <2>5, <3>2 DEF Drafted
    <3>4. Aligned(Stage(L, next), P)
      BY <1>2, <2>1, <2>8, <3>2 DEF SelectorChangeAllowed, Aligned, Drafted, Layered
    <3>5. Saving("Lighting") /\ Dirty(P) => Pinned(Stage(L, next))
      BY <1>2, <3>2 DEF PictureInv, Pinned
    <3>6. QED
      BY <2>1, <3>1, <3>3, <3>4, <3>5 DEF PictureInv, Saving
  <2>9. QED
    BY <2>6, <2>7, <2>8
<1>3. ASSUME Layered, NEW f \in Editors, RevertEdit(f) PROVE PictureInv'
  <2>1. /\ pending' = None /\ CanRevert(ed[f]) /\ ed' = [ed EXCEPT ![f] = Revert(ed[f])]
    BY <1>3 DEF RevertEdit, Idle, OnlyEditors
  <2>2. /\ ed'[f] = Revert(ed[f])
        /\ \A g \in Editors \ {f} : ed'[g] = ed[g]
    BY <2>1 DEF TypeOK, EditorsTyped
  <2>3. ed[f] \in EditorOf(SnapshotsOf(f), Values[f])
    BY DEF TypeOK, EditorsTyped
  <2>4. ed'[f].baseline = ed[f].baseline /\ ed'[f].draft = ed[f].baseline.value
        /\ ed'[f].submitted = None
    BY <2>1, <2>2, <2>3 DEF Revert, CanRevert, EditorOf
  <2>5. Aligned(ed'["Lighting"], ed'["Picture"]) /\ Drafted(ed'["Lighting"])
    BY <1>3, <2>2, <2>4, LayeredTyped DEF PictureInv, Aligned, Drafted, Dirty
  <2>6. QED
    BY <2>1, <2>5, Unwritten
<1>4. ASSUME Layered, NEW f \in Editors \ {"Lighting"}, NEW next \in Values[f], Edit(f, next)
      PROVE  PictureInv'
  BY <1>2, <1>4 DEF Edit
<1>5. ASSUME Layered, NEW next \in Values["Lighting"], EditLighting(next) \/ StageLighting(next)
      PROVE  PictureInv'
  <2>1. ed["Lighting"].baseline # None
    BY <1>5, LayeredTyped DEF EditLighting, StageLighting, SessionInv, ReadyIsConnected
  <2>2. QED
    BY <1>2, <1>5, <2>1, LayeredTyped DEF EditLighting, StageLighting
<1>6. QED
  BY <1>1, <1>3, <1>4, <1>5 DEF Edits

\* A save of colours or of lighting passes the rule of its feature.
LEMMA SavesPicture ==
  ASSUME TypeOK, SessionInv, PictureInv, Saves
  PROVE  PictureInv'
<1>1. CASE ~Layered
  BY <1>1 DEF PictureInv, Layered
<1>2. ASSUME Layered, NEW f \in Editors, Save(f) PROVE PictureInv'
  <2> DEFINE L == ed["Lighting"]
             P == ed["Picture"]
  <2>1. /\ Aligned(L, P) /\ Drafted(L) /\ Planned(f) /\ CanRequestApply(ed[f])
        /\ EditorsTyped(ed) /\ ed[f] \in EditorOf(SnapshotsOf(f), Values[f])
    BY <1>2, LayeredTyped DEF PictureInv, Save, EditorsTyped
  <2>2. CASE pending = None
    <3>1. SubmitWrite(f, ed[f], ed)
      BY <1>2, <2>2 DEF Save
    <3>2. f = "Picture" => Settled(L, P)
      BY <1>2, <2>1 DEF Planned, SelectorSettled, Settled, Layered
    <3>3. f = "Lighting" /\ Dirty(P) => Pinned(RequestApply(L))
      <4>1. SUFFICES ASSUME f = "Lighting", Dirty(P)
                     PROVE  Pinned(RequestApply(L))
        OBVIOUS
      <4>2. /\ L.baseline # None /\ L.baseline.value # None
            /\ Selector(L.baseline.value) = Selector(L.draft)
        BY <1>2, <2>1, <4>1
           DEF Planned, CanRequestApply, Dirty, SelectorChangeAllowed, Layered
      <4>3. L \in EditorOf(SnapshotsOf("Lighting"), Values["Lighting"])
        BY <2>1, <4>1
      <4>4. QED
        BY <4>2, <4>3, RequestType DEF Pinned
    <3>4. f = "Lighting" => ed[f].draft # None
      BY <2>1 DEF CanRequestApply, Dirty
    <3>5. QED
      BY <1>2, <2>1, <3>1, <3>2, <3>3, <3>4, WriteSubmitted
  <2>3. CASE pending # None
    <3> DEFINE e == CancelApply(RequestApply(ed[f]))
    <3>1. /\ ed' = [ed EXCEPT ![f] = e] /\ UNCHANGED pending
          /\ ed[f].submitted = None
      BY <1>2, <2>1, <2>3 DEF Save, CanRequestApply
    <3>2. e = ed[f]
      BY <2>1, <3>1 DEF CancelApply, RequestApply, EditorOf
    <3>3. ed' = ed
      BY <2>1, <3>1, <3>2 DEF EditorsTyped
    <3>4. QED
      BY <3>1, <3>3, Untouched
  <2>4. QED
    BY <2>2, <2>3
<1>3. QED
  BY <1>1, <1>2 DEF Saves

\* What moves the macro or the keymap leaves lighting and picture alone.
LEMMA MacroActionsPicture ==
  ASSUME TypeOK, PictureInv, MacroActions
  PROVE  PictureInv'
<1>0. "Macro" \in Editors
  BY DEF MacroActions
<1>1. ASSUME NEW e, ed' = [ed EXCEPT !["Macro"] = e], UNCHANGED pending PROVE PictureInv'
  <2>1. Layered => ed'["Lighting"] = ed["Lighting"] /\ ed'["Picture"] = ed["Picture"]
    BY <1>1, LayeredTyped DEF EditorsTyped
  <2>2. QED
    BY <1>1, <2>1, Untouched
<1>2. ASSUME NEW s, SelectMacro(s) PROVE PictureInv'
  BY <1>1, <1>2 DEF SelectMacro
<1>3. ASSUME NEW next, RecordInput(next) \/ StopRecording(next) PROVE PictureInv'
  BY <1>1, <1>3 DEF RecordInput, StopRecording, OnlyEditors
<1>4. CASE RequestCatalog \/ CancelCatalog \/ ConfigurationChanged \/ StartRecording
  BY <1>4, Untouched DEF RequestCatalog, CancelCatalog, ConfigurationChanged, StartRecording
<1>5. ASSUME "Keymap" \in Editors, NEW key \in Keys, SaveAndAssign(key) PROVE PictureInv'
  <2> DEFINE bound == Bound(ed["Keymap"], key)
  <2>1. /\ EditorsTyped(ed)
        /\ ed["Macro"] \in EditorOf(SnapshotsOf("Macro"), Values["Macro"])
        /\ ed["Keymap"] \in EditorOf(SnapshotsOf("Keymap"), Values["Keymap"])
    BY <1>0, <1>5 DEF TypeOK, EditorsTyped
  <2>2. Layered => Aligned(ed["Lighting"], ed["Picture"]) /\ Drafted(ed["Lighting"])
    BY DEF PictureInv
  <2>3. CASE Dirty(ed["Macro"])
    <3>1. SubmitWrite("Macro", ed["Macro"], ed)
      BY <1>5, <2>3 DEF SaveAndAssign
    <3>2. QED
      BY <1>0, <2>1, <2>2, <3>1, WriteSubmitted
  <2>4. CASE ~Dirty(ed["Macro"])
    <3>1. SubmitWrite("Keymap", bound, ed) /\ ed["Keymap"].draft # None
      BY <1>5, <2>4 DEF SaveAndAssign
    <3>2. bound \in EditorOf(SnapshotsOf("Keymap"), Values["Keymap"])
      BY <1>5, <2>1, <3>1, BoundTyped
    <3> HIDE DEF bound
    <3>3. QED
      BY <1>5, <2>1, <2>2, <3>1, <3>2, WriteSubmitted
  <2>5. QED
    BY <2>3, <2>4
<1>6. QED
  BY <1>2, <1>3, <1>4, <1>5 DEF MacroActions

\* Picture preparation switches lighting only when no colours are unsaved.
LEMMA BeginPreparationPicture ==
  ASSUME TypeOK, NEW editors, EditorsTyped(editors), NEW plan, BeginPreparation(plan, editors),
         Layered,
         Aligned(editors["Lighting"], editors["Picture"]), Drafted(editors["Lighting"]),
         plan = "SaveLighting" => ~Dirty(editors["Picture"])
  PROVE  PictureInv'
<1>1. CASE Settle(editors)
  BY <1>1, SettledAligned
<1>2. ASSUME NEW f, ed' = editors, Begin(f, "Read", FALSE) PROVE PictureInv'
  BY <1>2, ReadBegun
<1>3. CASE plan = "SaveLighting"
  <2> DEFINE staged == Stage(editors["Lighting"], PictureDefault)
  <2>1. SubmitWrite("Lighting", staged, editors) /\ "Lighting" \in Editors
    BY <1>3 DEF BeginPreparation, Layered
  <2>2. /\ staged \in EditorOf(SnapshotsOf("Lighting"), Values["Lighting"])
        /\ staged.draft # None
    BY <2>1, ValuesAssumption, FeatureValues, StageType DEF EditorsTyped
  <2>3. ~Dirty(editors["Picture"])
    BY <1>3
  <2> HIDE DEF staged
  <2>4. Aligned(staged, editors["Picture"]) /\ Drafted(staged)
    BY <2>2, <2>3 DEF Aligned, Drafted
  <2>5. QED
    BY <2>1, <2>2, <2>3, <2>4, WriteSubmitted
<1>4. QED
  BY <1>1, <1>2, <1>3 DEF BeginPreparation

\* The end of host lighting leaves lighting as it was read, or as it was.
LEMMA HostActionsPicture ==
  ASSUME TypeOK, SessionInv, PictureInv, HostActions
  PROVE  PictureInv'
<1>1. CASE StartHost
  BY <1>1, Untouched DEF StartHost
<1>2. ASSUME NEW ticket, StopHost \/ HostStarted(ticket) PROVE PictureInv'
  BY <1>2, Untouched DEF StopHost, HostStarted
<1>3. ASSUME NEW ticket, NEW result \in Writings("Lighting"), HostFinished(ticket, result)
      PROVE  PictureInv'
  <2> DEFINE L == ed["Lighting"]
             restored == Restored(L, "Starting" \in {host.phase, host.source}, result)
  <2>1. ~HostIdle /\ pending' = None /\ pending = None
    BY <1>3 DEF HostFinished, HostIdle, SessionInv, ExclusiveActivities
  <2>2. ASSUME Layered
        PROVE  Aligned(ed'["Lighting"], ed'["Picture"]) /\ Drafted(ed'["Lighting"])
    <3>1. /\ L \in EditorOf(SnapshotsOf("Lighting"), Values["Lighting"])
          /\ Aligned(L, ed["Picture"]) /\ Drafted(L) /\ L.submitted = None
      BY <2>1, <2>2, LayeredTyped, IdleHeld DEF PictureInv, Held
    <3>2. ed'["Lighting"] = restored /\ ed'["Picture"] = ed["Picture"]
      BY <1>3, <2>2, LayeredTyped DEF HostFinished, EditorsTyped
    <3>3. restored \in {L, ReadResult(L, result), ApplyResult(L, LostWrite)}
      BY DEF Restored
    <3>4. LostWrite.kind = "error"
      BY DEF LostWrite
    <3>5. Aligned(restored, ed["Picture"]) /\ Drafted(restored)
      <4> HIDE DEF L, restored
      <4>1. QED
        BY <3>1, <3>3, <3>4, ReadAligned, ApplyAligned
    <3>6. QED
      BY <3>2, <3>5
  <2>3. QED
    BY <2>1, <2>2, Unwritten
<1>4. QED
  BY <1>1, <1>2, <1>3 DEF HostActions

\* The answer in flight leaves lighting and picture aligned: what it reads is
\* taken whole, and what was written was checked when it was submitted.
LEMMA AnswerAligned ==
  ASSUME TypeOK, SessionInv, PictureInv, Layered, pending # None, NEW f \in Editors,
         NEW direction \in Directions, pending.feature = f, pending.direction = direction,
         NEW result \in Results(f, direction)
  PROVE  LET editors == EditorsAfter(f, direction, result)
         IN Aligned(editors["Lighting"], editors["Picture"]) /\ Drafted(editors["Lighting"])
<1> DEFINE editors == EditorsAfter(f, direction, result)
           L == ed["Lighting"]
           P == ed["Picture"]
<1>1. /\ L \in EditorOf(SnapshotsOf("Lighting"), Values["Lighting"])
      /\ P \in EditorOf(SnapshotsOf("Picture"), Values["Picture"])
      /\ Aligned(L, P) /\ Drafted(L)
      /\ result.kind \in {"ok", "error", "invalid"}
  BY LayeredTyped, ResultTyped DEF PictureInv
<1>2. Saving(f) <=> direction # "Read"
  BY DEF Saving, Directions
<1>3. CASE f = "Lighting"
  <2>1. /\ editors["Lighting"] = Received("Lighting", direction, result)
        /\ editors["Picture"] \in {P, Invalidate(P)}
    BY <1>3 DEF EditorsAfter, Layered
  <2>2. Aligned(editors["Lighting"], P) /\ Drafted(editors["Lighting"])
    <3>1. CASE direction = "Read"
      <4>1. L.submitted = None /\ editors["Lighting"] = ReadResult(L, result)
        BY <1>2, <1>3, <2>1, <3>1 DEF SessionInv, SubmittedIffSaving, Received
      <4>2. QED
        BY <1>1, <4>1, ReadAligned
    <3>2. CASE direction # "Read"
      <4>1. /\ editors["Lighting"] = ApplyResult(L, result)
            /\ Dirty(P) => Pinned(L)
        BY <1>2, <1>3, <2>1, <3>2 DEF PictureInv, Received
      <4>2. QED
        BY <1>1, <4>1, ApplyAligned
    <3>3. QED
      BY <3>1, <3>2
  <2>3. editors["Picture"].baseline = P.baseline /\ editors["Picture"].draft = P.draft
    BY <1>1, <2>1, InvalidateContent
  <2>4. Aligned(editors["Lighting"], editors["Picture"])
    BY <2>2, <2>3, SameContent
  <2>5. QED
    BY <2>2, <2>4
<1>4. CASE f = "Picture"
  <2>1. editors["Lighting"] = L /\ editors["Picture"] = Received("Picture", direction, result)
    BY <1>4 DEF EditorsAfter, Layered
  <2>2. CASE direction = "Read"
    <3>1. \/ /\ editors["Picture"].baseline = P.baseline /\ editors["Picture"].draft = P.draft
          \/ ~Dirty(editors["Picture"])
      BY <1>1, <2>1, <2>2, ReadContent DEF Received, Dirty
    <3>2. QED
      BY <1>1, <2>1, <3>1, SameContent DEF Aligned
  <2>3. CASE direction # "Read"
    <3>1. Settled(L, P)
      BY <1>2, <1>4, <2>3 DEF PictureInv
    <3>2. QED
      BY <1>1, <2>1, <3>1 DEF Settled, SelectorPending, Aligned
  <2>4. QED
    BY <2>2, <2>3
<1>5. CASE f \notin {"Lighting", "Picture"}
  BY <1>1, <1>5 DEF EditorsAfter, Layered
<1>6. QED
  BY <1>3, <1>4, <1>5

\* What a completion leaves, with the workflow step that follows it.
LEMMA FinishPicture ==
  ASSUME TypeOK, SessionInv, WorkflowInv, PictureInv, pending # None, NEW f \in Editors,
         NEW direction \in Directions, pending.feature = f, pending.direction = direction,
         NEW result \in Results(f, direction), Finish(f, direction, result)
  PROVE  PictureInv'
<1> DEFINE editors == EditorsAfter(f, direction, result)
<1>1. /\ EditorsTyped(editors)
      /\ Layered => Aligned(editors["Lighting"], editors["Picture"])
                    /\ Drafted(editors["Lighting"])
  BY EditorsAfterTyped, AnswerAligned
<1>2. CASE Settle(editors)
  BY <1>1, <1>2, SettledAligned
<1>3. CASE assignment # None /\ AssignKey(editors)
  <2> DEFINE keymap == editors["Keymap"]
             bound == Bound(keymap, assignment.key)
  <2>1. "Keymap" \in Editors /\ assignment \in Assignments
    BY <1>3 DEF TypeOK
  <2>2. CASE ~Ready(keymap) \/ keymap.draft = None
    BY <1>2, <1>3, <2>2 DEF AssignKey
  <2>3. CASE Ready(keymap) /\ keymap.draft # None
    <3>1. bound \in EditorOf(SnapshotsOf("Keymap"), Values["Keymap"])
      BY <1>1, <2>1, <2>3, BoundTyped DEF Assignments, EditorsTyped
    <3>2. \/ Settle([editors EXCEPT !["Keymap"] = bound])
          \/ SubmitWrite("Keymap", bound, editors)
      BY <1>3, <2>3 DEF AssignKey
    <3> HIDE DEF bound
    <3>3. CASE Settle([editors EXCEPT !["Keymap"] = bound])
      <4> DEFINE after == [editors EXCEPT !["Keymap"] = bound]
      <4>1. Layered => /\ after["Lighting"] = editors["Lighting"]
                       /\ after["Picture"] = editors["Picture"]
        BY <1>1, <2>1, <3>1, UpdateTyped DEF Layered
      <4> HIDE DEF after
      <4>2. Settle(after)
        BY <3>3 DEF after
      <4>3. QED
        BY <1>1, <4>1, <4>2, SettledAligned
    <3>4. CASE SubmitWrite("Keymap", bound, editors)
      BY <1>1, <2>1, <3>1, <3>4, WriteSubmitted
    <3>5. QED
      BY <3>2, <3>3, <3>4
  <2>4. QED
    BY <2>2, <2>3
<1>4. CASE assignment = None /\ preparation # None /\ AdvancePreparation(editors, f, direction)
  <2>1. Layered
    BY <1>4 DEF TypeOK, Layered
  <2>2. PICK plan : /\ BeginPreparation(plan, editors) \/ Settle(editors)
                    /\ plan = "SaveLighting" => ~Dirty(editors["Picture"])
    BY <1>4, PlanOwned DEF AdvancePreparation
  <2>3. QED
    BY <1>1, <1>2, <2>1, <2>2, BeginPreparationPicture
<1>5. QED
  BY <1>2, <1>3, <1>4 DEF Finish, AdvanceAssignment

\* The three properties hold of a new session, and every step keeps them.
LEMMA PictureStep ==
  /\ Init => PictureInv
  /\ TypeOK /\ SessionInv /\ WorkflowInv /\ PictureInv /\ [Next]_vars => PictureInv'
<1>1. Init => PictureInv
  BY DEF Init, PictureInv, Layered, Aligned, Drafted, Dirty, Saving, NewEditor
<1>2. ASSUME TypeOK, SessionInv, WorkflowInv, PictureInv, [Next]_vars PROVE PictureInv'
  <2>1. CASE {"Lighting", "Picture"} \subseteq Editors /\ PreparePicture
    <3>1. BeginPreparation(PreparationPlan(ed["Lighting"], ed["Picture"]), ed)
      BY <2>1 DEF PreparePicture
    <3>2. Layered /\ Aligned(ed["Lighting"], ed["Picture"]) /\ Drafted(ed["Lighting"])
          /\ EditorsTyped(ed)
      BY <1>2, <2>1 DEF Layered, PictureInv, TypeOK
    <3>3. QED
      BY <1>2, <3>1, <3>2, PlanOwned, BeginPreparationPicture
  <2>2. CASE Completions
    <3>1. ASSUME NEW c, AcceptCatalog(c) PROVE PictureInv'
      BY <1>2, <3>1, Untouched DEF AcceptCatalog
    <3>2. ASSUME NEW c, AcceptArchive(c) PROVE PictureInv'
      BY <1>2, <3>2, Unwritten DEF AcceptArchive, PictureInv
    <3>3. ASSUME NEW c, c.direction \in Directions, AcceptFeature(c) PROVE PictureInv'
      BY <1>2, <3>3, FinishPicture DEF AcceptFeature, Answers
    <3>4. QED
      BY <2>2, <3>1, <3>2, <3>3 DEF Completions, Completion
  <2>3. CASE UNCHANGED vars
    BY <1>2, <2>3, Untouched DEF vars
  <2>4. QED
    BY <1>2, <2>1, <2>2, <2>3, ConnectionsPicture, ReadsPicture, EditsPicture, SavesPicture,
       MacroActionsPicture, HostActionsPicture DEF Next
<1>3. QED
  BY <1>1, <1>2

\* The inductive invariant of the picture and its layer.
THEOREM PictureInvariant == Spec => []PictureInv
BY PictureStep, WorkflowInvariant, SessionInvariant, TypeCorrect, PTL DEF Spec

\* Colours and their layer are never both unsaved.
THEOREM SelectorEditsExclude == Spec => []SelectorEditsExclusive
BY PictureInvImplies, PictureInvariant, TypeCorrect, PTL

\* Colours are written only while lighting is verified, settled and in the
\* context they were read in.
THEOREM PictureStaysInContext == Spec => []PictureSavedInContext
BY PictureInvImplies, PictureInvariant, TypeCorrect, PTL

\* A lighting write beside unsaved colours keeps their effect and option.
THEOREM SelectorWritesAlone == Spec => []SelectorSavedAlone
BY PictureInvImplies, PictureInvariant, TypeCorrect, PTL

-----------------------------------------------------------------------------
(* What the user has edited survives the device, and what is uncertain stays *)
(* so until it is read.                                                      *)

\* A feature that is being saved is verified: nothing that happens before the
\* answer takes that away.
VerifiedInv == \A f \in Editors : Saving(f) => Ready(ed[f])

\* Unsaved drafts are as they were.
DraftsKept(editors) == \A f \in Editors : Dirty(ed[f]) => editors[f].draft = ed[f].draft

\* An editor that needs a read is as it was, still needs one or was just read.
Resolved(f, e, e2) ==
  e.status \in ManualRead =>
    \/ e2.status \in ManualRead
    \/ /\ pending # None /\ pending.feature = f /\ pending.direction = "Read"
       /\ e2.status \in {"Ready", "Read"}
Uncertain(editors) == \A f \in Editors : Resolved(f, ed[f], editors[f])

\* A reading keeps an edited draft, and the draft stays edited.
LEMMA ReadKeeps ==
  ASSUME NEW S, NEW V, NEW e \in EditorOf(S, V), NEW result
  PROVE  /\ Dirty(e) => /\ ReadResult(e, result).draft = e.draft
                        /\ Dirty(ReadResult(e, result))
         /\ ReadResult(e, result).status \in {"Ready", "Read", "Conflict"}
BY DEF ReadResult, Dirty, EditorOf

\* Invalidating changes no state that needs a read.
LEMMA InvalidateKeeps ==
  ASSUME NEW S, NEW V, NEW e \in EditorOf(S, V)
  PROVE  e.status \in ManualRead => Invalidate(e).status \in ManualRead
BY DEF Invalidate, ManualRead, WriteProblems, EditorOf

\* A write lost with the connection has to be read back.
LEMMA LostWriteKeeps ==
  ASSUME NEW S, NEW V, NEW e \in EditorOf(S, V)
  PROVE  /\ ApplyResult(e, LostWrite) \in EditorOf(S, V)
         /\ ApplyResult(e, LostWrite).status \in ManualRead
<1>1. ApplyStatus(e, LostWrite) = "Apply"
  BY DEF ApplyStatus, LostWrite
<1> QED BY <1>1 DEF ApplyResult, ManualRead, WriteProblems, Status, Unverified, EditorOf

\* What a submission, given a ticket or not, leaves of drafts and states.
LEMMA SubmitKeeps ==
  ASSUME NEW editors, EditorsTyped(editors), NEW f \in Editors,
         NEW e \in EditorOf(SnapshotsOf(f), Values[f]), SubmitWrite(f, e, editors)
  PROVE  /\ ed'[f].draft = e.draft /\ ed'[f].status = e.status
         /\ \A g \in Editors \ {f} : ed'[g] = editors[g]
<1> DEFINE written == IF MayIssue THEN RequestApply(e) ELSE CancelApply(RequestApply(e))
<1>1. /\ written \in EditorOf(SnapshotsOf(f), Values[f])
      /\ written.status = e.status /\ written.draft = e.draft
  BY RequestType
<1>2. ed' = [editors EXCEPT ![f] = written]
  BY DEF SubmitWrite
<1> HIDE DEF written
<1>3. ed'[f] = written /\ \A g \in Editors \ {f} : ed'[g] = editors[g]
  BY <1>1, <1>2, UpdateTyped
<1> QED BY <1>1, <1>3

\* A submission beside editors that kept their drafts.
LEMMA SubmitKeepsDrafts ==
  ASSUME NEW editors, EditorsTyped(editors), NEW f \in Editors,
         NEW e \in EditorOf(SnapshotsOf(f), Values[f]), SubmitWrite(f, e, editors),
         DraftsKept(editors), Dirty(ed[f]) => e.draft = ed[f].draft
  PROVE  DraftsKept(ed')
BY SubmitKeeps DEF DraftsKept

\* A submission beside editors that are no less certain than they may be.
LEMMA SubmitKeepsUncertain ==
  ASSUME NEW editors, EditorsTyped(editors), NEW f \in Editors,
         NEW e \in EditorOf(SnapshotsOf(f), Values[f]), SubmitWrite(f, e, editors),
         Uncertain(editors), e.status = editors[f].status
  PROVE  Uncertain(ed')
BY SubmitKeeps DEF Uncertain, Resolved

\* What is submitted was ready.
LEMMA SubmitVerified ==
  ASSUME NEW editors, EditorsTyped(editors), NEW f \in Editors,
         NEW e \in EditorOf(SnapshotsOf(f), Values[f]), SubmitWrite(f, e, editors), Ready(e)
  PROVE  VerifiedInv'
<1>1. Ready(ed'[f])
  BY SubmitKeeps DEF Ready
<1>2. pending' = None \/ pending' = Ticket(f, "Save", FALSE)
  BY DEF SubmitWrite, Begin
<1> QED BY <1>1, <1>2 DEF VerifiedInv, Saving, Ticket

\* A step that submits nothing and moves no state.
LEMMA StatusVerified ==
  ASSUME VerifiedInv,
         \/ pending' = None
         \/ pending' # None /\ pending'.direction = "Read"
         \/ UNCHANGED pending /\ \A f \in Editors : ed'[f].status = ed[f].status
  PROVE  VerifiedInv'
BY DEF VerifiedInv, Saving, Ready

\* An answer keeps every edited draft, and only the reading of a feature
\* settles what is uncertain about it.
LEMMA AnswerKeeps ==
  ASSUME TypeOK, VerifiedInv, pending # None, NEW f \in Editors, NEW direction \in Directions,
         pending.feature = f, pending.direction = direction,
         NEW result \in Results(f, direction)
  PROVE  LET editors == EditorsAfter(f, direction, result)
         IN /\ DraftsKept(editors) /\ Uncertain(editors)
            /\ direction = "Read" /\ Dirty(ed[f]) => Dirty(editors[f])
<1> DEFINE editors == EditorsAfter(f, direction, result)
<1>1. /\ editors[f] = Received(f, direction, result)
      /\ \A g \in Editors \ {f} : editors[g] \in {ed[g], Invalidate(ed[g])}
  BY DEF EditorsAfter
<1>2. \A g \in Editors : ed[g] \in EditorOf(SnapshotsOf(g), Values[g])
  BY DEF TypeOK, EditorsTyped
<1>3. result.kind \in {"ok", "error", "invalid"}
  BY ResultTyped
<1> HIDE DEF editors
<1>4. \A g \in Editors \ {f} : /\ editors[g].draft = ed[g].draft
                               /\ Resolved(g, ed[g], editors[g])
  BY <1>1, <1>2, InvalidateContent, InvalidateKeeps DEF Resolved
<1>5. CASE direction = "Read"
  <2>1. editors[f] = ReadResult(ed[f], result)
    BY <1>1, <1>5 DEF Received
  <2>2. /\ Dirty(ed[f]) => editors[f].draft = ed[f].draft /\ Dirty(editors[f])
        /\ editors[f].status \in {"Ready", "Read", "Conflict"}
    BY <1>2, <2>1, ReadKeeps
  <2>3. Resolved(f, ed[f], editors[f])
    BY <1>5, <2>2 DEF Resolved, ManualRead
  <2> QED BY <1>4, <2>2, <2>3 DEF DraftsKept, Uncertain, editors
<1>6. CASE direction # "Read"
  <2>1. editors[f] = ApplyResult(ed[f], result)
    BY <1>1, <1>6 DEF Received
  <2>2. editors[f].draft = ed[f].draft
    BY <1>2, <1>3, <2>1, ApplyContent
  <2>3. Ready(ed[f])
    BY <1>6 DEF VerifiedInv, Saving, Directions
  <2>4. Resolved(f, ed[f], editors[f])
    BY <2>3 DEF Resolved, ManualRead, WriteProblems, Ready
  <2> QED BY <1>4, <1>6, <2>2, <2>4 DEF DraftsKept, Uncertain, editors
<1> QED BY <1>5, <1>6

\* The second write of save-and-assign replaces no edited keymap and settles
\* nothing that is uncertain.
LEMMA AssignmentKeeps ==
  ASSUME TypeOK, WorkflowInv, assignment # None, NEW editors, EditorsTyped(editors),
         NEW f, NEW direction, AdvanceAssignment(editors, f, direction),
         DraftsKept(editors), Uncertain(editors)
  PROVE  DraftsKept(ed') /\ Uncertain(ed') /\ VerifiedInv'
<1>1. assignment \in Assignments /\ "Keymap" \in Editors
  BY DEF TypeOK
<1>2. CASE Settle(editors)
  BY <1>2 DEF Settle, VerifiedInv, Saving
<1>3. CASE assignment.step = "SavingMacro" /\ AssignKey(editors)
  <2> DEFINE keymap == editors["Keymap"]
             bound == Bound(keymap, assignment.key)
  <2>1. ~Dirty(ed["Keymap"])
    BY <1>3 DEF WorkflowInv, AssignmentOwnsTicket
  <2>2. CASE ~Ready(keymap) \/ keymap.draft = None
    BY <1>2, <1>3, <2>2 DEF AssignKey
  <2>3. CASE Ready(keymap) /\ keymap.draft # None
    <3>1. /\ bound \in EditorOf(SnapshotsOf("Keymap"), Values["Keymap"])
          /\ keymap \in EditorOf(SnapshotsOf("Keymap"), Values["Keymap"])
      BY <1>1, <2>3, BoundTyped DEF Assignments, EditorsTyped
    <3>2. bound.status = keymap.status
      BY <3>1 DEF Bound, Stage, EditorOf
    <3>3. CASE Settle([editors EXCEPT !["Keymap"] = bound])
      <4>1. ed' = [editors EXCEPT !["Keymap"] = bound] /\ pending' = None
        BY <3>3 DEF Settle
      <4> HIDE DEF bound
      <4>2. ed'["Keymap"] = bound /\ \A g \in Editors \ {"Keymap"} : ed'[g] = editors[g]
        BY <1>1, <3>1, <4>1, UpdateTyped
      <4> QED
        BY <2>1, <3>2, <4>1, <4>2 DEF DraftsKept, Uncertain, Resolved, VerifiedInv, Saving
    <3>4. CASE CanRequestApply(bound) /\ SubmitWrite("Keymap", bound, editors)
      <4>1. Ready(bound) /\ SubmitWrite("Keymap", bound, editors)
        BY <3>4 DEF CanRequestApply
      <4> HIDE DEF bound
      <4> QED
        BY <1>1, <2>1, <3>1, <3>2, <4>1, SubmitKeepsDrafts, SubmitKeepsUncertain, SubmitVerified
    <3> QED BY <1>3, <2>3, <3>3, <3>4 DEF AssignKey
  <2> QED BY <2>2, <2>3
<1> QED BY <1>2, <1>3 DEF AdvanceAssignment

\* Picture preparation replaces no edited lighting and settles nothing that is
\* uncertain.
LEMMA PreparationKeeps ==
  ASSUME {"Lighting", "Picture"} \subseteq Editors, NEW editors, EditorsTyped(editors),
         NEW plan, BeginPreparation(plan, editors), DraftsKept(editors), Uncertain(editors),
         plan = "SaveLighting" => Ready(editors["Lighting"]) /\ ~Dirty(ed["Lighting"])
  PROVE  DraftsKept(ed') /\ Uncertain(ed') /\ VerifiedInv'
<1>1. CASE Settle(editors)
  BY <1>1 DEF Settle, VerifiedInv, Saving
<1>2. ASSUME NEW f, ed' = editors, Begin(f, "Read", FALSE)
      PROVE  DraftsKept(ed') /\ Uncertain(ed') /\ VerifiedInv'
  BY <1>2 DEF Begin, Ticket, VerifiedInv, Saving
<1>3. CASE plan = "SaveLighting"
  <2> DEFINE staged == Stage(editors["Lighting"], PictureDefault)
  <2>1. staged \in EditorOf(SnapshotsOf("Lighting"), Values["Lighting"])
    BY ValuesAssumption, StageType DEF EditorsTyped
  <2>2. staged.status = editors["Lighting"].status
    BY ValuesAssumption, StageType DEF EditorsTyped
  <2>3. SubmitWrite("Lighting", staged, editors)
    BY <1>3 DEF BeginPreparation
  <2> HIDE DEF staged
  <2>4. Ready(staged)
    BY <1>3, <2>2 DEF Ready
  <2> QED
    BY <1>3, <2>1, <2>2, <2>3, <2>4, SubmitKeepsDrafts, SubmitKeepsUncertain, SubmitVerified
<1> QED BY <1>1, <1>2, <1>3 DEF BeginPreparation

\* The plan to switch the effect finds lighting verified and unedited.
LEMMA SavePlanned ==
  ASSUME NEW lighting, NEW picture, PreparationPlan(lighting, picture) = "SaveLighting"
  PROVE  Ready(lighting) /\ ~Dirty(lighting)
BY DEF PreparationPlan, PreparationStep, Unprepared

\* An answer and the step of the workflow that follows it.
LEMMA FinishKeeps ==
  ASSUME TypeOK, WorkflowInv, VerifiedInv, pending # None,
         NEW f \in Editors, NEW direction \in Directions,
         pending.feature = f, pending.direction = direction,
         NEW result \in Results(f, direction), Finish(f, direction, result)
  PROVE  DraftsKept(ed') /\ Uncertain(ed') /\ VerifiedInv'
<1> DEFINE editors == EditorsAfter(f, direction, result)
<1>1. /\ EditorsTyped(editors) /\ DraftsKept(editors) /\ Uncertain(editors)
      /\ direction = "Read" /\ Dirty(ed[f]) => Dirty(editors[f])
  BY EditorsAfterTyped, AnswerKeeps
<1>2. \/ Settle(editors)
      \/ assignment # None /\ AdvanceAssignment(editors, f, direction)
      \/ assignment = None /\ preparation # None /\ AdvancePreparation(editors, f, direction)
  BY DEF Finish
<1> HIDE DEF editors
<1>3. CASE Settle(editors)
  BY <1>1, <1>3 DEF Settle, VerifiedInv, Saving
<1>4. CASE assignment # None /\ AdvanceAssignment(editors, f, direction)
  BY <1>1, <1>4, AssignmentKeeps
<1>5. CASE preparation # None /\ AdvancePreparation(editors, f, direction)
  <2>1. {"Lighting", "Picture"} \subseteq Editors
    BY <1>5 DEF TypeOK
  <2>2. CASE /\ f = "Lighting" /\ direction = "Read"
             /\ BeginPreparation(PreparationPlan(editors["Lighting"], editors["Picture"]), editors)
    <3> DEFINE plan == PreparationPlan(editors["Lighting"], editors["Picture"])
    <3>1. plan = "SaveLighting" => Ready(editors["Lighting"]) /\ ~Dirty(ed["Lighting"])
      BY <1>1, <2>2, SavePlanned
    <3>2. BeginPreparation(plan, editors)
      BY <2>2
    <3> HIDE DEF plan
    <3> QED BY <1>1, <2>1, <3>1, <3>2, PreparationKeeps
  <2>3. CASE BeginPreparation("ReadPicture", editors)
    BY <1>1, <2>1, <2>3, PreparationKeeps
  <2> QED BY <1>3, <1>5, <2>2, <2>3 DEF AdvancePreparation
<1> QED BY <1>2, <1>3, <1>4, <1>5

\* What a step does: an edited draft changes only by the user's hand, what is
\* uncertain is settled by its reading or left with its slot, and a feature
\* being saved stays verified.
Keeps ==
  /\ <<connected, generation, operation, pending, host>>'
       # <<connected, generation, operation, pending, host>> /\ ~recording => DraftsKept(ed')
  /\ \A f \in Editors : Resolved(f, ed[f], ed'[f]) \/ (f = "Macro" /\ slot' # slot)
  /\ VerifiedInv'

\* A step of the user that moves no state.
LEMMA UserKeeps ==
  ASSUME VerifiedInv, UNCHANGED <<connected, generation, operation, pending, host>>,
         \A f \in Editors : ed'[f].status = ed[f].status
  PROVE  Keeps
<1>1. VerifiedInv'
  BY StatusVerified
<1> QED BY <1>1 DEF Keeps, Resolved

\* A step that leaves the editors alone and saves nothing.
LEMMA EditorsKeep ==
  ASSUME VerifiedInv, UNCHANGED ed,
         \/ pending' = None
         \/ pending' # None /\ pending'.direction = "Read"
         \/ UNCHANGED pending
  PROVE  Keeps
<1>1. VerifiedInv'
  BY StatusVerified
<1> QED BY <1>1 DEF Keeps, Resolved, DraftsKept

\* Connecting and losing the connection.
LEMMA ConnectionsKeep ==
  ASSUME TypeOK, Connections
  PROVE  Keeps
<1>1. \A f \in Editors : ed[f] \in EditorOf(SnapshotsOf(f), Values[f])
  BY DEF TypeOK, EditorsTyped
<1>2. pending' = None /\ VerifiedInv'
  BY DEF Connections, Connect, Disconnect, Idle, VerifiedInv, Saving
<1>3. CASE Connect
  <2>1. \A f \in Editors : ed'[f] = Invalidate(ed[f])
    BY <1>3 DEF Connect, InvalidateAll
  <2> QED BY <1>1, <1>2, <2>1, InvalidateContent, InvalidateKeeps DEF Keeps, Resolved, DraftsKept
<1>4. CASE Disconnect
  <2>1. PICK recorded \in Values["Macro"] \cup {None} :
          ed' = [f \in Editors |-> Abandoned(f, recorded)]
    BY <1>4 DEF Disconnect
  <2>2. ~recording => DraftsKept(ed')
    BY <2>1, AbandonedContent DEF DraftsKept
  <2>3. ASSUME NEW f \in Editors, ed[f].status \in ManualRead
        PROVE  ed'[f].status \in ManualRead
    <3> DEFINE T == EditorOf(SnapshotsOf(f), Values[f])
               hosted == IF f = "Lighting" /\ ~HostIdle THEN ApplyResult(ed[f], LostWrite) ELSE ed[f]
               taken == IF f = "Macro" /\ recording THEN Stage(hosted, recorded) ELSE hosted
               failed == IF pending # None /\ pending.direction = "Save" /\ pending.feature = f
                           THEN ApplyResult(taken, LostWrite) ELSE taken
    <3>1. hosted \in T /\ hosted.status \in ManualRead
      BY <1>1, <2>3, LostWriteKeeps
    <3>2. taken \in T /\ taken.status \in ManualRead
      BY <3>1, StageType
    <3>3. failed \in T /\ failed.status \in ManualRead
      BY <3>2, LostWriteKeeps
    <3>4. ed'[f] = Invalidate(failed)
      BY <2>1 DEF Abandoned
    <3> HIDE DEF failed
    <3> QED BY <3>3, <3>4, InvalidateKeeps
  <2> QED BY <1>2, <2>2, <2>3 DEF Keeps, Resolved
<1> QED BY <1>3, <1>4 DEF Connections

\* A save submits the draft there is, or takes the submission back.
LEMMA SavesKeep ==
  ASSUME TypeOK, VerifiedInv, Saves
  PROVE  Keeps
<1>1. PICK f \in Editors : Save(f)
  BY DEF Saves
<1>2. /\ ed[f] \in EditorOf(SnapshotsOf(f), Values[f]) /\ EditorsTyped(ed)
      /\ DraftsKept(ed) /\ Uncertain(ed)
  BY DEF TypeOK, EditorsTyped, DraftsKept, Uncertain, Resolved
<1>3. Ready(ed[f])
  BY <1>1 DEF Save, CanRequestApply
<1>4. CASE pending = None
  <2>1. SubmitWrite(f, ed[f], ed)
    BY <1>1, <1>4 DEF Save
  <2> QED
    BY <1>2, <1>3, <2>1, SubmitKeepsDrafts, SubmitKeepsUncertain, SubmitVerified
       DEF Keeps, Uncertain
<1>5. CASE pending # None
  <2>1. /\ ed' = [ed EXCEPT ![f] = CancelApply(RequestApply(ed[f]))]
        /\ UNCHANGED <<connected, generation, operation, pending, host>>
    BY <1>1, <1>5 DEF Save, activities
  <2>2. \A g \in Editors : ed'[g].status = ed[g].status
    BY <1>2, <2>1, RequestType, UpdateTyped
  <2> QED BY <2>1, <2>2, UserKeeps
<1> QED BY <1>4, <1>5

\* Edits and the recorder only stage drafts; another slot leaves the macro.
LEMMA EditsKeep ==
  ASSUME TypeOK, VerifiedInv, Edits
  PROVE  Keeps
<1>1. \A f \in Editors : ed[f] \in EditorOf(SnapshotsOf(f), Values[f])
  BY DEF TypeOK, EditorsTyped
<1>2. UNCHANGED <<connected, generation, operation, pending, host>>
  BY DEF Edits, Edit, EditLighting, StageLighting, RevertEdit, OnlyEditors, activities
<1>3. \E f \in Editors : \E value : ed' = [ed EXCEPT ![f] = [ed[f] EXCEPT !.draft = value]]
  BY DEF Edits, Edit, EditLighting, StageLighting, RevertEdit, Stage, Revert
<1>4. \A f \in Editors : ed'[f].status = ed[f].status
  BY <1>1, <1>3 DEF TypeOK, EditorsTyped, EditorOf
<1> QED BY <1>2, <1>4, UserKeeps

\* The actions on macros.
LEMMA MacroActionsKeep ==
  ASSUME TypeOK, SessionInv, WorkflowInv, VerifiedInv, MacroActions
  PROVE  Keeps
<1>1. /\ "Macro" \in Editors /\ EditorsTyped(ed)
      /\ \A f \in Editors : ed[f] \in EditorOf(SnapshotsOf(f), Values[f])
      /\ DraftsKept(ed) /\ Uncertain(ed)
  BY DEF MacroActions, TypeOK, EditorsTyped, DraftsKept, Uncertain, Resolved
<1>2. ASSUME NEW s, SelectMacro(s) PROVE Keeps
  <2>1. /\ pending = None /\ slot' # slot
        /\ UNCHANGED <<connected, generation, operation, pending, host>>
        /\ \A f \in Editors \ {"Macro"} : ed'[f] = ed[f]
    BY <1>1, <1>2 DEF SelectMacro, Idle, activities, EditorsTyped
  <2>2. VerifiedInv'
    BY <2>1 DEF VerifiedInv, Saving
  <2> QED BY <2>1, <2>2 DEF Keeps, Resolved
<1>3. CASE RequestCatalog \/ CancelCatalog \/ ConfigurationChanged \/ StartRecording
  BY <1>3, EditorsKeep DEF RequestCatalog, CancelCatalog, ConfigurationChanged, StartRecording
<1>4. ASSUME NEW next, RecordInput(next) \/ StopRecording(next) PROVE Keeps
  <2>1. /\ UNCHANGED <<connected, generation, operation, pending, host>>
        /\ ed' = [ed EXCEPT !["Macro"] = [ed["Macro"] EXCEPT !.draft = next]]
    BY <1>4 DEF RecordInput, StopRecording, OnlyEditors, activities, Stage
  <2>2. \A f \in Editors : ed'[f].status = ed[f].status
    BY <1>1, <2>1 DEF EditorsTyped, EditorOf
  <2> QED BY <2>1, <2>2, UserKeeps
<1>5. ASSUME "Keymap" \in Editors, NEW key \in Keys, SaveAndAssign(key) PROVE Keeps
  <2> DEFINE bound == Bound(ed["Keymap"], key)
  <2>1. Ready(ed["Keymap"]) /\ ~Dirty(ed["Keymap"]) /\ Ready(ed["Macro"])
    BY <1>5 DEF SaveAndAssign
  <2>2. CASE SubmitWrite("Macro", ed["Macro"], ed)
    BY <1>1, <2>1, <2>2, SubmitKeepsDrafts, SubmitKeepsUncertain, SubmitVerified
       DEF Keeps, Uncertain
  <2>3. CASE ed["Keymap"].draft # None /\ SubmitWrite("Keymap", bound, ed)
    <3>1. bound \in EditorOf(SnapshotsOf("Keymap"), Values["Keymap"])
      BY <1>1, <1>5, <2>3, BoundTyped
    <3>2. bound.status = ed["Keymap"].status
      BY <1>1, <1>5 DEF Bound, Stage, EditorOf
    <3>3. SubmitWrite("Keymap", bound, ed)
      BY <2>3
    <3> HIDE DEF bound
    <3>4. Ready(bound)
      BY <2>1, <3>2 DEF Ready
    <3> QED
      BY <1>1, <1>5, <2>1, <3>1, <3>2, <3>3, <3>4, SubmitKeepsDrafts, SubmitKeepsUncertain,
         SubmitVerified DEF Keeps, Uncertain
  <2> QED BY <1>5, <2>2, <2>3 DEF SaveAndAssign
<1> QED BY <1>2, <1>3, <1>4, <1>5 DEF MacroActions

\* Host lighting ends on verified lighting, so what it reports settles nothing.
LEMMA HostActionsKeep ==
  ASSUME TypeOK, SessionInv, OwnershipInv, VerifiedInv, HostActions
  PROVE  Keeps
<1>1. ASSUME NEW ticket, StartHost \/ StopHost \/ HostStarted(ticket) PROVE Keeps
  BY <1>1, EditorsKeep DEF StartHost, StopHost, HostStarted
<1>2. ASSUME NEW ticket, NEW result \in Writings("Lighting"), HostFinished(ticket, result)
      PROVE  Keeps
  <2> DEFINE L == ed["Lighting"]
             starting == "Starting" \in {host.phase, host.source}
             after == Restored(L, starting, result)
  <2>1. /\ L \in EditorOf(SnapshotsOf("Lighting"), Values["Lighting"])
        /\ "Lighting" \in Editors /\ EditorsTyped(ed)
    BY DEF HostActions, TypeOK, EditorsTyped
  <2>2. ~HostIdle /\ UNCHANGED pending /\ ed' = [ed EXCEPT !["Lighting"] = after]
    BY <1>2 DEF HostFinished, HostIdle
  <2>3. Ready(L) /\ ~Dirty(L) /\ pending = None
    BY <2>2 DEF OwnershipInv, HostKeepsBaseline, SessionInv, ExclusiveActivities
  <2>4. \A f \in Editors \ {"Lighting"} : ed'[f] = ed[f]
    BY <2>1, <2>2 DEF EditorsTyped
  <2>5. VerifiedInv'
    BY <2>2, <2>3 DEF VerifiedInv, Saving
  <2>6. L.status \notin ManualRead
    BY <2>3 DEF Ready, ManualRead, WriteProblems
  <2> QED BY <2>3, <2>4, <2>5, <2>6 DEF Keeps, DraftsKept, Resolved
<1> QED BY <1>1, <1>2 DEF HostActions

\* Answers to what is in flight.
LEMMA CompletionsKeep ==
  ASSUME TypeOK, SessionInv, WorkflowInv, VerifiedInv, Completions
  PROVE  Keeps
<1>1. ASSUME NEW c, AcceptCatalog(c) \/ AcceptArchive(c) PROVE Keeps
  BY <1>1, EditorsKeep DEF AcceptCatalog, AcceptArchive
<1>2. ASSUME NEW c, c.direction \in Directions, AcceptFeature(c) PROVE Keeps
  <2>1. PICK result \in Results(c.feature, c.direction) : Finish(c.feature, c.direction, result)
    BY <1>2 DEF AcceptFeature
  <2>2. /\ c.feature \in Editors /\ pending # None
        /\ pending.feature = c.feature /\ pending.direction = c.direction
    BY <1>2 DEF AcceptFeature, Answers
  <2>3. DraftsKept(ed') /\ Uncertain(ed') /\ VerifiedInv'
    BY <1>2, <2>1, <2>2, FinishKeeps
  <2> QED BY <2>3 DEF Keeps, Uncertain
<1> QED BY <1>1, <1>2 DEF Completions, Completion

\* No step is less careful.
LEMMA StepKeeps ==
  /\ Init => VerifiedInv
  /\ TypeOK /\ SessionInv /\ WorkflowInv /\ OwnershipInv /\ VerifiedInv /\ [Next]_vars => Keeps
<1>1. Init => VerifiedInv
  BY DEF Init, VerifiedInv, Saving
<1>2. ASSUME TypeOK, SessionInv, WorkflowInv, OwnershipInv, VerifiedInv, [Next]_vars
      PROVE  Keeps
  <2>1. CASE Reads
    <3>1. UNCHANGED ed /\ \E f, background : pending' = Ticket(f, "Read", background)
      BY <2>1 DEF Reads, CaptureArchive, RefreshNext, Observe, Read, Begin, OnlyRequest
    <3>2. UNCHANGED ed /\ (pending' = None \/ (pending' # None /\ pending'.direction = "Read"))
      BY <3>1 DEF Ticket
    <3> QED BY <1>2, <3>2, EditorsKeep
  <2>2. CASE {"Lighting", "Picture"} \subseteq Editors /\ PreparePicture
    <3> DEFINE plan == PreparationPlan(ed["Lighting"], ed["Picture"])
    <3>1. BeginPreparation(plan, ed)
      BY <2>2 DEF PreparePicture
    <3>2. plan = "SaveLighting" => Ready(ed["Lighting"]) /\ ~Dirty(ed["Lighting"])
      BY SavePlanned
    <3>3. EditorsTyped(ed) /\ DraftsKept(ed) /\ Uncertain(ed)
      BY <1>2 DEF TypeOK, DraftsKept, Uncertain, Resolved
    <3> HIDE DEF plan
    <3>4. DraftsKept(ed') /\ Uncertain(ed') /\ VerifiedInv'
      BY <2>2, <3>1, <3>2, <3>3, PreparationKeeps
    <3> QED BY <3>4 DEF Keeps, Uncertain
  <2>3. CASE UNCHANGED vars
    BY <1>2, <2>3, EditorsKeep DEF vars
  <2> QED
    BY <1>2, <2>1, <2>2, <2>3, ConnectionsKeep, SavesKeep, EditsKeep, MacroActionsKeep,
       HostActionsKeep, CompletionsKeep DEF Next
<1> QED BY <1>1, <1>2

\* A feature being saved stays verified until the answer.
THEOREM SavesAreVerified == Spec => []VerifiedInv
<1>1. Keeps => VerifiedInv'
  BY DEF Keeps
<1> QED
  BY <1>1, StepKeeps, OwnershipInvariant, WorkflowInvariant, SessionInvariant, TypeCorrect, PTL
     DEF Spec

\* No answer of the device, loss of the connection, ticket or move of host
\* lighting replaces a draft the user has edited.
THEOREM DraftsSurvive == Spec => DraftsSurviveDevice
<1>1. (/\ Keeps /\ ~recording
       /\ <<connected, generation, operation, pending, host>>'
            # <<connected, generation, operation, pending, host>>) =>
         \A f \in Editors : Dirty(ed[f]) => ed'[f].draft = ed[f].draft
  BY DEF Keeps, DraftsKept
<1> QED
  BY <1>1, StepKeeps, SavesAreVerified, OwnershipInvariant, WorkflowInvariant, SessionInvariant,
     TypeCorrect, PTL DEF Spec, DraftsSurviveDevice

\* A conflict and a write of unknown effect are settled only by reading the
\* feature, or left with the macro slot.
THEOREM UncertaintyStays == Spec => UncertaintyNeedsRead
<1>1. Keeps => \A f \in Editors :
                 (ed[f].status \in ManualRead /\ ed'[f].status \notin ManualRead) =>
                   \/ f = "Macro" /\ slot' # slot
                   \/ pending # None /\ pending.feature = f /\ pending.direction = "Read"
                      /\ ed'[f].status \in {"Ready", "Read"}
  BY DEF Keeps, Resolved
<1> QED
  BY <1>1, StepKeeps, SavesAreVerified, OwnershipInvariant, WorkflowInvariant, SessionInvariant,
     TypeCorrect, PTL DEF Spec, UncertaintyNeedsRead

=============================================================================
