------------------------------ MODULE Session ------------------------------
(***************************************************************************)
(* The session of byakko-core (src/session.rs): one connection to a        *)
(* keyboard, one editor per feature, at most one correlated device         *)
(* operation, and the activities that exclude it: host lighting, macro     *)
(* recording and the two workflows that chain operations (save and assign  *)
(* a macro, prepare the per-key picture).  A passive macro catalog scan is *)
(* the only second operation that may be outstanding.                      *)
(*                                                                         *)
(* The environment is open.  The user calls any operation in any order.    *)
(* Completions and host events arrive with any generation and operation    *)
(* handed out so far and any result, late, reordered or repeated; the      *)
(* session has to refuse those that answer nothing.                        *)
(***************************************************************************)
EXTENDS Editor, Naturals, FiniteSets

CONSTANTS
  Supported,       \* the features this session is configured with
  Values,          \* Values[f]: what feature f's drafts can hold
  Contexts,        \* revisions and selector contexts
  Reported,        \* Reported[f]: the snapshots the device may report
  Slots,           \* macro slots
  FirstSlot,       \* the slot a new session selects
  EmptyProgram,    \* the macro program without events
  Stageable,       \* macro programs whose repeat count the editor accepts
  BindingAction,   \* BindingAction[s]: the key action that plays slot s
  PictureEffect,   \* the lighting effect that displays the picture
  PictureDefault,  \* that effect's default setting
  RequiredField,   \* the settings toggle host lighting needs, or None
  NoContext,       \* the empty picture context
  MaxGeneration,   \* u64::MAX, where checked_add refuses
  MaxOperation

Features == {"Keymap", "Macro", "Lighting", "Picture", "Settings"}
Editors == Supported \ {"Archive"}
Directions == {"Read", "Save"}
Occupancies == {"Unknown", "Empty", "Configured", "Opaque"}

\* `hosted` tells a lighting snapshot taken in a host mode from other content
\* without an editable value.
SnapshotsOf(f) ==
  [value : Values[f] \cup {None}, context : Contexts, hosted : BOOLEAN]

ASSUME FeaturesAssumption == Supported \subseteq Features \cup {"Archive"}
ASSUME ValuesAssumption ==
  /\ \A f \in Features : None \notin Values[f] \cup SnapshotsOf(f)
  /\ \A f \in Features : Reported[f] \subseteq SnapshotsOf(f)
  /\ Stageable \subseteq Values["Macro"]
  /\ PictureDefault \in Values["Lighting"] /\ PictureDefault.effect = PictureEffect
ASSUME SlotsAssumption == FirstSlot \in Slots
\* A keymap binds every key, and a macro's action can be bound to any of them.
Keys == UNION {DOMAIN keymap : keymap \in Values["Keymap"]}
ASSUME BindingAssumption ==
  \A keymap \in Values["Keymap"], key \in Keys, s \in Slots :
    [keymap EXCEPT ![key] = BindingAction[s]] \in Values["Keymap"]
ASSUME BoundsAssumption == MaxGeneration \in Nat /\ MaxOperation \in Nat
Tickets ==
  [generation : 0 .. MaxGeneration, operation : 0 .. MaxOperation, direction : Directions,
   feature : Supported, background : BOOLEAN]
Scans ==
  [generation : 0 .. MaxGeneration, operation : 0 .. MaxOperation, refreshed : SUBSET Slots]
PreparationSteps == {"ReadingLighting", "SavingLighting", "ReadingPicture"}
\* A record or a string is never the absent value.
ASSUME NoneAssumption ==
  None \notin Tickets \cup Scans /\ None \notin PreparationSteps

VARIABLES
  connected,    \* Connection::Connected; its generation is always `generation`
  generation,   \* the last connection generation handed out
  operation,    \* the last operation ID handed out
  pending,      \* the ticket of the operation in flight, or None
  ed,           \* ed[f]: the editor of feature f
  slot,         \* the macro slot the macro editor is bound to
  occupancy,    \* occupancy[s]: what the macro library knows of slot s
  scan,         \* the catalog scan in flight, or None
  assignment,   \* the save-and-assign workflow, or None
  preparation,  \* the picture preparation workflow, or None
  recording,    \* whether a macro recorder is attached to the draft
  host,         \* host lighting activity
  archive       \* status of the retained archive capture

library == <<occupancy, scan>>
activities == <<recording, host, archive>>
workflows == <<assignment, preparation>>
vars == <<connected, generation, operation, pending, ed, slot, library,
          workflows, activities>>
OnlyEditors ==
  UNCHANGED <<connected, generation, operation, pending, slot, library, workflows, activities>>
OnlyRequest ==
  UNCHANGED <<connected, generation, ed, slot, library, workflows, activities>>
-----------------------------------------------------------------------------
(* Guards shared by the operations. *)

HostIdle == host.phase = "Idle"

\* Faulty: host lighting does not count as an activity.
FaultyIdleIgnoresHost == ~recording /\ pending = None

Idle == HostIdle /\ ~recording /\ pending = None

\* Faulty: begin under a recording, under host lighting, past the last ID.
FaultyMayIssueRecording == HostIdle /\ connected /\ operation < MaxOperation
FaultyMayIssueUnchecked == HostIdle /\ ~recording /\ connected

\* What `begin` asks for apart from the pending slot being free.
MayIssue == HostIdle /\ ~recording /\ connected /\ operation < MaxOperation
CanBegin == pending = None /\ MayIssue

Ticket(f, direction, background) ==
  [generation |-> generation, operation |-> operation + 1,
   direction |-> direction, feature |-> f, background |-> background]

Begin(f, direction, background) ==
  /\ pending' = Ticket(f, direction, background)
  /\ operation' = operation + 1

\* Faulty: any save in flight lets edits continue.
FaultyEditableActivity(f) ==
  /\ preparation = None
  /\ \/ ~recording /\ pending # None /\ (pending.background \/ pending.direction = "Save")
     \/ Idle

\* Edits may continue under a background read and under the save of the same
\* feature; every other activity blocks them.
EditableActivity(f) ==
  /\ preparation = None
  /\ \/ /\ ~recording
        /\ pending # None
        /\ pending.background \/ (pending.feature = f /\ pending.direction = "Save")
     \/ Idle

Selector(setting) == <<setting.effect, setting.option>>

\* The effect and option of the lighting baseline, if it is editable.
BaselineSelector(e) ==
  IF e.baseline = None \/ e.baseline.value = None
    THEN None ELSE Selector(e.baseline.value)

SelectorPending(e) ==
  IF e.baseline.value = None
    THEN e.draft # None
    ELSE e.draft = None \/ Selector(e.draft) # Selector(e.baseline.value)

\* check_picture_selector_change: unsaved picture edits pin effect and option.
SelectorChangeAllowed(setting) ==
  "Picture" \in Editors =>
    \/ ~Dirty(ed["Picture"])
    \/ /\ ed["Lighting"].baseline # None
       /\ ed["Lighting"].baseline.value # None
       /\ Selector(ed["Lighting"].baseline.value) = Selector(setting)

\* Faulty: a staged layer change, or a context that moved, does not matter.
FaultySettledIgnoresDraft ==
  ("Lighting" \in Editors /\ ed["Lighting"].baseline # None) =>
    /\ Ready(ed["Lighting"])
    /\ ed["Picture"].baseline # None
    /\ ed["Picture"].baseline.context = ed["Lighting"].baseline.context
FaultySettledIgnoresContext ==
  ("Lighting" \in Editors /\ ed["Lighting"].baseline # None) =>
    Ready(ed["Lighting"]) /\ ~SelectorPending(ed["Lighting"])

\* check_picture_selector: picture edits need the displayed layer's lighting
\* loaded, settled and of the same context.
SelectorSettled ==
  ("Lighting" \in Editors /\ ed["Lighting"].baseline # None) =>
    /\ Ready(ed["Lighting"])
    /\ ~SelectorPending(ed["Lighting"])
    /\ ed["Picture"].baseline # None
    /\ ed["Picture"].baseline.context = ed["Lighting"].baseline.context
-----------------------------------------------------------------------------
(* What the device can answer. *)

Recoveries == {"NotAttempted", "Verified", "Failed", "Unverified"}

Result(kind, snapshot, recovery) ==
  [kind |-> kind, snapshot |-> snapshot, recovery |-> recovery]

Readings(f) == {Result("ok", s, None) : s \in Reported[f]} \cup {Result("error", None, None)}

Writings(f) ==
  {Result("ok", s, None) : s \in Reported[f]}
    \cup {Result("error", None, r) : r \in Recoveries}
    \cup {Result("invalid", None, None)}

Results(f, direction) ==
  CASE f = "Archive" -> {Result(k, None, None) : k \in {"ok", "error"}}
    [] direction = "Read" -> Readings(f)
    [] OTHER -> Writings(f)

Catalogs ==
  {[kind |-> "ok", slots |-> content] : content \in [Slots -> Occupancies \ {"Unknown"}]}
    \cup {[kind |-> "error"]}

-----------------------------------------------------------------------------
(* Connection. *)

InvalidateAll == [f \in Editors |-> Invalidate(ed[f])]

LibraryInvalidated ==
  /\ occupancy' = [s \in Slots |-> "Unknown"]
  /\ scan' = None

Init ==
  /\ connected = FALSE
  /\ generation = 0
  /\ operation = 0
  /\ pending = None
  /\ ed = [f \in Editors |-> NewEditor]
  /\ slot = FirstSlot
  /\ occupancy = [s \in Slots |-> "Unknown"]
  /\ scan = None
  /\ assignment = None
  /\ preparation = None
  /\ recording = FALSE
  /\ host = [phase |-> "Idle", source |-> None, ticket |-> None]
  /\ archive = "Empty"

Connect ==
  /\ Idle
  /\ generation < MaxGeneration
  /\ generation' = generation + 1
  /\ connected' = TRUE
  /\ ed' = InvalidateAll
  /\ LibraryInvalidated
  /\ UNCHANGED <<operation, pending, slot, workflows, activities>>

LostWrite == [kind |-> "error", snapshot |-> None, recovery |-> "Unverified"]

\* What the loss of the connection leaves of editor f: an unfinished host
\* activity or save becomes an unverified write, a recording is completed
\* with its releases (`recorded`), and anything readable has to be read again.
Abandoned(f, recorded) ==
  LET hosted == IF f = "Lighting" /\ ~HostIdle
                  THEN ApplyResult(ed[f], LostWrite) ELSE ed[f]
      taken == IF f = "Macro" /\ recording THEN Stage(hosted, recorded) ELSE hosted
      failed == IF pending # None /\ pending.direction = "Save" /\ pending.feature = f
                  THEN ApplyResult(taken, LostWrite) ELSE taken
  IN Invalidate(failed)

Disconnect ==
  /\ \E recorded \in (IF recording THEN Values["Macro"] ELSE {None}) :
       ed' = [f \in Editors |-> Abandoned(f, recorded)]
  /\ recording' = FALSE
  /\ host' = [phase |-> "Idle", source |-> None, ticket |-> None]
  /\ connected' = FALSE
  /\ archive' = IF pending # None /\ pending.feature = "Archive" THEN "Failed" ELSE archive
  /\ pending' = None
  /\ assignment' = None
  /\ preparation' = None
  /\ LibraryInvalidated
  /\ UNCHANGED <<generation, operation, slot>>
-----------------------------------------------------------------------------
(* Reading, editing and saving one feature. *)

Read(f) ==
  /\ f \in Supported
  /\ CanBegin
  /\ Begin(f, "Read", FALSE)
  /\ OnlyRequest

CaptureArchive == Read("Archive")

Observe(f) ==
  /\ CanBegin
  /\ Begin(f, "Read", TRUE)
  /\ OnlyRequest

\* refresh_next: the first feature whose cache is not ready, in this order; a
\* macro slot only once it has been read.
Unready(f) == f \in Editors /\ ~Ready(ed[f])
RefreshNext ==
  /\ \/ Unready("Keymap") /\ Read("Keymap")
     \/ /\ ~Unready("Keymap") /\ Unready("Lighting") /\ Read("Lighting")
     \/ /\ \A f \in {"Keymap", "Lighting"} : ~Unready(f)
        /\ Unready("Settings") /\ Read("Settings")
     \/ /\ \A f \in {"Keymap", "Lighting", "Settings"} : ~Unready(f)
        /\ Unready("Picture") /\ Read("Picture")
     \/ /\ \A f \in Features \ {"Macro"} : ~Unready(f)
        /\ Unready("Macro") /\ ed["Macro"].baseline # None /\ Read("Macro")

\* One setting differs from the baseline, or none does.
Changed(original, settings) == {x \in DOMAIN original : original[x] # settings[x]}

\* One key of the draft is given another action.
KeymapEdited(e, next) == \E key \in DOMAIN e.draft : next = [e.draft EXCEPT ![key] = next[key]]

\* The first staged change, if there is one, is of this field; any of several
\* may come first.
MayChange(x, changes) == changes = {} \/ x \in changes

\* One setting at a time: the staged change and the change in flight have to be
\* of this field.
SettingsEdited(e, next) ==
  \E x \in DOMAIN e.draft :
    /\ next = [e.draft EXCEPT ![x] = next[x]]
    /\ e.baseline.value # None
    /\ e.submitted # None => MayChange(x, Changed(e.baseline.value, e.submitted))
    /\ Changed(e.baseline.value, e.draft) \subseteq {x}

\* What the feature's own edit rule turns the draft into.
Edited(f, e, next) ==
  CASE f = "Keymap" -> KeymapEdited(e, next)
    [] f = "Settings" -> SettingsEdited(e, next)
    [] f = "Macro" -> next \in Stageable
    [] f = "Picture" -> TRUE

Edit(f, next) ==
  /\ EditableActivity(f)
  /\ Ready(ed[f])
  /\ ed[f].draft # None
  /\ f = "Picture" => SelectorSettled
  /\ Edited(f, ed[f], next)
  /\ ed' = [ed EXCEPT ![f] = Stage(@, next)]
  /\ OnlyEditors

\* edit_lighting consults the picture only when there is a draft to edit; with
\* none, a keyboard in host mode may still be given an onboard effect.
EditLighting(next) ==
  /\ EditableActivity("Lighting")
  /\ Ready(ed["Lighting"])
  /\ IF ed["Lighting"].draft # None
       THEN SelectorChangeAllowed(next)
       ELSE ed["Lighting"].baseline.hosted
  /\ ed' = [ed EXCEPT !["Lighting"] = Stage(@, next)]
  /\ OnlyEditors

StageLighting(next) ==
  /\ EditableActivity("Lighting")
  /\ SelectorChangeAllowed(next)
  /\ Ready(ed["Lighting"])
  /\ ed["Lighting"].draft # None \/ ed["Lighting"].baseline.hosted
  /\ ed' = [ed EXCEPT !["Lighting"] = Stage(@, next)]
  /\ OnlyEditors

RevertEdit(f) ==
  /\ Idle
  /\ CanRevert(ed[f])
  /\ ed' = [ed EXCEPT ![f] = Revert(@)]
  /\ OnlyEditors

\* The feature's plan, and the session's own check before it.
Planned(f) ==
  CASE f = "Macro" -> ed[f].draft \in Stageable
    [] f = "Lighting" -> ed[f].draft # None => SelectorChangeAllowed(ed[f].draft)
    [] f = "Picture" -> SelectorSettled
    [] f = "Settings" -> /\ ed[f].baseline.value # None
                         /\ Cardinality(Changed(ed[f].baseline.value, ed[f].draft)) = 1
    [] OTHER -> TRUE

\* Submits e as feature f's editor and asks for the ticket of its write; when
\* no ticket is given out the submission is withdrawn.  `editors` holds the
\* other features' editors.
SubmitWrite(f, e, editors) ==
  IF MayIssue
    THEN /\ ed' = [editors EXCEPT ![f] = RequestApply(e)]
         /\ Begin(f, "Save", FALSE)
    ELSE /\ ed' = [editors EXCEPT ![f] = CancelApply(RequestApply(e))]
         /\ pending' = None
         /\ UNCHANGED operation

Save(f) ==
  /\ CanRequestApply(ed[f])
  /\ Planned(f)
  /\ IF pending = None
       THEN SubmitWrite(f, ed[f], ed)
       ELSE /\ ed' = [ed EXCEPT ![f] = CancelApply(RequestApply(@))]
            /\ UNCHANGED <<pending, operation>>
  /\ scan' = IF f = "Macro" /\ CanBegin THEN None ELSE scan
  /\ UNCHANGED <<connected, generation, slot, occupancy, workflows, activities>>
-----------------------------------------------------------------------------
(* Macro slots, the catalog scan and recording. *)

SelectMacro(s) ==
  /\ Idle
  /\ s # slot
  /\ ~Dirty(ed["Macro"])
  /\ ed["Macro"].submitted = None
  /\ slot' = s
  /\ ed' = [ed EXCEPT !["Macro"] = [@ EXCEPT !.baseline = None, !.draft = None,
                                              !.status = "Unloaded"]]
  /\ UNCHANGED <<connected, generation, operation, pending, library, workflows, activities>>

RequestCatalog ==
  /\ HostIdle
  /\ ~recording
  /\ connected
  /\ scan = None
  /\ operation < MaxOperation
  /\ operation' = operation + 1
  /\ scan' = [generation |-> generation, operation |-> operation + 1, refreshed |-> {}]
  /\ UNCHANGED <<connected, generation, pending, ed, slot, occupancy, workflows, activities>>

CancelCatalog ==
  /\ scan' = None
  /\ UNCHANGED <<connected, generation, operation, pending, ed, slot, occupancy, workflows,
                 activities>>

ConfigurationChanged ==
  /\ LibraryInvalidated
  /\ UNCHANGED <<connected, generation, operation, pending, ed, slot, workflows, activities>>

\* A catalog completion correlated by c.  The whole catalog is refused when a
\* slot is missing, repeated or invalid; slots the editor observed meanwhile
\* keep its verdict.
Cataloged(result) ==
  IF result.kind = "ok"
    THEN [s \in Slots |-> IF s \in scan.refreshed THEN occupancy[s] ELSE result.slots[s]]
    ELSE occupancy

AcceptCatalog(c) ==
  /\ scan # None
  /\ scan.generation = c.generation
  /\ scan.operation = c.operation
  /\ scan' = None
  /\ \E result \in Catalogs : occupancy' = Cataloged(result)
  /\ UNCHANGED <<connected, generation, operation, pending, ed, slot, workflows, activities>>

StartRecording ==
  /\ Idle
  /\ scan = None
  /\ Ready(ed["Macro"])
  /\ ed["Macro"].draft \in Stageable
  /\ recording' = TRUE
  /\ UNCHANGED <<connected, generation, operation, pending, ed, slot, library, workflows,
                 host, archive>>

\* The recorder owns the draft: each edge, and the releases appended on stop.
RecordInput(next) ==
  /\ recording
  /\ ed' = [ed EXCEPT !["Macro"] = Stage(@, next)]
  /\ OnlyEditors

StopRecording(next) ==
  /\ recording
  /\ recording' = FALSE
  /\ ed' = [ed EXCEPT !["Macro"] = Stage(@, next)]
  /\ UNCHANGED <<connected, generation, operation, pending, slot, library, workflows,
                 host, archive>>
-----------------------------------------------------------------------------
(* Completions of the operation in flight.  A completion is a record       *)
(* [generation, operation, feature, direction] with a result; one that     *)
(* does not answer the pending ticket is ignored and changes nothing.      *)

Answers(c) ==
  /\ pending # None
  /\ c.generation = pending.generation
  /\ c.operation = pending.operation
  /\ c.feature = pending.feature
  /\ c.direction = pending.direction

Received(f, direction, result) ==
  IF direction = "Read" THEN ReadResult(ed[f], result) ELSE ApplyResult(ed[f], result)

Outcome(e) ==
  CASE e.status = "Ready" -> "Success"
    [] e.status = "Conflict" -> "Conflict"
    [] OTHER -> "Failed"

\* Lighting was observed under another selector context than the one the
\* picture was read in: the picture has to be read again.
ContextMoved(e, snapshot) ==
  /\ Outcome(e) # "Failed"
  /\ snapshot.context # NoContext
  /\ ed["Picture"].baseline # None
  /\ ed["Picture"].baseline.context \notin {NoContext, snapshot.context}

EditorsAfter(f, direction, result) ==
  LET e == Received(f, direction, result)
  IN [g \in Editors |->
        IF g = f THEN e
        ELSE IF g = "Picture" /\ f = "Lighting" /\ ContextMoved(e, result.snapshot)
               THEN Invalidate(ed[g])
               ELSE ed[g]]

OccupancyOf(snapshot) ==
  CASE snapshot.value = None -> "Opaque"
    [] snapshot.value = EmptyProgram -> "Empty"
    [] OTHER -> "Configured"

\* A write that may have reached the device without a known effect.
UncertainWrite(e, result) ==
  \/ e.status = "Apply" /\ result.recovery \in {"Failed", "Unverified"}
  \/ e.status \in {"InvalidApplyResult", "ApplyReadbackMismatch"}

\* observe_editor: the library learns the selected slot from its editor.
ObserveSlot(e, result) ==
  occupancy' =
    [occupancy EXCEPT ![slot] =
       IF Outcome(e) # "Failed" THEN OccupancyOf(result.snapshot)
       ELSE IF UncertainWrite(e, result) THEN "Unknown" ELSE @]

\* A slot the editor observed during a scan is not overwritten by the scan; a
\* failed save ends the scan.
ScanAfter(f, direction, e) ==
  IF direction = "Save" /\ Outcome(e) = "Failed" THEN None
  ELSE IF f = "Macro" /\ Outcome(e) # "Failed" /\ scan # None
         THEN [scan EXCEPT !.refreshed = @ \cup {slot}]
         ELSE scan

Settle(editors) ==
  /\ ed' = editors
  /\ pending' = None
  /\ UNCHANGED operation
-----------------------------------------------------------------------------
(* Save and assign: the macro first, then the key that plays it. *)

Bound(keymap, key) == Stage(keymap, [keymap.draft EXCEPT ![key] = BindingAction[slot]])

SaveAndAssign(key) ==
  LET bound == Bound(ed["Keymap"], key)
  IN /\ Idle
     /\ connected
     /\ Ready(ed["Keymap"]) /\ ~Dirty(ed["Keymap"])
     /\ Ready(ed["Macro"]) /\ ed["Macro"].draft \in Stageable
     /\ IF Dirty(ed["Macro"])
          THEN /\ ed["Macro"].submitted = None
               /\ SubmitWrite("Macro", ed["Macro"], ed)
               /\ scan' = IF MayIssue THEN None ELSE scan
               /\ assignment' = IF MayIssue THEN [step |-> "SavingMacro", key |-> key,
                                                  macroSaved |-> FALSE] ELSE None
          ELSE /\ ed["Keymap"].draft # None
               /\ CanRequestApply(bound)
               /\ SubmitWrite("Keymap", bound, ed)
               /\ assignment' = IF MayIssue THEN [step |-> "Assigning", key |-> key,
                                                  macroSaved |-> FALSE] ELSE None
               /\ UNCHANGED scan
     /\ UNCHANGED <<connected, generation, slot, occupancy, preparation, activities>>

\* The macro has been saved: bind its key, or report that it already is bound.
AssignKey(editors) ==
  LET bound == Bound(editors["Keymap"], assignment.key)
  IN IF ~Ready(editors["Keymap"]) \/ editors["Keymap"].draft = None
       THEN Settle(editors) /\ assignment' = None
       ELSE IF ~CanRequestApply(bound)
              THEN Settle([editors EXCEPT !["Keymap"] = bound]) /\ assignment' = None
              ELSE /\ SubmitWrite("Keymap", bound, editors)
                   /\ assignment' = IF MayIssue THEN [assignment EXCEPT !.step = "Assigning",
                                                                        !.macroSaved = TRUE]
                                                ELSE None

\* Any other outcome ends the workflow: success, partial success or failure.
AdvanceAssignment(editors, f, direction) ==
  IF /\ assignment.step = "SavingMacro"
     /\ f = "Macro" /\ direction = "Save" /\ Outcome(editors[f]) = "Success"
    THEN AssignKey(editors)
    ELSE Settle(editors) /\ assignment' = None
-----------------------------------------------------------------------------
(* Picture preparation: lighting known, its display effect active, then the *)
(* picture of that effect read.                                             *)

\* What stands in the way whatever comes next.
Unprepared(lighting, picture) ==
  \/ Dirty(lighting)
  \/ {lighting.status, picture.status} \cap ManualRead # {}
  \/ "Read" \in {lighting.status, picture.status}
  \/ Ready(lighting) /\ lighting.draft = None

\* What there is to do next.
PreparationStep(lighting, picture) ==
  IF ~Ready(lighting) THEN "ReadLighting"
  ELSE IF lighting.draft.effect # PictureEffect THEN "SaveLighting"
  ELSE IF Ready(picture) THEN "Nothing" ELSE "ReadPicture"

\* Faulty: unsaved colours never stand in the way.
FaultyPreparationPlan(lighting, picture) ==
  IF Unprepared(lighting, picture) THEN "Refuse" ELSE PreparationStep(lighting, picture)

\* The next step, or "Refuse": no step is taken while colours are unsaved.
PreparationPlan(lighting, picture) ==
  IF \/ Unprepared(lighting, picture)
     \/ Dirty(picture) /\ PreparationStep(lighting, picture) # "Nothing"
    THEN "Refuse" ELSE PreparationStep(lighting, picture)

\* Starts the planned operation on `editors`, or ends the preparation.
BeginPreparation(plan, editors) ==
  CASE plan = "ReadLighting" /\ MayIssue ->
         /\ ed' = editors
         /\ Begin("Lighting", "Read", FALSE)
         /\ preparation' = "ReadingLighting"
    [] plan = "ReadPicture" /\ MayIssue ->
         /\ ed' = editors
         /\ Begin("Picture", "Read", FALSE)
         /\ preparation' = "ReadingPicture"
    [] plan = "SaveLighting" ->
         /\ SubmitWrite("Lighting", Stage(editors["Lighting"], PictureDefault), editors)
         /\ preparation' = IF MayIssue THEN "SavingLighting" ELSE None
    [] OTHER -> Settle(editors) /\ preparation' = None

PreparePicture ==
  /\ Idle
  /\ connected
  /\ BeginPreparation(PreparationPlan(ed["Lighting"], ed["Picture"]), ed)
  /\ UNCHANGED <<connected, generation, slot, library, assignment, activities>>

AdvancePreparation(editors, f, direction) ==
  LET succeeded == Outcome(editors[f]) = "Success"
  IN CASE /\ preparation = "ReadingLighting"
          /\ f = "Lighting" /\ direction = "Read" /\ succeeded ->
            BeginPreparation(PreparationPlan(editors["Lighting"], editors["Picture"]), editors)
       [] /\ preparation = "SavingLighting"
          /\ f = "Lighting" /\ direction = "Save" /\ succeeded ->
            BeginPreparation("ReadPicture", editors)
       [] OTHER -> Settle(editors) /\ preparation' = None
-----------------------------------------------------------------------------
(* A completion: the editor takes the result, the library and the picture   *)
(* follow, the ticket is spent and a waiting workflow takes its next step.  *)

AcceptArchive(c) ==
  /\ Answers(c)
  /\ c.feature = "Archive"
  /\ archive' \in {"Ready", "Failed"}
  /\ pending' = None
  /\ assignment' = None
  /\ preparation' = None
  /\ UNCHANGED <<connected, generation, operation, ed, slot, library, recording, host>>

Finish(f, direction, result) ==
  LET editors == EditorsAfter(f, direction, result)
  IN /\ IF f = "Macro" THEN ObserveSlot(editors[f], result) ELSE UNCHANGED occupancy
     /\ scan' = ScanAfter(f, direction, editors[f])
     /\ IF assignment # None
          THEN AdvanceAssignment(editors, f, direction) /\ UNCHANGED preparation
          ELSE /\ UNCHANGED assignment
               /\ IF preparation # None
                    THEN AdvancePreparation(editors, f, direction)
                    ELSE Settle(editors) /\ UNCHANGED preparation

AcceptFeature(c) ==
  /\ Answers(c)
  /\ c.feature \in Editors
  /\ \E result \in Results(c.feature, c.direction) : Finish(c.feature, c.direction, result)
  /\ UNCHANGED <<connected, generation, slot, activities>>
-----------------------------------------------------------------------------
(* Host lighting. *)

NewTicket == [generation |-> generation, operation |-> operation + 1]

RequiredFieldEnabled ==
  RequiredField # None =>
    /\ "Settings" \in Editors
    /\ Ready(ed["Settings"])
    /\ ed["Settings"].baseline.value # None
    /\ ed["Settings"].baseline.value[RequiredField]

StartHost ==
  /\ Idle
  /\ connected
  /\ scan = None
  /\ Ready(ed["Lighting"]) /\ ~Dirty(ed["Lighting"]) /\ ed["Lighting"].draft # None
  /\ RequiredFieldEnabled
  /\ operation < MaxOperation
  /\ operation' = operation + 1
  /\ host' = [phase |-> "Starting", source |-> None, ticket |-> NewTicket]
  /\ UNCHANGED <<connected, generation, pending, ed, slot, library, workflows, recording,
                 archive>>

StopHost ==
  /\ host.phase \in {"Starting", "Active"}
  /\ host' = [host EXCEPT !.phase = "Stopping", !.source = host.phase]
  /\ UNCHANGED <<connected, generation, operation, pending, ed, slot, library, workflows,
                 recording, archive>>

HostStarted(ticket) ==
  /\ host.ticket = ticket
  /\ \/ host.phase = "Starting" /\ host' = [host EXCEPT !.phase = "Active"]
     \/ /\ host.phase = "Stopping" /\ host.source = "Starting"
        /\ host' = [host EXCEPT !.source = "Active"]
  /\ UNCHANGED <<connected, generation, operation, pending, ed, slot, library, workflows,
                 recording, archive>>

\* A restoration counts only when it reads back the baseline it started from.
\* A start that failed before anything was sent leaves lighting verified.
Restored(e, starting, result) ==
  IF result.kind = "ok" /\ e.baseline = result.snapshot
    THEN ReadResult(e, result)
    ELSE IF /\ result.kind = "error" /\ starting
            /\ result.recovery \notin {"Failed", "Unverified"}
           THEN e
           ELSE ApplyResult(e, LostWrite)

HostFinished(ticket, result) ==
  LET starting == "Starting" \in {host.phase, host.source}
  IN /\ host.phase # "Idle"
     /\ host.ticket = ticket
     /\ host' = [phase |-> "Idle", source |-> None, ticket |-> None]
     /\ ed' = [ed EXCEPT !["Lighting"] = Restored(@, starting, result)]
     /\ UNCHANGED <<connected, generation, operation, pending, slot, library, workflows,
                    recording, archive>>
-----------------------------------------------------------------------------
(* The specification.  Completions and host events carry any correlation    *)
(* handed out so far and any result the feature can produce.                *)

Completion(g, o, f, direction) ==
  [generation |-> g, operation |-> o, feature |-> f, direction |-> direction]

Connections == Connect \/ Disconnect

Reads ==
  \/ CaptureArchive
  \/ RefreshNext
  \/ \E f \in Editors : Read(f)
  \/ \E f \in Editors : Observe(f)

Edits ==
  \/ \E f \in Editors \ {"Lighting"} : \E next \in Values[f] : Edit(f, next)
  \/ "Lighting" \in Editors /\ \E next \in Values["Lighting"] : EditLighting(next)
  \/ "Lighting" \in Editors /\ \E next \in Values["Lighting"] : StageLighting(next)
  \/ \E f \in Editors : RevertEdit(f)

Saves == \E f \in Editors : Save(f)

MacroActions ==
  /\ "Macro" \in Editors
  /\ \/ \E s \in Slots : SelectMacro(s)
     \/ RequestCatalog
     \/ CancelCatalog
     \/ ConfigurationChanged
     \/ StartRecording
     \/ \E next \in Values["Macro"] : RecordInput(next)
     \/ \E next \in Values["Macro"] : StopRecording(next)
     \/ "Keymap" \in Editors /\ \E key \in Keys : SaveAndAssign(key)

HostActions ==
  /\ "Lighting" \in Editors
  /\ \/ StartHost
     \/ StopHost
     \/ \E g \in 1 .. generation, o \in 1 .. operation :
          LET ticket == [generation |-> g, operation |-> o]
          IN \/ HostStarted(ticket)
             \/ \E result \in Writings("Lighting") : HostFinished(ticket, result)

Completions ==
  \E g \in 1 .. generation, o \in 1 .. operation :
    \/ AcceptCatalog(Completion(g, o, "Catalog", "Read"))
    \/ AcceptArchive(Completion(g, o, "Archive", "Read"))
    \/ \E f \in Editors, direction \in Directions :
         AcceptFeature(Completion(g, o, f, direction))

Next ==
  \/ Connections
  \/ Reads
  \/ Edits
  \/ Saves
  \/ MacroActions
  \/ {"Lighting", "Picture"} \subseteq Editors /\ PreparePicture
  \/ HostActions
  \/ Completions

Spec == Init /\ [][Next]_vars
=============================================================================
