--------------------------- MODULE SessionSafety ---------------------------
(***************************************************************************)
(* What the session promises.  The invariants relate the editors, the      *)
(* ticket in flight and the activities that exclude each other; the action *)
(* properties say what no event of the device or of the connection may do. *)
(***************************************************************************)
EXTENDS Session

AssignmentSteps == {"SavingMacro", "Assigning"}
HostPhases == {"Idle", "Starting", "Active", "Stopping"}
HostTickets == [generation : 0 .. MaxGeneration, operation : 0 .. MaxOperation]
Assignments == [step : AssignmentSteps, key : Keys, macroSaved : BOOLEAN]
HostStates ==
  [phase : HostPhases, source : {"Starting", "Active", None}, ticket : HostTickets \cup {None}]

\* One editor per supported feature, each holding that feature's own values.
EditorsTyped(editors) ==
  /\ editors = [f \in Editors |-> editors[f]]
  /\ \A f \in Editors : editors[f] \in EditorOf(SnapshotsOf(f), Values[f])

\* Every variable has the type its Rust field has.
TypeOK ==
  /\ connected \in BOOLEAN
  /\ generation \in 0 .. MaxGeneration
  /\ operation \in 0 .. MaxOperation
  /\ pending \in Tickets \cup {None}
  /\ EditorsTyped(ed)
  /\ slot \in Slots
  /\ occupancy \in [Slots -> Occupancies]
  /\ scan \in Scans \cup {None}
  /\ assignment \in Assignments \cup {None}
  /\ assignment # None => {"Keymap", "Macro"} \subseteq Editors
  /\ preparation \in PreparationSteps \cup {None}
  /\ preparation # None => {"Lighting", "Picture"} \subseteq Editors
  /\ recording \in BOOLEAN
  /\ host \in HostStates
  /\ archive \in {"Empty", "Ready", "Failed"}

Saving(f) == pending # None /\ pending.direction = "Save" /\ pending.feature = f

\* A feature has a submitted value exactly while its save is in flight: no
\* rejected request, lost connection, stale answer or workflow step leaves a
\* submission behind or spends one that is still on its way.
SubmittedIffSaving == \A f \in Editors : ed[f].submitted # None <=> Saving(f)

\* An editor says Ready only over a live connection and about a snapshot: a
\* reconnection never lets a cache pass for verified device state.
ReadyIsConnected ==
  \A f \in Editors : Ready(ed[f]) => connected /\ ed[f].baseline # None

\* Host lighting, macro recording and a device operation exclude each other,
\* and each runs only on a connection; no catalog scan runs beside host
\* lighting or a recording, whatever the order they were asked for in.
ExclusiveActivities ==
  /\ pending # None => /\ HostIdle /\ ~recording /\ connected
                       /\ pending.generation = generation
  /\ ~HostIdle => ~recording /\ connected /\ scan = None
  /\ recording => connected /\ scan = None
  /\ scan # None => connected /\ scan.generation = generation

\* While host lighting owns the keyboard the lighting editor is verified and
\* unedited, so the baseline a restoration is compared with is the one the
\* host mode started from.
HostKeepsBaseline ==
  ~HostIdle => /\ Ready(ed["Lighting"])
               /\ ~Dirty(ed["Lighting"])
               /\ ed["Lighting"].draft # None

\* A recorder is attached only to a verified macro with a draft, so an edge or
\* the releases of a stop always have a program to go to.
RecorderHasDraft == recording => Ready(ed["Macro"]) /\ ed["Macro"].draft # None

\* A workflow waits for exactly the foreground operation it issued, and holds
\* what its next step builds on: the keymap stays verified and unedited until
\* its binding is staged, and a key is bound only to a macro that is verified.
AssignmentOwnsTicket ==
  assignment # None =>
    /\ pending # None /\ ~pending.background
    /\ IF assignment.step = "SavingMacro"
         THEN /\ Saving("Macro")
              /\ Ready(ed["Keymap"]) /\ ~Dirty(ed["Keymap"])
         ELSE /\ Saving("Keymap")
              /\ Ready(ed["Macro"])
              /\ ~Dirty(ed["Macro"]) \/ assignment.macroSaved

\* Picture preparation waits for the operation of its step, and no colour edit
\* exists that the switch of lighting effect could strand.
PreparationOwnsTicket ==
  preparation # None =>
    /\ pending # None /\ ~pending.background
    /\ ~Dirty(ed["Picture"])
    /\ CASE preparation = "ReadingLighting" ->
              pending.feature = "Lighting" /\ pending.direction = "Read"
         [] preparation = "SavingLighting" -> Saving("Lighting")
         [] preparation = "ReadingPicture" ->
              pending.feature = "Picture" /\ pending.direction = "Read"

\* Unsaved colours and an unsaved change of the layer they belong to never
\* coexist: saving either would put the colours on the wrong layer.
SelectorEditsExclusive ==
  {"Lighting", "Picture"} \subseteq Editors =>
    ~ /\ Dirty(ed["Picture"])
      /\ ed["Lighting"].baseline # None
      /\ ed["Lighting"].baseline.value # None
      /\ ed["Lighting"].draft # None
      /\ Selector(ed["Lighting"].draft) # Selector(ed["Lighting"].baseline.value)

\* While colours are being written, lighting is verified, its selector is not
\* being changed and it shows the context the colours were read in.
PictureSavedInContext ==
  (Saving("Picture") /\ "Lighting" \in Editors /\ ed["Lighting"].baseline # None) =>
    /\ Ready(ed["Lighting"])
    /\ ~SelectorPending(ed["Lighting"])
    /\ ed["Picture"].baseline.context = ed["Lighting"].baseline.context

\* A lighting write that changes effect or option leaves no unsaved colours
\* behind, also when the keyboard was found in a host mode.
SelectorSavedAlone ==
  (Saving("Lighting") /\ "Picture" \in Editors /\ Dirty(ed["Picture"])) =>
    BaselineSelector(ed["Lighting"]) = Selector(ed["Lighting"].submitted)

-----------------------------------------------------------------------------
(* Action properties. *)

\* A step that hands out or spends a ticket, makes or loses the connection or
\* moves host lighting keeps every draft the user has edited, with whatever the
\* device answered; only the end of a recording adds its releases.
DraftsSurviveDevice ==
  [][(/\ <<connected, generation, operation, pending, host>>'
            # <<connected, generation, operation, pending, host>>
      /\ ~recording) =>
       \A f \in Editors : Dirty(ed[f]) => ed'[f].draft = ed[f].draft]_vars

\* Once a write's effect is unknown or the device disagrees with a draft, only
\* the answer to a read of that feature makes the editor ready again (or the
\* user leaves the macro slot).  Reconnecting is not enough.
UncertaintyNeedsRead ==
  [][\A f \in Editors :
       (ed[f].status \in ManualRead /\ ed'[f].status \notin ManualRead) =>
         \/ f = "Macro" /\ slot' # slot
         \/ pending # None /\ pending.feature = f /\ pending.direction = "Read"
            /\ ed'[f].status \in {"Ready", "Read"}]_vars
=============================================================================
