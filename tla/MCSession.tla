----------------------------- MODULE MCSession -----------------------------
(***************************************************************************)
(* Small instances of the session.  Each configuration supports the        *)
(* features one family of rules couples; a session without the others is   *)
(* one the code can build (Session::with_macros, with_lighting, ...).      *)
(***************************************************************************)
EXTENDS SessionSafety

CONSTANTS plain, play1,  \* key actions
          empty, short, endless,  \* macro programs
          dim, bright,  \* brightness levels
          red, blue,  \* pictures
          none, layer1, layer2  \* selector contexts

Snapshot(value, context) == [value |-> value, context |-> context, hosted |-> FALSE]

Setting(effect, option, level) == [effect |-> effect, option |-> option, level |-> level]
PerKey1 == Setting("perkey", "layer1", bright)
PerKey1Dim == Setting("perkey", "layer1", dim)
PerKey2 == Setting("perkey", "layer2", bright)
Steady == Setting("steady", None, bright)

NoValues == [f \in Features |-> {}]
Keymaps == [{"k1"} -> {plain, play1}]

MCContexts == {none, layer1, layer2}
MCSlots == {"m1", "m2"}
MCFirstSlot == "m1"
MCStageable == {empty, short}
MCPictureDefault == PerKey1
MCBindingAction == [s \in MCSlots |-> play1]

\* Macros and keys: a one-key board, a stored program the editor cannot repeat.
MacroSupported == {"Keymap", "Macro"}
MacroValues == [NoValues EXCEPT !["Keymap"] = Keymaps, !["Macro"] = {empty, short, endless},
                                !["Lighting"] = {PerKey1}]
MacroReported ==
  [NoValues EXCEPT !["Keymap"] = {Snapshot(v, none) : v \in Keymaps},
                   !["Macro"] = {Snapshot(v, none) : v \in {empty, endless, None}}]

\* Lighting, the per-key picture whose layers are lighting options, the archive
\* and host lighting behind a settings toggle.
LightSupported == {"Lighting", "Picture", "Settings", "Archive"}
Toggles == [{"streaming", "lock"} -> BOOLEAN]
LightValues == [NoValues EXCEPT !["Lighting"] = {PerKey1, PerKey1Dim, PerKey2, Steady},
                                !["Picture"] = {red, blue}, !["Settings"] = Toggles,
                                !["Macro"] = MCStageable]
LightReported ==
  [NoValues EXCEPT !["Lighting"] = {Snapshot(PerKey1, layer1), Snapshot(PerKey2, layer2),
                                    Snapshot(Steady, none),
                                    [value |-> None, context |-> none, hosted |-> TRUE]},
                   !["Picture"] = {Snapshot(red, layer1), Snapshot(red, layer2)},
                   !["Settings"] = {Snapshot(v, none) : v \in Toggles}]

=============================================================================
