------------------------------- MODULE Storage -------------------------------
(***************************************************************************)
(* The local files: numbered label snapshots (storage/labels.rs), the      *)
(* appearance preferences (storage/appearance.rs) and exports              *)
(* (storage/json.rs).                                                      *)
(*                                                                         *)
(* A job is one call.  The jobs of one window run one after another, those *)
(* of other running programs at any time, and a program may end between    *)
(* any two steps.  A call that fails before it creates a file does nothing *)
(* and is no step.  A job creates one file; a name in a directory is the   *)
(* job whose file it leads to, so that a hard link and a rename give a     *)
(* file a name without touching its bytes.                                 *)
(***************************************************************************)
EXTENDS Integers

CONSTANTS
    Saves,       \* calls of labels::save_new
    Loads,       \* calls of labels::load_latest
    Exports,     \* calls of write_new, save_new_json and the like
    Appearances, \* calls of appearance::save
    Paths,       \* where exports go
    Old,         \* a file found at the start, whole
    Damaged,     \* a file found at the start that does not validate
    Found,       \* label directories that may be found
    LastNumber,  \* u64::MAX
    Attempts,    \* publications a label save tries: 16
    Batches,     \* which calls are made: jobs that meet the same names
    None

Jobs == Saves \cup Loads \cup Exports \cup Appearances

ASSUME KindsApart ==
    /\ Saves \cap (Loads \cup Exports \cup Appearances) = {}
    /\ Loads \cap (Exports \cup Appearances) = {}
    /\ Exports \cap Appearances = {}
    /\ {Old, Damaged, None} \cap Jobs = {}

\* Byakko makes no snapshot with number 0.
ASSUME FoundAssumption ==
    \A found \in Found :
        /\ found = [n \in DOMAIN found |-> found[n]]
        /\ \A n \in DOMAIN found : n \in Nat \ {0} /\ found[n] \in {Old, Damaged}

VARIABLES
    batch,       \* the calls made, one of Batches
    labels,      \* the numbered snapshots: a function from numbers
    exports,     \* the exports: a function from paths
    appearance,  \* what appearance.json is, or None
    bytes,       \* what the file of a job holds: "None", "Torn" or "Whole"
    at,          \* the next step of a job, or how it ended for its caller
    newest,      \* the newest number a job has listed; 0 is an empty directory
    tries,       \* publications a label save has lost
    before       \* history: what had been acknowledged when the job began

vars == <<batch, labels, exports, appearance, bytes, at, newest, tries, before>>
names == <<batch, labels, exports, appearance>>

Acknowledged == {j \in Jobs : at[j] = "Ok"}
Running(j) == at[j] \notin {"None", "Ok", "Failed"}

\* Faulty: the comparison keeps the smallest number.
FaultyIsNewest(number) ==
    IF DOMAIN labels = {} THEN number = 0
    ELSE number \in DOMAIN labels /\ \A n \in DOMAIN labels : number <= n

IsNewest(number) ==
    IF DOMAIN labels = {} THEN number = 0
    ELSE number \in DOMAIN labels /\ \A n \in DOMAIN labels : n <= number

Named(function, name, file) ==
    [n \in DOMAIN function \cup {name} |-> IF n = name THEN file ELSE function[n]]

Goes(j, step) == at' = [at EXCEPT ![j] = step]
-------------------------------------------------------------------------------
Init ==
    /\ batch \in Batches
    /\ labels \in Found
    /\ exports = [p \in {} |-> None]
    /\ appearance \in {None, Old}
    /\ bytes = [j \in Jobs |-> "None"]
    /\ at = [j \in Jobs |-> "None"]
    /\ newest = [j \in Jobs |-> 0]
    /\ tries = [j \in Jobs |-> 0]
    /\ before = [j \in Jobs |-> {}]

Begin(j) ==
    /\ j \in batch
    /\ at[j] = "None"
    /\ before' = [before EXCEPT ![j] = Acknowledged]

\* A pending sibling under a name of its own, for labels and appearance.
CreatePending(j) ==
    /\ j \in Saves \cup Appearances
    /\ Begin(j)
    /\ bytes' = [bytes EXCEPT ![j] = "Torn"]
    /\ Goes(j, "Write")
    /\ UNCHANGED <<names, newest, tries>>

\* reserve_new: an existing file is never opened for writing.
CreateExport(j, path) ==
    /\ j \in Exports
    /\ Begin(j)
    /\ IF path \in DOMAIN exports
         THEN Goes(j, "Failed") /\ UNCHANGED <<exports, bytes>>
         ELSE /\ exports' = Named(exports, path, j)
              /\ bytes' = [bytes EXCEPT ![j] = "Torn"]
              /\ Goes(j, "Write")
    /\ UNCHANGED <<batch, labels, appearance, newest, tries>>

BeginLoad(j) ==
    /\ j \in Loads
    /\ Begin(j)
    /\ Goes(j, "List")
    /\ UNCHANGED <<names, bytes, newest, tries>>

\* write_all and sync_all.
Write(j) ==
    /\ at[j] = "Write"
    /\ bytes' = [bytes EXCEPT ![j] = "Whole"]
    /\ Goes(j, IF j \in Saves THEN "List" ELSE IF j \in Appearances THEN "Rename" ELSE "Answer")
    /\ UNCHANGED <<names, newest, tries, before>>

\* The bytes do not all get to the file, or not to the disk: a pending file is
\* removed, an export stays where it is.
WriteFails(j) ==
    /\ at[j] = "Write"
    /\ Goes(j, "Failed")
    /\ UNCHANGED <<names, bytes, newest, tries, before>>

\* latest(): every entry there when the listing begins is listed, one made
\* meanwhile may be.
List(j, number) ==
    /\ at[j] = "List"
    /\ IsNewest(number)
    /\ newest' = [newest EXCEPT ![j] = number]
    /\ Goes(j, "Listing")
    /\ UNCHANGED <<names, bytes, tries, before>>

Listed(j, number) ==
    /\ at[j] = "Listing"
    /\ number >= newest[j]
    /\ newest' = [newest EXCEPT ![j] = number]
    /\ Goes(j, CASE j \in Loads -> "Open"
                 [] j \in Saves /\ number < LastNumber -> "Publish"
                 [] OTHER -> "Failed")
    /\ UNCHANGED <<names, bytes, tries, before>>

NextNumber(j) == newest[j] + 1

\* Faulty: a rename publishes, over whatever has the number.
FaultyPublish(j) ==
    /\ at[j] = "Publish"
    /\ labels' = Named(labels, NextNumber(j), j)
    /\ Goes(j, "Answer")
    /\ UNCHANGED <<batch, exports, appearance, bytes, newest, tries, before>>

\* The exclusive hard link gives the file its number.
Publish(j) ==
    /\ at[j] = "Publish"
    /\ NextNumber(j) \notin DOMAIN labels
    /\ labels' = Named(labels, NextNumber(j), j)
    /\ Goes(j, "Answer")
    /\ UNCHANGED <<batch, exports, appearance, bytes, newest, tries, before>>

\* Another save was there first: AlreadyExists.
Beaten(j) ==
    /\ at[j] = "Publish"
    /\ NextNumber(j) \in DOMAIN labels
    /\ tries' = [tries EXCEPT ![j] = @ + 1]
    /\ Goes(j, IF tries'[j] < Attempts THEN "List" ELSE "Failed")
    /\ UNCHANGED <<names, bytes, newest, before>>

Rename(j) ==
    /\ at[j] = "Rename"
    /\ appearance' = j
    /\ Goes(j, "Answer")
    /\ UNCHANGED <<batch, labels, exports, bytes, newest, tries, before>>

Whole(file) == file \in Jobs => bytes[file] = "Whole"
Valid(file) == Whole(file) /\ file # Damaged

\* Only the newest snapshot is opened; it is read or it is an error.
Open(j) ==
    /\ at[j] = "Open"
    /\ Goes(j, IF newest[j] # 0 => Valid(labels[newest[j]]) THEN "Answer" ELSE "Failed")
    /\ UNCHANGED <<names, bytes, newest, tries, before>>

\* The pending name of published labels is removed and the caller is told.
Answer(j) ==
    /\ at[j] = "Answer"
    /\ Goes(j, "Ok")
    /\ UNCHANGED <<names, bytes, newest, tries, before>>

\* Listing, linking, renaming or opening reports an error of the file system.
StepFails(j) ==
    /\ at[j] \in {"Listing", "Publish", "Rename", "Open"}
    /\ Goes(j, "Failed")
    /\ UNCHANGED <<names, bytes, newest, tries, before>>

\* The program ends, with what it has written so far.
ProgramEnds(j) ==
    /\ Running(j)
    /\ Goes(j, "Failed")
    /\ UNCHANGED <<names, bytes, newest, tries, before>>

Next ==
    \E j \in Jobs :
        \/ CreatePending(j)
        \/ \E path \in Paths : CreateExport(j, path)
        \/ BeginLoad(j)
        \/ Write(j)
        \/ WriteFails(j)
        \/ \E number \in {0} \cup DOMAIN labels : List(j, number)
        \/ \E number \in {newest[j]} \cup DOMAIN labels : Listed(j, number)
        \/ Publish(j)
        \/ Beaten(j)
        \/ Rename(j)
        \/ Open(j)
        \/ Answer(j)
        \/ StepFails(j)
        \/ ProgramEnds(j)

Spec == Init /\ [][Next]_vars
-------------------------------------------------------------------------------
NumbersOf(j) == {n \in DOMAIN labels : labels[n] = j}

\* Whoever lists or opens the labels or the preferences, and whenever programs
\* ended, finds complete bytes: the names lead only to files that were written
\* and synced (labels.rs, save_new; appearance.rs, save).
PublishedIsWhole ==
    /\ \A n \in DOMAIN labels : Whole(labels[n])
    /\ appearance # None => Whole(appearance)

\* What a caller was told is saved stays as it was written, under one name:
\* jobs of other programs, or a second export to the path, do not replace it
\* (docs/local-storage.md, "an existing file is not replaced").
AcknowledgedIsKept ==
    \A j \in Acknowledged :
        /\ j \in Saves => (\E n \in DOMAIN labels : NumbersOf(j) = {n}) /\ bytes[j] = "Whole"
        /\ j \in Exports => bytes[j] = "Whole" /\ \E p \in DOMAIN exports : exports[p] = j

\* Saved files survive: neither the end of a program nor another job leaves a
\* part of a file, or another one, under a published or acknowledged name.
SavedFilesSurvive == PublishedIsWhole /\ AcknowledgedIsKept

\* Labels and preferences are those of the last save: one begun after another
\* was acknowledged has the higher number or the later rename, and a load begun
\* after a save was acknowledged returns its names or newer ones.
LastSaveShows ==
    \A j \in Acknowledged : \A k \in before[j] :
        /\ j \in Saves /\ k \in Saves =>
             \A m \in NumbersOf(k), n \in NumbersOf(j) : m < n
        /\ j \in Loads /\ k \in Saves =>
             /\ newest[j] # 0
             /\ labels[newest[j]] \in Saves
             /\ \A m \in NumbersOf(k) : m <= newest[j]
        /\ j \in Appearances => appearance # k
===============================================================================
