------------------------------ MODULE MCStorage ------------------------------
(***************************************************************************)
(* A small instance of the local files.                                    *)
(***************************************************************************)
EXTENDS Storage, TLC

\* An empty directory, one whose first snapshots were deleted, one whose newest
\* snapshot is damaged and one with the last number.
FoundDirectories ==
    {[n \in {} |-> Old], [n \in {2} |-> Old], [n \in {1, 2} |-> IF n = 1 THEN Old ELSE Damaged],
     [n \in {LastNumber} |-> Old]}

\* Labels, exports and preferences are different names.
MCBatches == {Saves \cup Loads, Exports, Appearances}

\* Saves and loads are told apart by nothing but what they do.
Symmetry == Permutations(Saves) \cup Permutations(Loads)
===============================================================================
