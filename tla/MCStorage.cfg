SPECIFICATION Spec
CONSTANTS
  None = None
  Saves = {s1, s2, s3}
  Loads = {l1}
  Exports = {e1, e2, e3}
  Appearances = {a1, a2, a3}
  Paths = {p1, p2}
  Old = Old
  Damaged = Damaged
  Found <- FoundDirectories
  LastNumber = 6
  Attempts = 2
  Batches <- MCBatches
SYMMETRY Symmetry
INVARIANTS
  SavedFilesSurvive
  LastSaveShows
CHECK_DEADLOCK FALSE
