\* Three overlapping requests, two edits, a history of two revisions.
SPECIFICATION Spec
CONSTANTS
  Calls = {q1, q2, q3}
  NoText = NoText
  MaxText = 2
  MaxRevisions = 2
SYMMETRY MCSymmetry
INVARIANTS TypeOK SealHolds SavedIsStored
PROPERTIES RestoreKeepsTheText
CHECK_DEADLOCK FALSE
