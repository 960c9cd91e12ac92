\* Edit, autosave, restore, seal.
SPECIFICATION Spec
CONSTANTS
  Calls = {q1, q2, q3}
  NoText = NoText
  MaxText = 2
  MaxRevisions = 2
SYMMETRY MCSymmetry
INVARIANT SealsTheScreen
CHECK_DEADLOCK FALSE
