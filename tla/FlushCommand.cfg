SPECIFICATION ViewSpec
CONSTANTS
  None = None
  MANIFEST_TREE_LEAF_SPAN = 2
  Processes = {p1}
  Value = {0, 1}
  Scenarios <- MCFlush
PROPERTY TakesEffect
