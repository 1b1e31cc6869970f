SPECIFICATION ViewSpec
CONSTANTS
  None = None
  MANIFEST_TREE_LEAF_SPAN = 2
  Processes = {p1, p2}
  Value = {0, 1}
  Scenarios <- MCScenarios
SYMMETRY MCSymmetry
INVARIANTS LifecycleTypeOK Readable RecoveryComplete ServeStarts
PROPERTIES CommandsKeepDisk StartsCountOn ServesDurable
