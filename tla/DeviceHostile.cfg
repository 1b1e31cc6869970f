SPECIFICATION Spec
CONSTANTS
  None = None
  Torn = Torn
  device_size = 3
  object_size = 1
  Value = {0, 1, 2}
  formatted_size = 2
  Clients = {c1, c2}
  Readers = {c1, c2}
  Writers = {c1, c2}
  Flushers = {c1, c2}
  ReadRequests <- MCReadEnds
  WriteRequests <- MCThreeObjects
  max_dirty_objects = 1
  read_ahead_objects = 1
  scan_limit = 100
  FormatModes = {"remote"}
  MaxWrites = 2
  MaxFlushes = 2
  MaxFaults = 1
  MaxStoreFaults = 1
  MaxCrashes = 1
  MaxMoves = 1
SYMMETRY MCSymmetry
INVARIANTS TypeOK CommittedBacked NoLiveGarbage DirtyBounded
