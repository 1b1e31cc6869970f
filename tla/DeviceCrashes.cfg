SPECIFICATION Spec
CONSTANTS
  None = None
  Torn = Torn
  device_size = 3
  object_size = 2
  Value = {0, 1, 2}
  formatted_size = 3
  Clients = {c1}
  Readers = {c1}
  Writers = {c1}
  Flushers = {c1}
  ReadRequests <- MCReadAhead
  WriteRequests <- MCWholeObjects
  max_dirty_objects = 2
  read_ahead_objects = 1
  scan_limit = 5
  FormatModes = {"remote", "local_only"}
  MaxWrites = 2
  MaxFlushes = 3
  MaxFaults = 0
  MaxStoreFaults = 0
  MaxCrashes = 1
  MaxMoves = 1
INVARIANTS GcSafe CleanMeansDurable ScanReaches
PROPERTIES ImplementsDisk RecoveryNeverGoesBack RestartsCountOn
