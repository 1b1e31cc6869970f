SPECIFICATION Spec
CONSTANTS
  None = None
  Torn = Torn
  device_size = 3
  object_size = 2
  Value = {0, 1, 2}
  formatted_size = 3
  Clients = {c1}
  Readers = {}
  Writers = {c1}
  Flushers = {c1}
  ReadRequests <- MCReadAhead
  WriteRequests <- MCTwoSectors
  max_dirty_objects = 2
  read_ahead_objects = 1
  scan_limit = 100
  FormatModes = {"remote"}
  MaxWrites = 3
  MaxFlushes = 3
  MaxFaults = 1
  MaxStoreFaults = 0
  MaxCrashes = 1
  MaxMoves = 0
INVARIANT CleanMeansDurable
