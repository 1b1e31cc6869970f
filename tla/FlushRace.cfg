SPECIFICATION Spec
CONSTANTS
  None = None
  Torn = Torn
  device_size = 3
  object_size = 2
  Value = {0, 1, 2}
  formatted_size = 3
  Clients = {c1, c2}
  Readers = {}
  Writers = {c1}
  Flushers = {c2}
  ReadRequests <- MCReadAhead
  WriteRequests <- MCWholeObjects
  max_dirty_objects = 2
  read_ahead_objects = 1
  scan_limit = 100
  FormatModes = {"remote"}
  MaxWrites = 2
  MaxFlushes = 2
  MaxFaults = 0
  MaxStoreFaults = 0
  MaxCrashes = 0
  MaxMoves = 0
PROPERTY FlushKeepsContent
