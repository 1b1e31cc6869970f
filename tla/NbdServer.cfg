SPECIFICATION FairSpec
CONSTANTS
  Connections = {1, 2}
  Clients <- MCClients
  device_size = 3
  export_name = "tgdrive"
  MAX = 8
  Value = {0, 1}
  Buffer = 2
  Faults = 1
INVARIANTS NbdTypeOK InStep NotDropped AnswersSequential FlushedDurable
PROPERTIES ServesDisk Answered
CHECK_DEADLOCK FALSE
