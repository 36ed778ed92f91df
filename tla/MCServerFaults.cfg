SPECIFICATION Spec
CONSTANTS
  Client = {c1, c2, c3}
  NULL = NULL
  ws = ws
  ws2 = ws2
  bad = bad
  missing = missing
  Path = {ws, ws2, bad, missing}
  Name <- MCName
  PrefixOf <- MCPrefixOf
  Section <- MCSection
  Command <- FaultCommand
  Readable = {ws, ws2, bad}
  Broken = {bad}
  BOOT = {ws, NULL}
  TASK_STORE_COUNT = 2
  PROCESS_STORE_COUNT = 1
  MAX_CLIENTS = 2
  MAX_PENDING_CONN = 1
  CAN_LEAVE = TRUE
  SYS_FAIL = TRUE
  CAN_STOP = FALSE
SYMMETRY ClientSymmetry
INVARIANTS
  TypeOK
  StoresSound
  ClientStackSound
  RequestsAccounted
  RunsWhatWasAsked
PROPERTIES
  ImplementsJobs
