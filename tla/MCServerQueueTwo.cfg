SPECIFICATION FairSpec
CONSTANTS
  Client = {c1, c2, c3}
  NULL = NULL
  ws = ws
  ws2 = ws2
  bad = bad
  missing = missing
  Path = {ws, ws2, bad, missing}
  Name <- MCName
  PrefixOf <- MCPrefixOf
  Section <- MCSection
  Command <- WaitCommand
  Readable = {ws, ws2, bad}
  Broken = {bad}
  BOOT = {ws}
  TASK_STORE_COUNT = 2
  PROCESS_STORE_COUNT = 2
  MAX_CLIENTS = 1
  MAX_PENDING_CONN = 1
  CAN_LEAVE = FALSE
  SYS_FAIL = FALSE
  CAN_STOP = FALSE
PROPERTIES
  QueuedEventuallyStarts
