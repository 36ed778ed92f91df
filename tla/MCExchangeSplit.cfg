SPECIFICATION FairSpec
CONSTANTS
  Client = {c1}
  Usage <- OneUsage
  NULL = NULL
  BUF_SIZE = 32
  TOKEN_COUNT = 8
  PAGE_SIZE = 95
  PAGE_COUNT = 2
  CONFIG_SIZE = 3
  STREAM_SIZE = 8
  SPLIT = TRUE
CHECK_DEADLOCK FALSE
INVARIANTS
  RequestUnderstood
