SPECIFICATION FairSpec
CONSTANTS
  Client = {c1, c2}
  Usage <- PlainUsage
  NULL = NULL
  BUF_SIZE = 32
  TOKEN_COUNT = 4
  PAGE_SIZE = 95
  PAGE_COUNT = 3
  CONFIG_SIZE = 3
  STREAM_SIZE = 8
  SPLIT = FALSE
CHECK_DEADLOCK FALSE
INVARIANTS
  TypeOK
  RequestUnderstood
  ArgsFit
  AnswerHeard
  BlocksDisjoint
  MemoryLasts
PROPERTIES
  ChangeReported
