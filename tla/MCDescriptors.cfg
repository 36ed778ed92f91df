SPECIFICATION FairSpec
CONSTANTS
  MAX_FD = 13
  MAX_CLIENTS = 2
  PROCESS_STORE_COUNT = 2
  BUFFER_SIZE = 2
  MAX_CONNECTIONS = 3
  MAX_CHILDREN = 2
  MAX_WRITES = 1
  Burst <- MCBurst
  Message = {2}
  SYS_FAIL = TRUE
INVARIANTS
  TypeOK
  DescriptorsSound
  NeverBlocks
  LinesExact
PROPERTIES
  LaunchesAfford
  OutputDrained
