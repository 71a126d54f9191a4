SPECIFICATION FairSpec
CONSTANTS
    Paths <- MCPaths
    Bytes <- MCBytes
    Resources <- MCResources
    MaxWrites = 2
    MaxSubmits = 2
    MaxScans = 1
    MaxFailures = 1
    MaxRestarts = 1
INVARIANTS TypeOK Bound AliasTrue QueueCovers
PROPERTIES JobsDurable JobsFinish
CHECK_DEADLOCK FALSE
