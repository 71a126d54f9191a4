SPECIFICATION FairSpec
CONSTANTS
    Protos <- MCProtos
    Ports <- MCPorts
    Bound = "m"
    NoPort = "0"
    Remotes <- MCRemotes
    MaxRelays = 1
    Servers = 2
    MaxRoutes = 2
    MaxListens = 1
    MaxCommands = 2
INVARIANTS TypeOK FreshObservation RelaysCurrent
PROPERTIES StaleCleared TargetFollows StopReturns
CHECK_DEADLOCK FALSE
