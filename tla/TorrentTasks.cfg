SPECIFICATION FairSpec
CONSTANTS
    Tasks <- MCTasks
    Callers <- MCCallers
    Commands <- MCCommands
    AutoStart <- MCYes
    KeepSeeding <- MCBoth
    MoveCompleted <- MCBoth
    RecheckFirst <- MCNo
    MaxBacklog = 1
    MaxHandles = 2
    MaxCommands <- MCMaxCommands
    MaxFails = 1
    MaxRestarts = 0
INVARIANTS TypeOK OneTaskPerTorrent MappedHasRow
PROPERTIES RowOutlivesFiles ProgressReachesRow CompletionSettles
CHECK_DEADLOCK FALSE
