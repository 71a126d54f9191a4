SPECIFICATION Spec
CONSTANTS
    Tasks <- MCTasks
    Callers <- MCCallers
    Commands <- DeleteCommands
    AutoStart <- MCYes
    KeepSeeding <- MCYes
    MoveCompleted <- MCBoth
    RecheckFirst <- MCNo
    MaxBacklog = 1
    MaxHandles = 2
    MaxCommands <- MCMaxCommands
    MaxFails = 1
    MaxRestarts = 0
PROPERTIES FailedDeletionKeepsTask
CHECK_DEADLOCK FALSE
