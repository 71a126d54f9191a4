SPECIFICATION Spec
CONSTANTS
    Tasks <- MCTasks
    Callers <- MCCallers
    Commands <- MCCommands
    AutoStart <- MCYes
    KeepSeeding <- MCBoth
    MoveCompleted <- MCBoth
    RecheckFirst <- MCBoth
    MaxBacklog = 1
    MaxHandles = 2
    MaxCommands <- MCMaxCommands
    MaxFails = 1
    MaxRestarts = 1
INVARIANTS ShutdownKeepsProgress
CHECK_DEADLOCK FALSE
