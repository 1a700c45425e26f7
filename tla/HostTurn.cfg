SPECIFICATION PartsSpec
CONSTANTS
    a = a
    b = b
    Ids = {a, b}
    MaxCalls = 2
    MaxPrompts = 2
    MaxLength = 4
    Replacements <- MCReplacements
    MaxPlanExitRepairs = 1
    MaxStopHookContinuations = 1
    CounterMax = 2
    IdMax = 11
    TurnLimits <- MCTurnLimits
INVARIANTS
    
    RepliesKept
    ReceiptsInOrder
    BoundariesKept
    BudgetsKept
    
PROPERTY TurnEnds
CHECK_DEADLOCK FALSE
