SPECIFICATION Spec
CONSTANTS
    None = None
    Policies <- MCPolicies
    Tasks <- MCTasks
    Utility <- MCUtility
    FailurePenalty = 12000
    MaxStates = 25
    MaxSteps = 3
CHECK_DEADLOCK FALSE
INVARIANTS
    TypesAndBudgets
    EveryStateIsTabled
    NoRunBeatsTheOracle
PROPERTIES
    OnlyPermittedActionsRun
    RunEnds
