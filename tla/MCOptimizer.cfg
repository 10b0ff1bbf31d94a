SPECIFICATION OptimizerSpec
CONSTANTS
    Problems <- MCProblems
    MaxRun = 12
    MaxTail = 8
    HorizontalCost = 10
    StairCost = 25
    SupportCost = 15
    MaxTries = 64
    SettleCount = 12
    Plan <- MCPlan
    MaxFocus = 8
    MaxSweeps = 4
    OptimizeAttempts = 64
    OptimizeWidth = 2
    TableTicks = 8
INVARIANTS
    EveryNetSurvives
    FixedNetsFit
    OptimizedWorks
