SPECIFICATION Spec
CONSTANTS
    Problems <- MCProblems
    MaxRun = 12
    MaxTail = 8
    HorizontalCost = 10
    StairCost = 25
    SupportCost = 15
    MaxTries = 64
    SettleCount = 12
INVARIANTS
    NetsAreKept
    RouteIsCheapest
    RoutedIsLegal
    CompiledWorks
