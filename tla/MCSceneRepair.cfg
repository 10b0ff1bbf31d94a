SPECIFICATION SceneSpec
CONSTANTS
    Circuits <- MCCircuits
    MaxInputs = 3
    SettleCount = 12
    MaxGap = 3
    MaxEdits = 1
    MaxMends = 2
CHECK_DEADLOCK FALSE
INVARIANTS
    ComponentsAreMutual
    ReadingIsTrue
    BehaviorIsForetold
    LostDustIsOffered
PROPERTY
    ImplementsMending
