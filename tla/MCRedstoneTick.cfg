SPECIFICATION ScenarioSpec
CONSTANTS
    Worlds <- Circuits
    MaxIterations = 128
    LampDelay = 2
    BurnoutToggles = 3
    BurnoutWindow = 3
    MaxTicks = 6
    MaxActions = 4
CHECK_DEADLOCK FALSE
INVARIANTS SettledIsShortestWay RepeaterDelays BurnoutIsCounted PowerFollowsEdges TracesTellTheRun
