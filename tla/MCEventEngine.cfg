CONSTANTS
    p1 = p1
    p2 = p2
    External = External
    NoOutcome = NoOutcome
    Positions = {p1, p2}
    Blocks = {TRUE, FALSE}
    FirstWorld <- Off
    LastTick = 2
    Outcomes <- Answers
    MaxEvents = 3
    MaxExternal = 2
SPECIFICATION Spec
INVARIANT CauseBeforeEffect
PROPERTIES ImplementsOrder RunEnds
