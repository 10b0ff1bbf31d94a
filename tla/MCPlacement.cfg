SPECIFICATION Spec
CONSTANTS
    Server = s1
    Servers = {s1}
    Cells = {c1, c2}
    Air = air
    Blocks = {air, stone}
    Keep = keep
    MaxEdits = 1
    MaxLate = 1
    Plans = {p1, p2}
    MaxAttempts = 2
    NoPlan = NoPlan
INVARIANT BooksMatchWorld
PROPERTIES ImplementsLifecycle LockReleased
CHECK_DEADLOCK FALSE
