SPECIFICATION Spec
CONSTANTS
    Servers = {s1}
    Cells = {c1, c2}
    Air = air
    Blocks = {air, dust}
    Keep = keep
    MaxEdits = 1
    MaxLate = 1
    Repairs = {r1}
    None = None
INVARIANTS NoApplyUnseen AppliedWasVerified
CHECK_DEADLOCK FALSE
