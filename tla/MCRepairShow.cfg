SPECIFICATION Spec
CONSTANTS
    Servers = {s1}
    Cells = {c1}
    Air = air
    Blocks = {air, dust}
    Keep = keep
    MaxEdits = 0
    MaxLate = 1
    Repairs = {r1}
    None = None
PROPERTY ShowOnlyRecordsPreview
CHECK_DEADLOCK FALSE
