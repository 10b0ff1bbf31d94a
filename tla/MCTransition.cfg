SPECIFICATION Spec
CONSTANTS
    Plans = {p1}
    Rests = {low, high}
    PlayersBuild = TRUE
    MaxLate = 1
    None = None
INVARIANTS VerifiedMeansRestored SlotGivenBack
PROPERTY LocksComeBack
