SPECIFICATION ScanSpec
CONSTANTS
    Space <- Field
    Worlds <- Scenes
    Targets <- Gazes
    Gaps = {1, 2}
    Limits = {2, 4, 5}
    TileSize = 2
    SeedDistance = 1
    MaxScanVolume = 27
    AllowedRegion <- Region
    MaxEdits = 1
INVARIANTS FrontierIsExhausted ComponentIsOneGroup LimitIsHonest
PROPERTY ScanEnds
CHECK_DEADLOCK FALSE
