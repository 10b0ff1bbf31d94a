SPECIFICATION Spec
CONSTANTS
    here = here
    there = there
    overworld = overworld
    nether = nether
    Clients = {c1, c2}
    Players = {p1}
    Spots = {here, there}
    Dimensions = {overworld, nether}
    DimensionOf <- Worlds
    Allowed = {overworld, nether}
    None = None
    MaxCircuits = 2
    TimeToLive = 2
    MaxTime = 2
    MaxStores = 3
INVARIANTS SelectionIsInItsDimension CacheKeepsItsPromise
SYMMETRY Tasks
CHECK_DEADLOCK FALSE
