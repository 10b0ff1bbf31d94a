---------------------------- MODULE ComponentScan ----------------------------
(***************************************************************************)
(* scan_connected_components (service.rs): the flood fill that finds "this *)
(* circuit" from the block a player looks at.  The world is read tile by   *)
(* tile, each tile in an await of its own, so players may build while it   *)
(* runs.  Only redstone candidates are modelled: the other blocks of a     *)
(* scan are carried along and decide nothing.                              *)
(***************************************************************************)
EXTENDS Integers, Sequences, FiniteSets, SequencesExt

CONSTANTS
    Space,           \* the positions where redstone may stand
    Worlds,          \* the sets of positions with redstone to start from
    Targets,         \* the blocks a player may look at
    Gaps,            \* values of component_gap (1..16 in the program)
    Limits,          \* values of max_components
    TileSize,        \* TILE_SIZE (16 in the program)
    SeedDistance,    \* SEED_DISTANCE (2 in the program)
    MaxScanVolume,   \* max_scan_volume of the policy
    AllowedRegion,   \* allowed_region of the policy, as [min, max]
    MaxEdits         \* bound: how many blocks players change meanwhile

Position == [x : Int, y : Int, z : Int]

ASSUME ScanAssumption ==
    /\ Space \subseteq Position /\ IsFiniteSet(Space)
    /\ Worlds \subseteq SUBSET Space
    /\ Targets \subseteq Position
    /\ Gaps \subseteq Nat \ {0}
    /\ Limits \subseteq Nat \ {0}
    /\ TileSize \in Nat \ {0}
    /\ SeedDistance \in Nat
    /\ MaxScanVolume \in Nat
    /\ AllowedRegion \in [min : Position, max : Position]
    /\ MaxEdits \in Nat

VARIABLES
    world,       \* the positions with redstone
    edited,      \* the positions players changed since the call began
    call,        \* its arguments: target, gap, limit
    pc,          \* where the call is
    seed,        \* where the fill begins
    current,     \* the position taken from the queue last
    found,       \* candidates: the redstone the scans showed
    tiles,       \* loaded_tiles
    queue,       \* the frontier; queued is the set of its members
    connected,   \* the component so far
    limited      \* limit_reached

scanVars == <<world, edited, call, pc, seed, current, found, tiles, queue, connected, limited>>

-----------------------------------------------------------------------------

Distance(p, q) ==
    LET Abs(n) == IF n < 0 THEN -n ELSE n
    IN  Abs(p.x - q.x) + Abs(p.y - q.y) + Abs(p.z - q.z)

Near(p, q) == p # q /\ Distance(p, q) <= call.gap

\* The order of positions, and of the loops over dx, dy and dz.
Before(p, q) ==
    \/ p.x < q.x
    \/ p.x = q.x /\ p.y < q.y
    \/ p.x = q.x /\ p.y = q.y /\ p.z < q.z

Box(lo, hi) == [x : lo.x..hi.x, y : lo.y..hi.y, z : lo.z..hi.z]

Shift(p, n) == [x |-> p.x + n, y |-> p.y + n, z |-> p.z + n]

Within(p, lo, hi) ==
    /\ lo.x <= p.x /\ p.x <= hi.x
    /\ lo.y <= p.y /\ p.y <= hi.y
    /\ lo.z <= p.z /\ p.z <= hi.z

\* validate_region of the policy.
ValidRegion(lo, hi) ==
    /\ (hi.x - lo.x + 1) * (hi.y - lo.y + 1) * (hi.z - lo.z + 1) <= MaxScanVolume
    /\ Within(lo, AllowedRegion.min, AllowedRegion.max)
    /\ Within(hi, AllowedRegion.min, AllowedRegion.max)

TileOf(p) == [x |-> p.x \div TileSize, y |-> p.y \div TileSize, z |-> p.z \div TileSize]

TileMin(t) == [x |-> t.x * TileSize, y |-> t.y * TileSize, z |-> t.z * TileSize]

TileMax(t) == Shift(TileMin(t), TileSize - 1)

\* Mutant: only the tile of the position itself is loaded.
OwnTile(p) == {TileOf(p)}

\* The tiles that hold everything within the gap of p.
TilesAround(p) == Box(TileOf(Shift(p, -call.gap)), TileOf(Shift(p, call.gap)))

MissingTiles == TilesAround(current) \ tiles

-----------------------------------------------------------------------------

Nowhere == [x |-> 0, y |-> 0, z |-> 0]

ScanInit ==
    /\ world \in Worlds
    /\ edited = {}
    /\ call \in [target : Targets, gap : Gaps, limit : Limits]
    /\ pc = "Seed"
    /\ seed = Nowhere
    /\ current = Nowhere
    /\ found = {}
    /\ tiles = {}
    /\ queue = <<>>
    /\ connected = {}
    /\ limited = FALSE

\* The policy refuses a region, or the bridge fails: the call ends in an error.
Fail ==
    /\ pc' = "Failed"
    /\ UNCHANGED <<world, edited, call, seed, current, found, tiles, queue, connected, limited>>

\* The redstone nearest to the target, within SEED_DISTANCE of it.
IsSeed(p, seen) ==
    /\ p \in seen
    /\ Distance(p, call.target) <= SeedDistance
    /\ \A q \in seen \ {p} :
          \/ Distance(p, call.target) < Distance(q, call.target)
          \/ Distance(p, call.target) = Distance(q, call.target) /\ Before(p, q)

ScanSeed ==
    LET lo == Shift(call.target, -SeedDistance)
        hi == Shift(call.target, SeedDistance)
        seen == {p \in world : Within(p, lo, hi)}
    IN  /\ pc = "Seed"
        /\ \/ Fail
           \/ /\ ValidRegion(lo, hi)
              /\ \E p \in seen :
                    /\ IsSeed(p, seen)
                    /\ seed' = p
                    /\ queue' = <<p>>
              /\ found' = seen
              /\ pc' = "Pop"
              /\ UNCHANGED <<world, edited, call, current, tiles, connected, limited>>

\* Mutant: the position is looked at and not taken from the queue.
PopPeeking ==
    /\ pc = "Pop" /\ queue # <<>> /\ Cardinality(connected) # call.limit
    /\ IF Head(queue) \in connected
       THEN UNCHANGED <<pc, current, connected>>
       ELSE /\ current' = Head(queue)
            /\ connected' = connected \cup {Head(queue)}
            /\ pc' = "Load"
    /\ UNCHANGED <<world, edited, call, seed, found, tiles, queue, limited>>

Pop ==
    /\ pc = "Pop" /\ queue # <<>> /\ Cardinality(connected) # call.limit
    /\ queue' = Tail(queue)
    /\ IF Head(queue) \in connected
       THEN UNCHANGED <<pc, current, connected>>
       ELSE /\ current' = Head(queue)
            /\ connected' = connected \cup {Head(queue)}
            /\ pc' = "Load"
    /\ UNCHANGED <<world, edited, call, seed, found, tiles, limited>>

\* One await of the loops over tile_x, tile_y and tile_z.
LoadTile ==
    \E t \in MissingTiles :
        /\ pc = "Load"
        /\ \A u \in MissingTiles \ {t} : Before(t, u)
        /\ \/ Fail
           \/ /\ ValidRegion(TileMin(t), TileMax(t))
              /\ tiles' = tiles \cup {t}
              /\ found' = found \cup {p \in world : TileOf(p) = t}
              /\ UNCHANGED <<world, edited, call, pc, seed, current, queue, connected, limited>>

\* Mutant: the diagonal neighbours of the cube are taken too.
NewNeighboursInCube ==
    {p \in found \cap Box(Shift(current, -call.gap), Shift(current, call.gap)) :
        p \notin connected /\ p \notin ToSet(queue)}

NewNeighbours ==
    {p \in found : Near(current, p) /\ p \notin connected /\ p \notin ToSet(queue)}

Spread ==
    /\ pc = "Load" /\ MissingTiles = {}
    /\ \E order \in [1..Cardinality(NewNeighbours) -> NewNeighbours] :
        /\ ToSet(order) = NewNeighbours
        /\ \A i, j \in DOMAIN order : i < j => Before(order[i], order[j])
        /\ queue' = queue \o order
    /\ pc' = "Pop"
    /\ UNCHANGED <<world, edited, call, seed, current, found, tiles, connected, limited>>

\* Mutant: a full component is taken for a cut one.
CutWhenFull == Cardinality(connected) = call.limit

\* What limit_reached is when the loop ends.
Cut == queue # <<>>

Finish ==
    /\ pc = "Pop"
    /\ queue = <<>> \/ Cardinality(connected) = call.limit
    /\ limited' = Cut
    /\ pc' = "Done"
    /\ UNCHANGED <<world, edited, call, seed, current, found, tiles, queue, connected>>

\* A player places or breaks redstone between two scans.
Edit ==
    /\ Cardinality(edited) < MaxEdits
    /\ pc \notin {"Done", "Failed"}
    /\ \E p \in Space \ edited :
        /\ edited' = edited \cup {p}
        /\ world' = IF p \in world THEN world \ {p} ELSE world \cup {p}
    /\ UNCHANGED <<call, pc, seed, current, found, tiles, queue, connected, limited>>

ScanStep == ScanSeed \/ Pop \/ LoadTile \/ Spread \/ Finish

ScanNext == ScanStep \/ Edit

\* Every await ends: the bridge answers, or its request times out.
ScanSpec == ScanInit /\ [][ScanNext]_scanVars /\ WF_scanVars(ScanStep)

-----------------------------------------------------------------------------

ScanTypeOK ==
    /\ world \subseteq Space /\ edited \subseteq Space
    /\ call \in [target : Targets, gap : Gaps, limit : Limits]
    /\ pc \in {"Seed", "Pop", "Load", "Done", "Failed"}
    /\ seed \in Position /\ current \in Position
    /\ found \subseteq Space
    /\ tiles \subseteq Position
    /\ queue \in Seq(found)
    /\ connected \subseteq found
    /\ limited \in BOOLEAN

\* A scan that is reported complete has exhausted the adjacency frontier:
\* redstone that stood untouched during the call within the gap of the
\* component is part of it, in whatever tile it stands.
FrontierIsExhausted ==
    pc = "Done" /\ ~limited =>
        \A p \in connected : \A q \in world \ edited : Near(p, q) => q \in connected

\* The component is one group: no part of it that holds the seed is further
\* than the gap from the rest.
ComponentIsOneGroup ==
    \A part \in SUBSET connected :
        seed \in part /\ part # connected =>
            \E p \in part, q \in connected \ part : Near(p, q)

\* limit_reached is only reported when the component was cut at its limit and
\* some redstone next to it is known and left out.
LimitIsHonest ==
    pc = "Done" /\ limited =>
        /\ Cardinality(connected) = call.limit
        /\ \E p \in connected, q \in found \ connected : Near(p, q)

\* Every call ends: no position is taken up for ever.
ScanEnds == <>(pc \in {"Done", "Failed"})
=============================================================================
