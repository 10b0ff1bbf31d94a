-------------------------------- MODULE Wiring --------------------------------
(***************************************************************************)
(* The nets of a placed circuit (dustroute-translate multinet.rs and       *)
(* routing_resources.rs): which positions a net keeps from the others,     *)
(* where its repeaters go, the world a routing becomes, and what is        *)
(* illegal about it.  A net is a record of its source and sinks (ports),   *)
(* its branches, one path from the tree to each sink, the positions it     *)
(* occupies and its repeaters.  A routing is a function on the ids of the  *)
(* nets that are routed.                                                   *)
(***************************************************************************)
EXTENDS Cells, RedstoneGraph

CONSTANTS
    MaxRun,     \* dust between two repeaters of a net
    MaxTail     \* dust between the last repeater and a sink that is a wire

ASSUME WiringAssumption == MaxRun \in Nat \ {0} /\ MaxTail \in Nat \ {0}

Stairs(path) == {i \in 1..(Len(path) - 1) : path[i][2] # path[i + 1][2]}
Lower(p, q) == IF p[2] < q[2] THEN p ELSE q

-----------------------------------------------------------------------------
(* RoutingResources.                                                       *)

ElectricalKeepout(p) ==
    UNION {{Side(p, f), Above(Side(p, f)), Below(Side(p, f))} : f \in Horizontal}

BranchStairClearances(path) == {Above(Lower(path[i], path[i + 1])) : i \in Stairs(path)}

\* blocked_conductors of the nets that are routed.
BlockedConductors(routing) ==
    UNION {routing[n].occupied
           \cup (UNION {ElectricalKeepout(p) : p \in routing[n].occupied})
           \cup (UNION {BranchStairClearances(routing[n].branches[k]) : k \in DOMAIN routing[n].branches}) :
             n \in DOMAIN routing}

\* What may not be routed past: the sources of the cells, and the blocks
\* the repeaters of the cells drive.
CellSourceKeepout(cells) ==
    LET blocks(c) == PlacedBlocks(cells[c])
        sources(W) == {p \in DOMAIN W : W[p].kind \in {"torch", "redstone_block", "lever"}}
        driven(W) == {q \in UNION {Front(W, p) : p \in OfKind(W, "repeater")} : KindAt(W, q) = "solid"}
    IN  UNION {UNION {ElectricalKeepout(p) : p \in sources(blocks(c)) \cup driven(blocks(c))} : c \in DOMAIN cells}

-----------------------------------------------------------------------------
(* The tree of a net, from its source.                                     *)

TreeNeighbors(branches, p) ==
    UNION {{branches[k][i + 1] : i \in {j \in 1..(Len(branches[k]) - 1) : branches[k][j] = p}}
           \cup {branches[k][i - 1] : i \in {j \in 2..Len(branches[k]) : branches[k][j] = p}} :
             k \in DOMAIN branches}

\* rooted_parent: breadth first; the source is its own parent.
RootedParent(source, branches) ==
    LET visit(before, p) ==
            LET fresh == TreeNeighbors(branches, p) \ DOMAIN before.parent
            IN  [queue |-> before.queue \o InOrder(fresh),
                 parent |-> [q \in fresh |-> p] @@ before.parent]
        walk[n \in Nat] ==
            IF n = 0 THEN [queue |-> <<source>>, parent |-> source :> source]
            ELSE LET before == walk[n - 1]
                 IN  IF n > Len(before.queue) THEN before ELSE visit(before, before.queue[n])
    IN  walk[Cardinality(UNION {On(branches[k]) : k \in DOMAIN branches})].parent

RootPath(parent, sink) ==
    LET path[p \in DOMAIN parent] == IF parent[p] = p THEN <<p>> ELSE Append(path[parent[p]], p)
    IN  IF sink \in DOMAIN parent THEN path[sink] ELSE <<>>

StepFacing(p, q) == {f \in Horizontal : q = Side(p, f)}

\* A place for a repeater on a path: straight on, and nothing branches off.
StraightOn(branches, path, i) ==
    /\ i > 1 /\ i < Len(path)
    /\ Cardinality(TreeNeighbors(branches, path[i])) = 2
    /\ StepFacing(path[i - 1], path[i]) # {}
    /\ StepFacing(path[i - 1], path[i]) = StepFacing(path[i], path[i + 1])

\* plan_repeaters on one path, after those of the paths before it.
RepeatersOn(branches, forbidden, path, before) ==
    LET places(reset, i) == {c \in (reset + 1)..i : path[c] \notin forbidden /\ StraightOn(branches, path, c)}
        plan[i \in Nat, reset \in Nat, repeaters \in SUBSET Position] ==
            IF i > Len(path) THEN repeaters
            ELSE IF path[i] \in repeaters THEN plan[i + 1, i, repeaters]
            ELSE IF i - reset > MaxRun /\ places(reset, i) # {}
                 THEN LET c == Best(places(reset, i)) IN plan[c + 1, c, repeaters \cup {path[c]}]
            ELSE plan[i + 1, reset, repeaters]
    IN  plan[2, 1, before]

PlanRepeaters(paths, branches, forbidden) ==
    LET planned[k \in 0..Len(paths)] ==
            IF k = 0 THEN {} ELSE RepeatersOn(branches, forbidden, paths[k], planned[k - 1])
    IN  planned[Len(paths)]

\* reinforce_wire_sink_tails on one path: a repeater on the last MaxTail
\* steps unless one is there.
ReinforceTail(branches, forbidden, path, repeaters) ==
    LET end == Len(path)
        resets == {1} \cup {i \in DOMAIN path : path[i] \in repeaters}
        places == {c \in Best({end - MaxTail, 2})..(end - 1) :
                     /\ path[c] \notin forbidden
                     /\ path[c - 1] \notin repeaters /\ path[c + 1] \notin repeaters
                     /\ StraightOn(branches, path, c)}
    IN  IF path = <<>> \/ end - Best(resets) <= MaxTail \/ places = {} THEN repeaters
        ELSE repeaters \cup {path[CHOOSE c \in places : \A d \in places : c <= d]}

OwnTerminals(job) ==
    {Terminal(job.source)} \cup UNION {{Terminal(s), Approach(s)} : s \in On(job.sinks)}

\* The end of route_net_tree: branches has a path for every sink.
MakeNet(job, branches) ==
    LET source == Terminal(job.source)
        own == OwnTerminals(job)
        parent == RootedParent(source, branches)
        paths == [k \in DOMAIN job.sinks |-> RootPath(parent, Terminal(job.sinks[k]))]
        reinforced[k \in 0..Len(paths)] ==
            IF k = 0 THEN PlanRepeaters(paths, branches, own)
            ELSE IF job.sinks[k].kind = "wire"
                 THEN ReinforceTail(branches, own, paths[k], reinforced[k - 1])
                 ELSE reinforced[k - 1]
    IN  [source |-> job.source, sinks |-> job.sinks, branches |-> branches,
         occupied |-> {source} \cup UNION {On(branches[k]) : k \in DOMAIN branches},
         repeaters |-> reinforced[Len(paths)]]

-----------------------------------------------------------------------------
(* materialize_multinet.                                                   *)

PowerTerminals(net) == {Terminal(s) : s \in {t \in On(net.sinks) : t.kind = "block_power"}}

StructuralSupports(net) ==
    net.repeaters \cup PowerTerminals(net)
    \cup UNION {UNION {{net.branches[k][i], net.branches[k][i + 1]} : i \in Stairs(net.branches[k])} :
                  k \in DOMAIN net.branches}

Put(W, p, block) == p :> block @@ W

\* A support unless something is there, then the dust unless something is.
LayDust(W, net, p) ==
    LET support == IF p \in StructuralSupports(net) THEN "solid" ELSE "transparent"
        held == IF Below(p) \in DOMAIN W THEN W ELSE Put(W, Below(p), Plain(support))
    IN  IF p \in DOMAIN held \/ p \in net.repeaters THEN held ELSE Put(held, p, Plain("wire"))

\* The directions of the repeaters of a net, from the block before them and
\* from the side the sink is reached from.
RepeaterFacings(net, p) ==
    LET parent == RootedParent(Terminal(net.source), net.branches)
    IN  IF p \in PowerTerminals(net)
        THEN {Opposite[s.facing] : s \in {t \in On(net.sinks) : t.kind = "block_power" /\ Terminal(t) = p}}
        ELSE IF p \in DOMAIN parent THEN StepFacing(parent[p], p) ELSE {}

LayRepeaters(W, net) ==
    [p \in net.repeaters \cup PowerTerminals(net) |->
        Facing("repeater", CHOOSE f \in RepeaterFacings(net, p) : TRUE)] @@ W

LayNet(W, net) ==
    LET order == InOrder(net.occupied)
        laid[i \in 0..Len(order)] == IF i = 0 THEN W ELSE LayDust(laid[i - 1], net, order[i])
    IN  LayRepeaters(laid[Len(order)], net)

\* NetOverlap, and a repeater without a direction.
CannotMaterialize(routing) ==
    \/ \E n, m \in DOMAIN routing : n # m /\ routing[n].occupied \cap routing[m].occupied # {}
    \/ \E n \in DOMAIN routing : \E p \in routing[n].repeaters : RepeaterFacings(routing[n], p) = {}

Materialize(W, routing) ==
    LET ids == DOMAIN routing
        laid[S \in SUBSET ids] ==
            IF S = {} THEN W
            ELSE LET last == CHOOSE n \in S : \A m \in S : m <= n
                 IN  LayNet(laid[S \ {last}], routing[last])
    IN  Tabulated(UpdateWireShapes(laid[ids]))

-----------------------------------------------------------------------------
(* validate_routing_legality.                                              *)

DustConnected(W, p, q) == DustTransmits(W, p, q) \/ DustTransmits(W, q, p)

CrossNetContacts(W, routing) ==
    UNION {UNION {{<<p, q>> : q \in {r \in ElectricalKeepout(p) \cap routing[nm[2]].occupied : DustConnected(W, p, r)}} :
                    p \in routing[nm[1]].occupied} :
             nm \in {ids \in (DOMAIN routing) \X (DOMAIN routing) : ids[1] < ids[2]}}

SupportConflicts(routing) ==
    {nm \in (DOMAIN routing) \X (DOMAIN routing) :
        /\ nm[1] # nm[2]
        /\ {Below(p) : p \in routing[nm[1]].occupied} \cap routing[nm[2]].occupied # {}}

BrokenSteps(W, routing) ==
    UNION {UNION {{<<n, k, i>> : i \in {j \in 1..(Len(routing[n].branches[k]) - 1) :
                        PhysicalStep(W, routing[n].branches[k][j], routing[n].branches[k][j + 1]) = {}}} :
                    k \in DOMAIN routing[n].branches} :
             n \in DOMAIN routing}

\* The branches of a net on which dust runs further than max.
OverBudget(net, max) ==
    {k \in DOMAIN net.branches :
        LET branch == net.branches[k]
            run[i \in DOMAIN branch] ==
                IF i = 1 \/ branch[i] \in net.repeaters \cup PowerTerminals(net) THEN 0 ELSE run[i - 1] + 1
        IN  \E i \in DOMAIN branch : run[i] > max}

\* What the router accepts: every check but the one of the budget.
Legal(W, routing) ==
    /\ CrossNetContacts(W, routing) = {}
    /\ SupportConflicts(routing) = {}
    /\ BrokenSteps(W, routing) = {}
=============================================================================
