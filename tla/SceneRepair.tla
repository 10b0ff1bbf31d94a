------------------------------- MODULE SceneRepair -------------------------------
(***************************************************************************)
(* A circuit a player breaks and has mended (dustroute-translate           *)
(* repair.rs, dustroute-physical circuit.rs, scene.rs and patch.rs, and    *)
(* new_repair and new_component_removal_plan of dustroute-mcp service.rs): *)
(* the circuit is captured and read, offers for mending it are drawn up    *)
(* from the capture and judged on a copy of it, and an accepted offer      *)
(* changes the world, which may have been changed by somebody else since.  *)
(* An offer is a record of its reason, the position it changes, the blocks *)
(* there before and after, and the health of the circuit before and after. *)
(***************************************************************************)
EXTENDS Timing

CONSTANTS
    Circuits,   \* [world, bounds, role, loose, targets]: a circuit, what it is built
                \* to compute, the blocks the player may change in it and those the
                \* player may look at to have them removed
    MaxGap,     \* max_gap of new_repair, 1..8
    MaxEdits,   \* bound: changes made by the player
    MaxMends    \* bound: offers accepted

ASSUME SceneRepairAssumption ==
    /\ MaxGap \in 1..8 /\ MaxEdits \in Nat /\ MaxMends \in Nat
    /\ \A c \in Circuits : IsWorld(c.world) /\ IsFiniteSet(DOMAIN c.world)

VARIABLES
    circuit,    \* the circuit as it was built
    world,      \* the blocks there are now
    captured,   \* the scene of the last capture
    reading,    \* what it was read as
    timing,     \* what was said of its timing
    was,        \* and what it counted
    offers,     \* the plans drawn up from it
    proposed,   \* new_repair has been called for it
    edits, mends,
    health,     \* what a capture of the world now would count
    first       \* what it would have counted after the last change that no fresh offer made

sceneVars == <<circuit, world, captured, reading, timing, was, offers, proposed, edits, mends, health, first>>

Air == [kind |-> "air"]
BlockAt(W, p) == IF p \in DOMAIN W THEN W[p] ELSE Air
SetBlock(W, p, b) ==
    IF b = Air THEN [q \in DOMAIN W \ {p} |-> W[q]]
    ELSE [q \in DOMAIN W \cup {p} |-> IF q = p THEN b ELSE W[q]]

\* supports_dust_on_top, of what is at a position.
SupportsDust(W, p) ==
    /\ p \in DOMAIN W
    /\ \/ W[p].look \in {"top_slab", "double_slab", "top_stairs", "glass"}
       \/ W[p].look = "default" /\ SupportsComponents(W[p].kind)

SupportIssues(W) ==
    {p \in DOMAIN W : /\ W[p].kind \in {"wire", "torch", "repeater", "comparator", "lever"}
                      /\ ~\E s \in SupportOf(W, p) : SupportsDust(W, s)}

-----------------------------------------------------------------------------
(* Fragments: the components that are connected in either direction, by    *)
(* union and find, in the order of their roots.                            *)

Root(parent, p) ==
    LET root[q \in DOMAIN parent] == IF parent[q] = q THEN q ELSE root[parent[q]] IN root[p]

Link(uf, left, right) ==
    CASE left = right -> uf
      [] uf.rank[left] < uf.rank[right] -> [uf EXCEPT !.parent[left] = right]
      [] OTHER -> [parent |-> [uf.parent EXCEPT ![right] = left],
                   rank |-> IF uf.rank[left] = uf.rank[right] THEN [uf.rank EXCEPT ![left] = @ + 1] ELSE uf.rank]

Union(uf, a, b) == Link(uf, Root(uf.parent, a), Root(uf.parent, b))

\* The connections of a in order.
UnionAll(uf, a, sinks) ==
    LET joined[n \in 0..Len(sinks)] ==
            IF n = 0 THEN uf ELSE LET so == joined[n - 1] IN Union(so, a, sinks[n])
    IN  joined[Len(sinks)]

ConnectionGroups(nodes, edges) ==
    LET order == InOrder(nodes)
        sinks(a) == {e.sink : e \in {d \in edges : d.source = a}} \cap nodes
        joined[n \in 0..Len(order)] ==
            IF n = 0 THEN [parent |-> Tabulated([p \in nodes |-> p]), rank |-> Tabulated([p \in nodes |-> 0])]
            ELSE LET so == joined[n - 1]
                 IN  IF so.rank = <<>> THEN so ELSE UnionAll(so, order[n], InOrder(sinks(order[n])))
    IN  joined[Len(order)].parent

\* build_physical_circuit and from_parts: a sequence of sets.
Fragments(scene) ==
    LET ends == {e.source : e \in scene.edges} \cup {e.sink : e \in scene.edges}
        nodes == {p \in DOMAIN scene.world : scene.world[p].kind \in RedstoneKinds \/ p \in ends}
        parent == ConnectionGroups(nodes, scene.edges)
        roots == InOrder({p \in nodes : parent[p] = p})
    IN  [i \in DOMAIN roots |-> {p \in nodes : Root(parent, p) = roots[i]}]

Magnitude(n) == IF n < 0 THEN -n ELSE n
Manhattan(p, q) == Magnitude(p[1] - q[1]) + Magnitude(p[2] - q[2]) + Magnitude(p[3] - q[3])

\* The first of the nearest pairs of two fragments.
Nearest(left, right) ==
    LET distances == {Manhattan(p, q) : p \in left, q \in right}
        near == {pq \in left \X right : Manhattan(pq[1], pq[2]) = Least(distances)}
        p == FirstOf({pq[1] : pq \in near})
    IN  <<p, FirstOf({pq[2] : pq \in {c \in near : c[1] = p}})>>

\* Mutant: two blocks of one fragment have a gap between them too.
GapsInsideGroups(scene, maxGap) ==
    LET redstone == {p \in DOMAIN scene.world : scene.world[p].kind \in RedstoneKinds}
    IN  {gap \in redstone \X redstone : gap[1] # gap[2] /\ Manhattan(gap[1], gap[2]) <= maxGap}

GapCandidates(scene, maxGap) ==
    LET fragments == Tabulated(Fragments(scene))
        redstone(i) == {p \in fragments[i] : scene.world[p].kind \in RedstoneKinds}
        pairs == {ij \in (DOMAIN fragments) \X (DOMAIN fragments) :
                    ij[1] < ij[2] /\ redstone(ij[1]) # {} /\ redstone(ij[2]) # {}}
    IN  {gap \in {Nearest(redstone(ij[1]), redstone(ij[2])) : ij \in pairs} : Manhattan(gap[1], gap[2]) <= maxGap}

-----------------------------------------------------------------------------
(* What a circuit is judged by.  That the solver converges, which improves *)
(* looks at too, is always so (NeverFails of RedstoneTick).                *)

Report(scene) == Liveness(scene.world, scene.links, scene.frontier)

HealthOf(scene, report) ==
    [fragments |-> Len(Fragments(scene)), supports |-> Cardinality(SupportIssues(scene.world)),
     undriven |-> Cardinality(report.undriven), reachable |-> Cardinality(report.reachable)]

MeasureScene(scene) == HealthOf(scene, Report(scene))
Measure(W, bounds) == MeasureScene(Scene(W, bounds))

Mended == INSTANCE Mending

Change(reason, pos, before, after) == [reason |-> reason, pos |-> pos, before |-> before, after |-> after]

\* evaluate_repair: the world after the change, and its health.
Patched(scene, change) == Tabulated(UpdateWireShapes(SetBlock(scene.world, change.pos, change.after)))
EvaluateRepair(scene, change) == Measure(Patched(scene, change), scene.bounds)

\* Mutant: one gain is enough.
GainsSomething(offer) ==
    \/ offer.expected.fragments < offer.health.fragments
    \/ offer.expected.supports < offer.health.supports
    \/ offer.expected.undriven < offer.health.undriven
    \/ offer.expected.reachable > offer.health.reachable

Improves(offer) == Mended!Better(offer.health, offer.expected)

-----------------------------------------------------------------------------
(* The offers.                                                             *)

MissingWire == Plain("wire")
Repeater(facing) == Facing("repeater", facing)
CanHoldDust(W, p) == p \notin DOMAIN W /\ SupportsDust(W, Below(p))

AlignedGaps(W, gaps) ==
    {<<Side(d[1][1], d[2]), d[2]>> : d \in {h \in gaps \X Horizontal :
        {h[1][1], h[1][2]} \subseteq Wires(W) /\ h[1][2] = Side(Side(h[1][1], h[2]), h[2])}}

MissingWireRepairs(W, gaps) ==
    {Change("connect_missing_wire", g[1], Air, MissingWire) :
        g \in {h \in AlignedGaps(W, gaps) : CanHoldDust(W, h[1])}}

\* A step of a staircase; gaps of three only.
MissingVerticalWireRepairs(W, gaps) ==
    LET step(lower, upper) == {Above(Side(lower, f)) : f \in {g \in Horizontal :
                                  upper = Above(Side(Side(lower, g), g))}}
        missing(g) == {p \in step(g[1], g[2]) : Free(W, Above(g[1]))} \cup {p \in step(g[2], g[1]) : Free(W, Above(g[2]))}
    IN  {Change("connect_missing_wire", p, Air, MissingWire) :
            p \in {q \in UNION {missing(g) : g \in {h \in gaps : {h[1], h[2]} \subseteq Wires(W)}} : CanHoldDust(W, q)}}

\* A repeater in the gap, either way.
MissingDirectionalRepairs(W, gaps) ==
    UNION {{Change("insert_directional_component", g[1], Air, Repeater(f)) : f \in {g[2], Opposite[g[2]]}} :
             g \in {h \in AlignedGaps(W, gaps) : CanHoldDust(W, h[1])}}

Disconnected(scene, report) == {input \in report.undriven : Feeding(scene.links, input) = {}}

\* What leads to inputs that nothing drives, and is not driven itself.
DeadRegion(scene, report) ==
    LET roots == (UNION {Feeding(scene.links, input) : input \in report.undriven}) \ report.reachable
        dead[S \in SUBSET DOMAIN scene.world] ==
            LET more == S \cup ({c.source : c \in {d \in scene.links : d.sink \in S}} \ report.reachable)
            IN  IF more = S THEN S ELSE dead[more]
    IN  dead[roots]

Around(p, heights) == {Plus(Side(p, f), <<0, y, 0>>) : f \in Horizontal, y \in heights}

LivenessBridgeRepairs(scene, report) ==
    LET before == {Side(input[1], input[2]) : input \in {i \in Disconnected(scene, report) : i[2] \in Horizontal}}
        beside == UNION {Around(p, -1..1) : p \in DeadRegion(scene, report)}
        near(p, heights) == Around(p, heights) \cap report.reachable # {}
    IN  {Change("connect_missing_wire", p, Air, MissingWire) :
            p \in {q \in before : CanHoldDust(scene.world, q) /\ near(q, {0})}
                  \cup {q \in beside : CanHoldDust(scene.world, q) /\ near(q, -1..1)}}

MissingSupportRepairs(W) ==
    {Change("restore_component_support", s, Air, Plain("solid")) :
        s \in {t \in UNION {SupportOf(W, p) : p \in SupportIssues(W)} : t \notin DOMAIN W}}

Reorient(W, p, f) == Change("reorient_directional_component", p, W[p], [W[p] EXCEPT !.facing = f])

DirectionRepairs(scene, report) ==
    LET W == scene.world
        wired(p) == {f \in Horizontal : Side(p, f) \in Wires(W)}
        driven(p) == {f \in wired(p) : /\ wired(p) = {f}
                                       /\ Side(p, f) \in report.reachable
                                       /\ \E input \in Disconnected(scene, report) : input[1] = p}
        facings(p) == IF driven(p) # {} THEN {Opposite[f] : f \in driven(p)}
                      ELSE IF \E f \in wired(p) : wired(p) = {f, Opposite[f]} THEN wired(p) ELSE {}
    IN  UNION {{Reorient(W, p, f) : f \in facings(p) \ {W[p].facing}} :
                 p \in {q \in DOMAIN W : W[q].kind \in {"repeater", "comparator"}}}

\* The changes that mend, and the one that takes a component away.
ProposedChanges(scene, gaps, report) ==
    MissingWireRepairs(scene.world, gaps)
    \cup MissingVerticalWireRepairs(scene.world, gaps)
    \cup LivenessBridgeRepairs(scene, report)
    \cup MissingDirectionalRepairs(scene.world, gaps)
    \cup MissingSupportRepairs(scene.world)
    \cup DirectionRepairs(scene, report)

Removal(scene, p) == Change("remove_unexpected_connection", p, scene.world[p], Air)

\* A change with its impact; before is the health of the scene.
Judged(scene, before, change) ==
    [reason |-> change.reason, pos |-> change.pos, before |-> change.before, after |-> change.after,
     health |-> before, expected |-> EvaluateRepair(scene, change)]

\* A missing wire is offered only where it helps; of the order of the offers
\* only what new_repair takes 32 of could matter.
Worthwhile(judged) == {offer \in judged : offer.reason # "connect_missing_wire" \/ Improves(offer)}

-----------------------------------------------------------------------------
(* The specification.                                                      *)

None == [world |-> <<>>]
Fresh == captured # None /\ captured.world = BoundedWorld(world, circuit.bounds)

SceneInit ==
    /\ circuit \in Circuits
    /\ world = circuit.world
    /\ captured = None /\ reading = None /\ timing = None /\ was = None
    /\ offers = {} /\ proposed = FALSE
    /\ edits = 0 /\ mends = 0
    /\ health = Measure(circuit.world, circuit.bounds)
    /\ first = health

\* The block at p becomes b, and the wires take their shapes.
Becomes(p, b) ==
    /\ world' = UpdateWireShapes(SetBlock(world, p, b))
    /\ health' = Measure(world', circuit.bounds)

\* The player takes dust or a device away, or turns a repeater.
Standing == circuit.loose \cap DOMAIN world
Losses == {Change("lost", p, world[p], Air) : p \in Standing}
Reorientations ==
    {Reorient(world, turn[1], turn[2]) : turn \in {t \in Standing \X Horizontal :
        world[t[1]].kind = "repeater" /\ t[2] # world[t[1]].facing}}

Edit(change) ==
    /\ edits < MaxEdits
    /\ Becomes(change.pos, change.after)
    /\ first' = health'
    /\ edits' = edits + 1
    /\ UNCHANGED <<circuit, captured, reading, timing, was, offers, proposed, mends>>

\* The region is scanned, and the circuit is analyzed with a truth table.
Capture ==
    /\ ~Fresh
    /\ captured' = Scene(world, circuit.bounds)
    /\ reading' = Read(captured')
    /\ timing' = Timing(captured'.world, captured'.links)
    /\ was' = health
    /\ offers' = {} /\ proposed' = FALSE
    /\ UNCHANGED <<circuit, world, edits, mends, health, first>>

\* The offers for changes of what is captured are drawn up.
Propose(changes) ==
    /\ captured # None
    /\ offers' = offers \cup Worthwhile({Judged(captured, was, change) : change \in changes})
    /\ UNCHANGED <<circuit, world, captured, reading, timing, was, edits, mends, health, first>>

NewRepair ==
    /\ ~proposed
    /\ Propose(ProposedChanges(captured, GapCandidates(captured, MaxGap), Report(captured)))
    /\ proposed' = TRUE

\* The region is scanned again, which gives what is captured while it is fresh.
NewRemoval(p) ==
    /\ Fresh
    /\ p \in circuit.targets
    /\ p \in DOMAIN captured.world /\ captured.world[p].kind \in RedstoneKinds
    /\ Propose({Removal(captured, p)})
    /\ UNCHANGED proposed

\* What the scan will see next is what was judged: no block outside of it,
\* which the scene does not have, gives another shape to a wire inside.
Foreseen(offer) == BoundedWorld(world', circuit.bounds) = BoundedWorld(Patched(captured, offer), circuit.bounds)

\* The change is made where the blocks are still what they were.
Accept(offer) ==
    /\ mends < MaxMends
    /\ BlockAt(world, offer.pos) = offer.before
    /\ Becomes(offer.pos, offer.after)
    /\ first' = IF Fresh /\ Improves(offer) /\ Foreseen(offer) THEN first ELSE health'
    /\ mends' = mends + 1
    /\ offers' = offers \ {offer}
    /\ UNCHANGED <<circuit, captured, reading, timing, was, proposed, edits>>

SceneNext ==
    \/ \E change \in Losses \cup Reorientations : Edit(change)
    \/ Capture
    \/ NewRepair
    \/ \E p \in circuit.targets : NewRemoval(p)
    \/ \E offer \in offers : Accept(offer)

SceneSpec == SceneInit /\ [][SceneNext]_sceneVars

-----------------------------------------------------------------------------
(* Properties.                                                             *)

\* The components of a signal are what reaches each other, and the sequence
\* of them leads from sources to sinks: inputs and outputs are read off the
\* ends, and the columns of a truth table are in this order
\* (strongly_connected_components, world_reverse.rs).
ComponentsAreMutual ==
    captured # None =>
        LET pairs == FunctionalEdges(captured)
            links == {[source |-> e[1], sink |-> e[2]] : e \in pairs}
            reach == UNION {{p} \X Reachable(links, {p}) : p \in Ends(pairs)}
            mutual(p) == {q \in Ends(pairs) : {<<p, q>>, <<q, p>>} \subseteq reach}
        IN  /\ On(reading.components) = {mutual(p) : p \in Ends(pairs)}
            /\ \A i, j \in DOMAIN reading.components :
                 i < j => (reading.components[j] \X reading.components[i]) \cap reach = {}

\* The gates the expressions are lowered to compute the truth table of the
\* world.
GatesFollowTheTable ==
    reading.logic.ok =>
        \A i \in DOMAIN reading.rows :
            LET value == Evaluate(reading.logic.nodes, Environment(reading.rows[i].inputs))
            IN  \A k \in DOMAIN reading.outputs :
                    value[reading.logic.outputs[k].node] = reading.rows[i].outputs[k]

\* The devices come to rest within count ticks.
QuietWithin(W, count) ==
    LET quiet[n \in 0..count, dev \in DeviceStates(W)] ==
            LET rests(next) == next = dev \/ (n > 0 /\ quiet[n - 1, next])
            IN  rests(AdvanceDevices(W, dev, SolveInstantaneous(W, dev)))
    IN  quiet[count, InitialDevices(W)]

\* Without feedback a circuit comes to rest, after as many ticks as it has
\* devices at most.
QuietWithoutFeedback ==
    LET devices == {p \in DOMAIN captured.world : captured.world[p].kind \in {"repeater", "torch", "comparator"}}
    IN  timing.scope # "temporal_required" => QuietWithin(captured.world, Cardinality(devices))

\* What is reported to feed back is every device on a way that leads back to
\* it, and nothing else.
FeedbackIsExact ==
    timing.feedback = {p \in DOMAIN captured.world :
                         /\ ~Passive(captured.world, p)
                         /\ p \in Reachable(captured.links, Forward(captured.links, {p}))}

\* What is read is so, of any circuit: the gates compute the truth table, and
\* feedback is reported where it is and nowhere else ("every two-way dust
\* adjacency appears to be feedback" is what must not happen,
\* physical_projection.rs).
ReadingIsTrue == captured # None => GatesFollowTheTable /\ FeedbackIsExact

\* What a circuit is read as foretells what it does: it comes to rest where
\* no feedback is reported, and as it was built it is read as what it was
\* built for (timing_assessment, classify_truth_table).
BehaviorIsForetold ==
    captured # None =>
        /\ QuietWithoutFeedback
        /\ captured.world = circuit.world => reading.role = circuit.role

\* Dust lost between two traversal groups is offered again where what it
\* stood on was seen, and accepting the offer restores the circuit; inside of
\* one group it is not, while no input is at fault (missing_wire_repairs and
\* liveness_bridge_repairs: an inferred input must not be shorted
\* automatically, repair.rs).
LostDustIsOffered ==
    (proposed /\ Fresh /\ mends = 0 /\ edits = 1) =>
        LET fragments == Fragments(captured)
            groups(S) == {i \in DOMAIN fragments : fragments[i] \cap S \cap Wires(world) # {}}
            parted(p) == \E f \in Horizontal : /\ {Side(p, f), Side(p, Opposite[f])} \subseteq Wires(world)
                                               /\ groups({Side(p, f)}) # groups({Side(p, Opposite[f])})
        IN  \A p \in Wires(circuit.world) \ DOMAIN world :
                /\ (parted(p) /\ Inside(circuit.bounds, Below(p))) =>
                       \E offer \in offers : /\ Improves(offer)
                                             /\ UpdateWireShapes(SetBlock(world, offer.pos, offer.after)) = circuit.world
                /\ (Cardinality(groups(Around(p, -1..1))) = 1 /\ was.undriven = 0) =>
                       ~\E offer \in offers : offer.pos = p /\ offer.reason = "connect_missing_wire"

\* Mending a circuit with fresh offers that improve it never leads back, as
\* far as they were judged on all that matters to them.
ImplementsMending == Mended!Spec

=============================================================================
