------------------------------ MODULE Mutations ------------------------------
(***************************************************************************)
(* What the optimizer may do to a placement, and what it thinks of the     *)
(* result (dustroute-optimize placement.rs, with verify_cell of            *)
(* dustroute-translate cell_library.rs).  A circuit is a record of its     *)
(* cells, its routes (a function from RouteIds to records of source and    *)
(* sink), and the endpoints of its terminals, inputs and outputs.          *)
(***************************************************************************)
EXTENDS Wiring, Behavior

Total(f) ==
    LET total[S \in SUBSET DOMAIN f] ==
            IF S = {} THEN 0 ELSE LET x == CHOOSE y \in S : TRUE IN f[x] + total[S \ {x}]
    IN  total[DOMAIN f]

Concat(seqs) ==
    LET joined[n \in 0..Len(seqs)] == IF n = 0 THEN <<>> ELSE joined[n - 1] \o seqs[n]
    IN  joined[Len(seqs)]

GateKinds == {"not", "and", "or", "xor", "nand"}

-----------------------------------------------------------------------------
(* verify_cell.                                                            *)

\* drive_input: a redstone block beside dust, a lever on a block.
Driver(port, value) ==
    LET facing == IF port.facing = "none" THEN "west" ELSE port.facing
        lever == [Facing("lever", Opposite[facing]) EXCEPT !.powered = value, !.support = {Offset[Opposite[facing]]}]
    IN  IF port.kind = "wire"
        THEN (IF value THEN Side(port.pos, facing) :> Plain("redstone_block") ELSE <<>>)
        ELSE Side(port.pos, facing) :> lever

Driven(cell, values) ==
    LET driven[S \in SUBSET DOMAIN values] ==
            IF S = {} THEN cell.blocks
            ELSE LET n == CHOOSE m \in S : TRUE IN Driver(cell.inputs[n], values[n]) @@ driven[S \ {n}]
    IN  Tabulated(UpdateWireShapes(driven[DOMAIN values]))

ExpectedValue(kind, values) ==
    CASE kind = "not" -> \A n \in DOMAIN values : ~values[n]
      [] kind = "and" -> \A n \in DOMAIN values : values[n]
      [] kind = "or" -> \E n \in DOMAIN values : values[n]
      [] kind = "nand" -> \E n \in DOMAIN values : ~values[n]

VerifyCell(kind, cell) ==
    \A values \in [DOMAIN cell.inputs -> BOOLEAN] :
        LET state == SettleTicks(Driven(cell, values), 8)
        IN  (SignalAt(state.signals, cell.outputs.out.pos) > 0) = ExpectedValue(kind, values)

\* What candidates_for gives, a kind and a place in the list of its cells,
\* the cells that are not what they are for left out.
VerifiedCandidates ==
    LET works(kind) == {i \in DOMAIN Candidates[kind] : VerifyCell(kind, Candidates[kind][i])}
    IN  UNION {{<<kind, i>> : i \in works(kind)} : kind \in DOMAIN Candidates}

-----------------------------------------------------------------------------
(* placement_score and electrical_keepout_contacts.                        *)

Footprint(placed) == {At(placed, p) : p \in DOMAIN placed.cell.blocks}
Occupied(cells) == UNION {Footprint(cells[c]) : c \in DOMAIN cells}

RedstoneRelated == Kinds \ {"solid", "transparent"}
Related(placed) == {At(placed, p) : p \in {q \in DOMAIN placed.cell.blocks : placed.cell.blocks[q].kind \in RedstoneRelated}}

\* The pairs of blocks of different cells that are next to each other or in
\* the same place, one of which is of redstone.
Contacts(cells) ==
    LET feet == Tabulated([c \in DOMAIN cells |-> Footprint(cells[c])])
        redstone == Tabulated([c \in DOMAIN cells |-> Related(cells[c])])
        near(p) == {p} \cup Adjacent(p)
        touching(c, d) == UNION {{<<p, q>> : q \in near(p) \cap (IF p \in redstone[c] THEN feet[d] ELSE redstone[d])} :
                                   p \in feet[c]}
    IN  Total([cd \in {e \in (DOMAIN cells) \X (DOMAIN cells) : e[1] < e[2]} |->
                 Cardinality(touching(cd[1], cd[2]))])

Distance(p, q) ==
    LET abs(x) == IF x < 0 THEN -x ELSE x
    IN  abs(p[1] - q[1]) + abs(p[2] - q[2]) + abs(p[3] - q[3])

Lowest(S) == CHOOSE n \in S : \A m \in S : n <= m
Highest(S) == CHOOSE n \in S : \A m \in S : m <= n
Extent(S, axis) == LET along == {p[axis] : p \in S} IN Highest(along) - Lowest(along) + 1

(***************************************************************************)
(* The total of a score is a sum of floats.  A score is what the penalty   *)
(* of a million is for, then the rest of the sum in five hundredths of its *)
(* unit: 1.0, 0.002, 0.05, and 10.0 for the span of a directional phase.   *)
(***************************************************************************)
Score(circuit, axis) ==
    LET occupied == Occupied(circuit.cells)
        blocks == Total([c \in DOMAIN circuit.cells |-> Cardinality(DOMAIN circuit.cells[c].cell.blocks)])
        wire == Total([r \in DOMAIN circuit.routes |-> Distance(circuit.routes[r].source.pos, circuit.routes[r].sink.pos)])
    IN  [overlaps |-> blocks - Cardinality(occupied),
         rest |-> 500 * wire + Extent(occupied, 1) * Extent(occupied, 2) * Extent(occupied, 3) + 25 * blocks
                  + (IF axis = 0 THEN 0 ELSE 5000 * Extent(occupied, axis))]

Better(a, b) == a.overlaps < b.overlaps \/ (a.overlaps = b.overlaps /\ a.rest < b.rest)

-----------------------------------------------------------------------------
(* candidate_mutations: a mutation is a record of its kind, the cells it   *)
(* affects, its delta and the cells after it.                              *)

Mutation(kind, affected, delta, cells) == [kind |-> kind, affected |-> affected, delta |-> delta, cells |-> cells]

Shifted(cells, deltas) ==
    [c \in DOMAIN cells |-> IF c \in DOMAIN deltas THEN [cells[c] EXCEPT !.origin = Plus(@, deltas[c])] ELSE cells[c]]

Directions ==
    <<<<1, 0, 0>>, <<-1, 0, 0>>, <<0, 0, 1>>, <<0, 0, -1>>, <<1, 0, 1>>, <<1, 0, -1>>, <<-1, 0, 1>>, <<-1, 0, -1>>>>

Moves(cells, c) ==
    [i \in DOMAIN Directions |-> Mutation("move", {c}, Directions[i], Shifted(cells, c :> Directions[i]))]

\* A turn keeps the middle of the cell where it was, on either side of it
\* where it cannot be kept.
CenterSum(cell, rotation, axis) ==
    LET along == {TurnPos(p, rotation)[axis] : p \in DOMAIN cell.blocks} IN Lowest(along) + Highest(along)

Turned(cells, c, rotation) ==
    LET placed == cells[c]
        off(axis) == CenterSum(placed.cell, placed.rotation, axis) - CenterSum(placed.cell, rotation, axis)
        offsets(axis) == IF off(axis) % 2 = 0 THEN <<off(axis) \div 2>> ELSE <<off(axis) \div 2, off(axis) \div 2 + 1>>
        turn(x, z) == Mutation("rotate", {c}, <<x, 0, z>>,
                               [cells EXCEPT ![c] = [placed EXCEPT !.rotation = rotation, !.origin = Plus(@, <<x, 0, z>>)]])
        row(x) == [j \in DOMAIN offsets(3) |-> turn(x, offsets(3)[j])]
    IN  IF rotation = placed.rotation THEN <<>> ELSE Concat([i \in DOMAIN offsets(1) |-> row(offsets(1)[i])])

Rotations(cells, c) == Concat([r \in 1..4 |-> Turned(cells, c, r - 1)])

Replacements(cells, c) ==
    LET own == {v \in VerifiedCandidates : v[1] = cells[c].kind /\ Candidates[v[1]][v[2]] # cells[c].cell}
        others == Sorted({v[2] : v \in own}, LAMBDA i, j : i < j)
        replaced(i) == [cells EXCEPT ![c].cell = Candidates[cells[c].kind][i]]
    IN  [n \in DOMAIN others |-> Mutation("replace", {c}, <<0, 0, 0>>, replaced(others[n]))]

\* The cells that are connected by a route, and by how many steps of one.
Connected(routes) ==
    UNION {{<<routes[r].source.cell, routes[r].sink.cell>>, <<routes[r].sink.cell, routes[r].source.cell>>} :
             r \in {s \in DOMAIN routes : routes[s].source.cell # 0 /\ routes[s].sink.cell # 0}}
Beside(routes, c) == {d[2] : d \in {e \in Connected(routes) : e[1] = c}}

Sign(x) == IF x < 0 THEN -1 ELSE IF x > 0 THEN 1 ELSE 0

\* The two of a pair, a step towards each other.
TogetherPair(cells, pair) ==
    LET a == cells[pair[1]].origin
        b == cells[pair[2]].origin
        delta == <<Sign(b[1] - a[1]), 0, Sign(b[3] - a[3])>>
        deltas == pair[1] :> delta @@ pair[2] :> <<-delta[1], 0, -delta[3]>>
    IN  IF delta = <<0, 0, 0>> THEN <<>>
        ELSE <<Mutation("group", {pair[1], pair[2]}, delta, Shifted(cells, deltas))>>

\* A group, all of it one step, or each of it a step towards the middle.
TogetherGroup(cells, group) ==
    LET total(axis) == Total([c \in group |-> cells[c].origin[axis]])
        toward(c) == LET pull(axis) == Sign(total(axis) - cells[c].origin[axis] * Cardinality(group))
                     IN  <<pull(1), 0, pull(3)>>
        rigid == [i \in DOMAIN Directions |->
                    Mutation("group", group, Directions[i], Shifted(cells, [c \in group |-> Directions[i]]))]
        inward == Mutation("group", group, toward(Lowest(group)), Shifted(cells, [c \in group |-> toward(c)]))
    IN  IF \A c \in group : toward(c) = <<0, 0, 0>> THEN rigid ELSE Append(rigid, inward)

\* The order of sets of cells: as sorted sequences.
SetBefore(S, T) ==
    LET differ == (S \ T) \cup (T \ S)
        d == Lowest(differ)
    IN  differ # {} /\ (IF d \in S THEN \E t \in T : t > d ELSE ~\E s \in S : s > d)

Gates(cells) == Sorted({c \in DOMAIN cells : cells[c].kind \in GateKinds}, LAMBDA c, d : c < d)

Pairs(routes) ==
    Sorted({cd \in Connected(routes) : cd[1] <= cd[2]}, LAMBDA p, q : p[1] < q[1] \/ (p[1] = q[1] /\ p[2] < q[2]))

Groups(cells, routes) ==
    Sorted({group \in {{c} \cup Beside(routes, c) : c \in DOMAIN cells} : Cardinality(group) \in 2..8}, SetBefore)

Mutations(circuit) ==
    LET cells == circuit.cells
        gates == Gates(cells)
        pairs == Pairs(circuit.routes)
        groups == Groups(cells, circuit.routes)
    IN  Concat([g \in DOMAIN gates |->
                    Moves(cells, gates[g]) \o Rotations(cells, gates[g]) \o Replacements(cells, gates[g])])
        \o Concat([n \in DOMAIN pairs |-> TogetherPair(cells, pairs[n])])
        \o Concat([n \in DOMAIN groups |-> TogetherGroup(cells, groups[n])])

\* refresh_route_endpoints.
RefreshEndpoint(cells, e) ==
    IF e.cell = 0 THEN e
    ELSE IF e.port \in DOMAIN cells[e.cell].cell.inputs THEN InputEndpoint(cells, e.cell, e.port)
         ELSE OutputEndpoint(cells, e.cell, e.port)

\* apply_mutation.
Mutated(circuit, cells) ==
    LET fresh(e) == RefreshEndpoint(cells, e)
    IN  [cells |-> cells,
         routes |-> [r \in DOMAIN circuit.routes |->
                        [source |-> fresh(circuit.routes[r].source), sink |-> fresh(circuit.routes[r].sink)]],
         inputs |-> [n \in DOMAIN circuit.inputs |-> fresh(circuit.inputs[n])],
         outputs |-> [k \in DOMAIN circuit.outputs |-> fresh(circuit.outputs[k])]]
=============================================================================
