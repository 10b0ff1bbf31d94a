-------------------------------- MODULE Reading --------------------------------
(***************************************************************************)
(* What a captured circuit is read as (dustroute-translate                 *)
(* world_reverse.rs, analysis.rs): its signal components, the dust taken   *)
(* for its inputs and outputs, the truth table the simulator gives for     *)
(* them, an expression for every output and the role of the whole.  A      *)
(* scene is a record of the world inside of the bounds, the edges of its   *)
(* graph, the connections of its scene and the frontier of what was seen.  *)
(***************************************************************************)
EXTENDS Behavior, Cells, RedstoneGraph, Expressions

CONSTANTS
    MaxInputs,      \* inputs whose truth table is read
    SettleCount     \* ticks a row of the truth table is given to settle

ASSUME ReadingAssumption == MaxInputs \in Nat /\ SettleCount \in Nat

Inside(bounds, p) == \A i \in 1..3 : bounds.min[i] <= p[i] /\ p[i] <= bounds.max[i]
BoundedWorld(W, bounds) == [p \in {q \in DOMAIN W : Inside(bounds, q)} |-> W[p]]

\* observation_frontier: where redstone stands at the edge of the bounds.
ObservationFrontier(W, bounds) ==
    {p \in DOMAIN W : W[p].kind \in RedstoneKinds /\ \E i \in 1..3 : p[i] \in {bounds.min[i], bounds.max[i]}}

SceneWith(W, bounds, edges) ==
    [world |-> W, bounds |-> bounds, edges |-> edges,
     links |-> PortConnections(W, edges), frontier |-> ObservationFrontier(W, bounds)]

SceneOf(W, bounds) == SceneWith(W, bounds, ExtractConnectivity(W))

\* bounded_world and translate_world: what is seen inside of the bounds.
Scene(W, bounds) ==
    SceneOf(BoundedWorld(W, bounds), bounds)

-----------------------------------------------------------------------------
(* Signal components: nodes that reach each other.  next and before are    *)
(* the successors and the predecessors of the nodes.                       *)

VisitStates(nodes) == [seen : SUBSET nodes, order : Seq(nodes)]

\* Nodes are visited in order, one after the other.
VisitEach(visit, nodes, state) ==
    LET order == InOrder(nodes)
        after[n \in 0..Len(order)] == IF n = 0 THEN state ELSE visit[order[n]][after[n - 1]]
    IN  after[Len(order)]

Finish(node, state) == [state EXCEPT !.order = Append(@, node)]

\* visit_order; no visit is deeper than there are nodes.
VisitOrder(next, nodes) ==
    LET visit[depth \in 0..Cardinality(nodes)] ==
            [node \in nodes |-> [state \in VisitStates(nodes) |->
                IF depth = 0 \/ node \in state.seen THEN state
                ELSE Finish(node, VisitEach(visit[depth - 1], next[node], [state EXCEPT !.seen = @ \cup {node}]))]]
    IN  visit[Cardinality(nodes)]

\* The nodes, each after what it leads to.
FinishOrder(next, nodes) ==
    VisitEach(VisitOrder(next, nodes), nodes, [seen |-> {}, order |-> <<>>]).order

CollectComponent(before, unseen, node) ==
    LET collect[S \in SUBSET unseen] ==
            LET more == S \cup ((UNION {before[p] : p \in S}) \cap unseen)
            IN  IF more = S THEN S ELSE collect[more]
    IN  collect[{node}]

\* Mutant: the components are collected along the edges they were visited by.
SameWayComponents(next, before, nodes) ==
    LET order == FinishOrder(next, nodes)
        found[n \in 0..Len(order)] ==
            IF n = 0 THEN <<>>
            ELSE LET so == found[n - 1]
                     node == order[Len(order) + 1 - n]
                     unseen == nodes \ UNION On(so)
                 IN  IF node \notin unseen THEN so ELSE Append(so, CollectComponent(next, unseen, node))
    IN  found[Len(order)]

StronglyConnected(next, before, nodes) ==
    LET order == FinishOrder(next, nodes)
        found[n \in 0..Len(order)] ==
            IF n = 0 THEN <<>>
            ELSE LET so == found[n - 1]
                     node == order[Len(order) + 1 - n]
                     unseen == nodes \ UNION On(so)
                 IN  IF node \notin unseen THEN so ELSE Append(so, CollectComponent(before, unseen, node))
    IN  found[Len(order)]

FunctionalKinds == {"wire", "torch", "repeater", "comparator", "lever", "redstone_block", "piston"}

\* Edges between redstone, and blocks that pass a signal on, as pairs.
FunctionalEdges(scene) ==
    LET functional == {p \in DOMAIN scene.world : scene.world[p].kind \in FunctionalKinds}
                      \cup ({e.source : e \in scene.edges} \cap DOMAIN scene.world)
    IN  {<<e.source, e.sink>> : e \in {d \in scene.edges : {d.source, d.sink} \subseteq functional}}

Sinks(pairs, p) == {e[2] : e \in {d \in pairs : d[1] = p}}
Sources(pairs, p) == {e[1] : e \in {d \in pairs : d[2] = p}}
Ends(pairs) == {e[1] : e \in pairs} \cup {e[2] : e \in pairs}

SignalComponents(pairs) ==
    LET nodes == Ends(pairs)
    IN  StronglyConnected([p \in nodes |-> Sinks(pairs, p)], [p \in nodes |-> Sources(pairs, p)], nodes)

Outgoing(pairs, components, id) == {e \in pairs : e[1] \in components[id] /\ e[2] \notin components[id]}
Incoming(pairs, components, id) == {e \in pairs : e[1] \notin components[id] /\ e[2] \in components[id]}

-----------------------------------------------------------------------------
(* Inputs and outputs: sequences of terminals, in the order of their       *)
(* components.                                                             *)

TerminalAt(anchor, id) == [anchor |-> anchor, component |-> id]
LastOf(S) == CHOOSE p \in S : \A q \in S \ {p} : Before(q, p)
ByComponent(S) == Sorted(S, LAMBDA s, t : s.component < t.component)

\* A lever or a block of redstone, and else dust.
InferInput(W, component, id) ==
    LET certain == {p \in component : KindAt(W, p) \in {"lever", "redstone_block"}}
        likely == component \cap Wires(W)
    IN  {TerminalAt(FirstOf(S), id) : S \in {IF certain # {} THEN certain ELSE likely} \ {{}}}

InferOutput(W, component, id) ==
    LET outlets == {p \in component : KindAt(W, p) \in {"wire", "repeater", "piston"}}
    IN  {TerminalAt(LastOf(S), id) : S \in {outlets} \ {{}}}

\* A repeater between two dusts, all three on solid blocks.
BoundaryCells(W) ==
    {b \in UNION {Rear(W, p) \X {p} \X Front(W, p) : p \in OfKind(W, "repeater")} :
        {b[1], b[3]} \subseteq Wires(W) /\ \A o \in On(b) : KindAt(W, Below(o)) = "solid"}

ExternallyConnected(scene, b, p) ==
    LET cell == On(b) \cup {Below(o) : o \in On(b)}
    IN  \E e \in scene.edges : \/ e.source = p /\ e.sink \notin cell
                               \/ e.sink = p /\ e.source \notin cell

\* infer_buffered_boundaries; of several in a component the last is taken.
BufferedBoundaries(scene, components, end, other) ==
    LET found == {b \in BoundaryCells(scene.world) :
                    ~ExternallyConnected(scene, b, b[end]) /\ ExternallyConnected(scene, b, b[other])}
        of(id) == {b[2] : b \in {c \in found : c[end] \in components[id]}}
        anchor(p) == (CHOOSE b \in found : b[2] = p)[end]
    IN  {TerminalAt(anchor(LastOf(of(id))), id) : id \in {i \in DOMAIN components : of(i) # {}}}

Terminals(scene, pairs, components) ==
    LET starts == {id \in DOMAIN components :
                     Incoming(pairs, components, id) = {} /\ Outgoing(pairs, components, id) # {}}
        ends == {id \in DOMAIN components :
                     Outgoing(pairs, components, id) = {} /\ Incoming(pairs, components, id) # {}}
        bufferedInputs == BufferedBoundaries(scene, components, 1, 3)
        bufferedOutputs == BufferedBoundaries(scene, components, 3, 1)
    IN  IF bufferedInputs = {} \/ bufferedOutputs = {}
        THEN [inputs |-> ByComponent(UNION {InferInput(scene.world, components[id], id) : id \in starts}),
              outputs |-> ByComponent(UNION {InferOutput(scene.world, components[id], id) : id \in ends})]
        ELSE [inputs |-> ByComponent(bufferedInputs), outputs |-> ByComponent(bufferedOutputs)]

-----------------------------------------------------------------------------
(* infer_truth_table.                                                      *)

Free(W, p) == p \notin DOMAIN W

\* input_driver: where a block of redstone is put to drive an input, or the
\* lever to throw; the empty set where there is no safe position.
DriverOutside(scene, anchor) ==
    LET ways == <<"west", "east", "north", "south">>
        free == {i \in 1..4 : /\ ~Inside(scene.bounds, Side(anchor, ways[i]))
                              /\ Free(scene.world, Side(anchor, ways[i]))}
    IN  {Side(anchor, ways[Least(S)]) : S \in {free} \ {{}}}

DriverBehind(scene, pairs, components, terminal) ==
    LET outgoing == {e[2] : e \in Outgoing(pairs, components, terminal.component)}
        downstream == {q \in DOMAIN scene.world : \E id \in DOMAIN components :
                         q \in components[id] /\ components[id] \cap outgoing # {}}
        behind == {f \in Horizontal : /\ Side(terminal.anchor, f) \in downstream
                                      /\ Free(scene.world, Side(terminal.anchor, Opposite[f]))}
        first == FirstOf({Side(terminal.anchor, f) : f \in behind})
    IN  {Side(terminal.anchor, Opposite[f]) : f \in {g \in behind : Side(terminal.anchor, g) = first}}

InputDriver(scene, pairs, components, terminal) ==
    LET outside == DriverOutside(scene, terminal.anchor)
    IN  IF KindAt(scene.world, terminal.anchor) = "lever" THEN {terminal.anchor}
        ELSE IF outside # {} THEN outside
        ELSE DriverBehind(scene, pairs, components, terminal)

\* The world with the inputs driven; drivers and bits are sequences.
DrivenWorld(W, drivers, bits) ==
    LET driven[n \in 0..Len(drivers)] ==
            IF n = 0 THEN W
            ELSE LET so == driven[n - 1]
                     p == drivers[n]
                 IN  IF KindAt(W, p) = "lever" THEN [so EXCEPT ![p].powered = bits[n]]
                     ELSE IF bits[n] THEN p :> Plain("redstone_block") @@ so
                     ELSE [q \in DOMAIN so \ {p} |-> so[q]]
    IN  Tabulated(UpdateWireShapes(driven[Len(drivers)]))

Bits(count, row) == [i \in 1..count |-> ((row - 1) \div (2 ^ (i - 1))) % 2 = 1]

TruthRow(W, drivers, outputs, bits) ==
    LET state == SettleTicks(DrivenWorld(W, drivers, bits), SettleCount)
    IN  [inputs |-> bits, outputs |-> [k \in DOMAIN outputs |-> SignalAt(state.signals, outputs[k].anchor) > 0]]

\* 1 << count
RowCount(count) ==
    LET double[n \in 0..count] == IF n = 0 THEN 1 ELSE 2 * double[n - 1]
    IN  double[count]

\* A sequence, written out.
Written(s) == s \o <<>>

\* The rows of the table, or an error and no rows; found is a sequence of
\* where each input may be driven.
TruthTable(scene, found, outputs) ==
    LET count == Len(found)
        drivers == Written([i \in 1..count |-> FirstOf(found[i])])
    IN  IF count > MaxInputs THEN [error |-> "too_many_inputs", rows |-> <<>>]
        ELSE IF {} \in On(found) THEN [error |-> "no_driver_position", rows |-> <<>>]
        ELSE [error |-> "none",
              rows |-> Written([row \in 1..RowCount(count) |->
                                   TruthRow(scene.world, drivers, outputs, Bits(count, row))])]

InferTruthTable(scene, pairs, components, terminals) ==
    LET found == [i \in DOMAIN terminals.inputs |-> InputDriver(scene, pairs, components, terminals.inputs[i])]
    IN  TruthTable(scene, Written(found), terminals.outputs)

-----------------------------------------------------------------------------
(* infer_output_expressions and classify_truth_table.                      *)

Named(prefix, i) == <<prefix, i - 1>>
Input(i) == Var(Named("in", i))
Environment(inputs) ==
    [name \in {Named("in", i) : i \in DOMAIN inputs} |-> inputs[CHOOSE i \in DOMAIN inputs : Named("in", i) = name]]

Matches(rows, k, e) ==
    \A i \in DOMAIN rows : EvaluateExpr(e, Environment(rows[i].inputs)) = rows[i].outputs[k]

CandidateExpressions(count) ==
    LET vars == [i \in 1..count |-> Input(i)]
        ordered == {ij \in (1..count) \X (1..count) : ij[1] < ij[2]}
        groups == {<<vars[ij[1]], vars[ij[2]]>> : ij \in ordered} \cup (IF count > 2 THEN {vars} ELSE {})
        majority == Expr("or", <<Expr("and", <<vars[1], vars[2]>>), Expr("and", <<vars[1], vars[3]>>),
                                 Expr("and", <<vars[2], vars[3]>>)>>)
    IN  {Const(FALSE), Const(TRUE)} \cup On(vars) \cup {Expr("not", <<v>>) : v \in On(vars)}
        \cup {Expr(op, args) : op \in {"and", "or", "xor", "nand"}, args \in groups}
        \cup (IF count = 3 THEN {majority} ELSE {})

SumOfProducts(rows, k, count) ==
    LET literal(i, value) == IF value THEN Input(i) ELSE Expr("not", <<Input(i)>>)
        term(row) == Expr("and", [i \in 1..count |-> literal(i, row.inputs[i])])
        terms[n \in 0..Len(rows)] ==
            IF n = 0 THEN <<>>
            ELSE IF rows[n].outputs[k] THEN Append(terms[n - 1], term(rows[n])) ELSE terms[n - 1]
        products == terms[Len(rows)]
    IN  IF products = <<>> THEN Const(FALSE)
        ELSE IF Len(products) = 1 THEN products[1] ELSE Expr("or", products)

\* Mutant: the largest of the candidates that match up to a row.
FirstRowsExpression(rows, k, count) ==
    LET fitting == {e \in CandidateExpressions(count) : Matches(SubSeq(rows, 1, Len(rows) - 1), k, e)}
    IN  IF fitting # {} THEN CHOOSE e \in fitting : \A f \in fitting : Size(e) <= Size(f)
        ELSE SumOfProducts(rows, k, count)

\* Of the smallest expressions that match, which one depends on their order.
OutputExpression(rows, k, count) ==
    LET fitting == {e \in CandidateExpressions(count) : Matches(rows, k, e)}
    IN  IF fitting # {} THEN CHOOSE e \in fitting : \A f \in fitting : Size(e) <= Size(f)
        ELSE SumOfProducts(rows, k, count)

BooleanColumns ==
    [buffer |-> <<FALSE, TRUE>>, not |-> <<TRUE, FALSE>>,
     and |-> <<FALSE, FALSE, FALSE, TRUE>>, or |-> <<FALSE, TRUE, TRUE, TRUE>>,
     xor |-> <<FALSE, TRUE, TRUE, FALSE>>, nand |-> <<TRUE, TRUE, TRUE, FALSE>>,
     nor |-> <<TRUE, FALSE, FALSE, FALSE>>, xnor |-> <<TRUE, FALSE, FALSE, TRUE>>]

ClassifyColumn(column) ==
    IF \E f \in DOMAIN BooleanColumns : BooleanColumns[f] = column
    THEN CHOOSE f \in DOMAIN BooleanColumns : BooleanColumns[f] = column
    ELSE "unclassified"

Parity == <<FALSE, TRUE, TRUE, FALSE, TRUE, FALSE, FALSE, TRUE>>
Majority == <<FALSE, FALSE, FALSE, TRUE, FALSE, TRUE, TRUE, TRUE>>

ClassifyTable(rows, inputs, outputs) ==
    LET columns == [k \in 1..outputs |-> [n \in DOMAIN rows |-> rows[n].outputs[k]]]
        functions == {ClassifyColumn(columns[k]) : k \in 1..outputs}
    IN  CASE inputs = 2 /\ outputs = 2 /\ functions = {"xor", "and"} -> "half_adder"
          [] inputs = 3 /\ outputs = 2 ->
               IF {Parity, Majority} \subseteq On(columns) THEN "full_adder" ELSE "unclassified"
          [] outputs = 1 -> ClassifyColumn(columns[1])
          [] OTHER -> "unclassified"

\* Translator::reverse, up to the gates and the hierarchy: the signals, their
\* components, the terminals, the table and what it says.
ReadRows(components, terminals, table, expressions) ==
    [components |-> components, inputs |-> terminals.inputs, outputs |-> terminals.outputs,
     error |-> table.error, rows |-> table.rows,
     expressions |-> expressions,
     logic |-> LogicFromExpressions([k \in DOMAIN expressions |->
                                        [name |-> Named("o", k), expr |-> expressions[k]]]),
     role |-> IF table.error = "none"
              THEN ClassifyTable(table.rows, Len(terminals.inputs), Len(terminals.outputs)) ELSE "unknown"]

ReadTable(components, terminals, table) ==
    LET known == {k \in DOMAIN terminals.outputs : table.error = "none"}
        expressions == [k \in known |-> OutputExpression(table.rows, k, Len(terminals.inputs))]
    IN  ReadRows(components, terminals, table, Written(expressions))

ReadTerminals(scene, pairs, components, terminals) ==
    ReadTable(components, terminals, InferTruthTable(scene, pairs, components, terminals))

ReadComponents(scene, pairs, components) ==
    ReadTerminals(scene, pairs, components, Terminals(scene, pairs, components))

ReadSignals(scene, pairs) == ReadComponents(scene, pairs, SignalComponents(pairs))

Read(scene) == ReadSignals(scene, FunctionalEdges(scene))
=============================================================================
