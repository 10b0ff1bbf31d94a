-------------------------------- MODULE Compiler --------------------------------
(***************************************************************************)
(* BaselineCompiler::compile (dustroute-translate compiler.rs): a graph of *)
(* gates is lowered to gates there are cells for, a cell is placed for     *)
(* every gate and every output, the nets between them are routed (module   *)
(* Router), and the result is checked for the length of its dust.  The     *)
(* world is judged by what it does: with a redstone block beside every     *)
(* input that is on, it settles to the values of the graph.                *)
(***************************************************************************)
EXTENDS Router, Behavior, LogicGraph

CONSTANT SettleCount    \* ticks the world is given to settle

ASSUME CompilerAssumption == SettleCount \in Nat

-----------------------------------------------------------------------------
(* fanout_aware_origins.  A lane is a fraction.                            *)

Lane(num, den) == [num |-> num, den |-> den]
Plus2(a, b) == Lane(a.num * b.den + b.num * a.den, a.den * b.den)
Rounded(lane) == (2 * lane.num + lane.den) \div (2 * lane.den)
LaneBefore(a, b) == a.num * b.den < b.num * a.den

\* The uses of a gate by others, one for every input it feeds.
Users(nodes, i) ==
    {uk \in (DOMAIN nodes) \X (1..2) : uk[2] \in DOMAIN nodes[uk[1]].inputs /\ nodes[uk[1]].inputs[uk[2]] = i}

\* The lane of the last output a gate has, or the mean of those it feeds.
DesiredLanes(dag, gap) ==
    LET uses(i) == Users(dag.nodes, i)
        outputs(i) == {k \in DOMAIN dag.outputs : dag.outputs[k].node = i}
        sum(S, lane) ==
            LET total[T \in SUBSET S] ==
                    IF T = {} THEN Lane(0, 1)
                    ELSE LET use == CHOOSE u \in T : TRUE IN Plus2(lane[use[1]], total[T \ {use}])
            IN  total[S]
        lane[i \in DOMAIN dag.nodes] ==
            IF outputs(i) # {} THEN Lane((Greatest(outputs(i)) - 1) * gap * 3, 1)
            ELSE IF uses(i) = {} THEN Lane(0, 1)
            ELSE LET mean == sum(uses(i), lane) IN Lane(mean.num, mean.den * Count(uses(i)))
    IN  lane

\* In every layer the gates take the lane they want, or the next one up
\* that is gap away from those taken.
FanoutAwareOrigins(dag, spacing, gap) ==
    LET depths == LogicDepths(dag.nodes)
        lanes == DesiredLanes(dag, gap)
        before(i, j) == LaneBefore(lanes[i], lanes[j]) \/ (~LaneBefore(lanes[j], lanes[i]) /\ i < j)
        earlier(i) == {j \in DOMAIN dag.nodes : depths[j] = depths[i] /\ before(j, i)}
        taken[i \in DOMAIN dag.nodes] ==
            LET free[z \in Nat] ==
                    IF \A j \in earlier(i) : z - taken[j] >= gap \/ taken[j] - z >= gap
                    THEN z ELSE free[z + gap]
            IN  free[Rounded(lanes[i])]
    IN  [i \in DOMAIN dag.nodes |-> <<depths[i] * spacing, 2, taken[i]>>]

-----------------------------------------------------------------------------
(* The cells and the nets.                                                 *)

Place(kind, cell, origin) == [kind |-> kind, cell |-> cell, origin |-> origin, rotation |-> 0]

\* A cell for every gate, and after them one for every output.
CellsOf(dag, spacing, gap) ==
    LET gates == Len(dag.nodes)
        origins == FanoutAwareOrigins(dag, spacing, gap)
        depths == LogicDepths(dag.nodes)
    IN  [c \in 1..(gates + Len(dag.outputs)) |->
            IF c <= gates THEN Place(dag.nodes[c].kind, BaselineCell[dag.nodes[c].kind], origins[c])
            ELSE Place("output", BaselineCell.output,
                       <<(depths[dag.outputs[c - gates].node] + 1) * spacing, 2, (c - gates - 1) * gap * 3>>)]

\* The cells and ports a gate feeds: those of the gates, then of the outputs.
SinksOf(dag, cells, i) ==
    LET gates == Len(dag.nodes)
        ports[c \in 0..Len(cells)] ==
            IF c = 0 THEN <<>>
            ELSE IF c > gates
                 THEN ports[c - 1] \o (IF dag.outputs[c - gates].node = i THEN <<InputEndpoint(cells, c, "in")>> ELSE <<>>)
            ELSE LET node == dag.nodes[c]
                     port(k) == IF k \in DOMAIN node.inputs /\ node.inputs[k] = i
                                THEN <<InputEndpoint(cells, c, IF k = 1 THEN "a" ELSE "b")>> ELSE <<>>
                 IN  ports[c - 1] \o port(1) \o port(2)
    IN  ports[Len(cells)]

\* The NetId of a gate is its place in the topological order.
JobsOf(dag, cells) ==
    LET order == TopologicalOrder(dag.nodes)
        used == {n \in DOMAIN order : SinksOf(dag, cells, order[n]) # <<>>}
    IN  [n \in used |-> [source |-> OutputEndpoint(cells, order[n], "out"),
                         sinks |-> SinksOf(dag, cells, order[n])]]

\* The problem a graph is for the router.  compile records no routes.
CompileProblem(dag, spacing, gap, ripups, width, nodes) ==
    LET primitive == LowerXor(dag)
        cells == CellsOf(primitive, spacing, gap)
        gates == Len(primitive.nodes)
        inputs == {i \in DOMAIN primitive.nodes : primitive.nodes[i].kind = "input"}
    IN  [cells |-> cells, world |-> CellWorld(cells), keepout |-> CellSourceKeepout(cells),
         jobs |-> JobsOf(primitive, cells), fixed |-> <<>>, attempts |-> ripups, width |-> width, maxNodes |-> nodes,
         graph |-> dag,
         inputs |-> [n \in {primitive.nodes[i].name : i \in inputs} |->
                        InputEndpoint(cells, CHOOSE i \in inputs : primitive.nodes[i].name = n, "in")],
         outputs |-> [k \in DOMAIN primitive.outputs |-> OutputEndpoint(cells, gates + k, "out")],
         routes |-> <<>>]

\* What route_jobs_ripup_with_fixed is given by others.
RouteProblem(cells, jobs, fixed, ripups, width, nodes) ==
    [cells |-> cells, world |-> CellWorld(cells), keepout |-> CellSourceKeepout(cells), jobs |-> jobs,
     fixed |-> fixed, attempts |-> ripups, width |-> width, maxNodes |-> nodes,
     graph |-> [nodes |-> <<>>, outputs |-> <<>>], inputs |-> <<>>, outputs |-> <<>>, routes |-> <<>>]

-----------------------------------------------------------------------------

CompiledWorld == Materialize(problem.world, routing)
WithinBudget == \A n \in DOMAIN routing : OverBudget(routing[n], MaxRun) = {}

Check ==
    /\ stage = "routed"
    /\ stage' = IF WithinBudget THEN "compiled" ELSE "illegal"
    /\ UNCHANGED <<problem, loop, net, goals, search>>

Stopped == stage \in {"unroutable", "exhausted", "compiled", "illegal"} /\ UNCHANGED vars

Next == RoutingStep \/ Check \/ Stopped

Spec == Init /\ [][Next]_vars

-----------------------------------------------------------------------------
(* Properties.                                                             *)

\* The world with a redstone block west of every input that is on.
Switched(W, values) ==
    LET driven == [p \in {Side(problem.inputs[n].pos, "west") : n \in {m \in DOMAIN values : values[m]}} |->
                      Plain("redstone_block")]
    IN  Tabulated(UpdateWireShapes(driven @@ W))

\* A compiled circuit does what its graph says, for all values of the inputs.
CompiledWorks ==
    stage = "compiled" =>
        \A values \in [DOMAIN problem.inputs -> BOOLEAN] :
            LET state == SettleTicks(Switched(CompiledWorld, values), SettleCount)
            IN  \A k \in DOMAIN problem.outputs :
                    SignalAt(state.signals, problem.outputs[k].pos) > 0
                      <=> Evaluate(problem.graph.nodes, values)[problem.graph.outputs[k].node]

\* Between two nets, what is routed is legal, also after a rip-up has taken
\* a part of it away.
RoutedIsLegal == stage = "nets" => ~CannotMaterialize(routing) /\ Legal(CompiledWorld, routing)

\* A net is routed, waiting or under way, and only one of them, until the
\* call fails; those that were there from the start stay as they are.
NetsAreKept ==
    /\ On(routedOrder) = DOMAIN routing \ DOMAIN problem.fixed
    /\ Len(routedOrder) + Len(pending) + (IF net = Nothing THEN 0 ELSE 1)
         = IF stage = "unroutable" THEN Cardinality(DOMAIN Jobs) - 1 ELSE Cardinality(DOMAIN Jobs)
    /\ stage # "unroutable" =>
         DOMAIN Jobs = On(routedOrder) \cup On(pending) \cup (IF net = Nothing THEN {} ELSE {net.id})
    /\ \A n \in DOMAIN problem.fixed : routing[n] = problem.fixed[n]

\* A route that is found is a cheapest one: a step the search did not take
\* leads to where it got for less, or too far from the goal.
RouteIsCheapest ==
    stage = "search" /\ search.queue # {} /\ Current = goals.goal =>
        \A p \in DOMAIN search.costs, i \in 1..12 :
            LET q == Plus(p, Move[i])
                cost == search.costs[p] + StepCost(p, q)
            IN  MayStep(q) => \/ q \in DOMAIN search.costs /\ search.costs[q] <= cost
                              \/ cost + 10 * Manhattan(q, goals.goal) >= search.costs[goals.goal]
=============================================================================
