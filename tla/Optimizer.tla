------------------------------- MODULE Optimizer -------------------------------
(***************************************************************************)
(* realize_staged_optimization_against (dustroute-optimize realize.rs,     *)
(* phased.rs and safety.rs) on a circuit that was compiled: window by      *)
(* window and phase by phase the mutations that score better are tried,    *)
(* best first; one is kept if the nets that touch a cell it changed can be *)
(* routed again and the circuit still does what the original did.          *)
(***************************************************************************)
EXTENDS Compiler, Mutations

CONSTANTS
    Plan,            \* the phases, each [axis, sign, anchors, steps]; axis 0 is GlobalCompact
    MaxFocus, MaxSweeps,       \* cells in a window, sweeps over the windows
    OptimizeAttempts, OptimizeWidth, \* OptimizationRoutingConfig
    TableTicks       \* settle_ticks

\* Mutant: an endpoint that has moved is not the same any more.
SameEndpointAndPlace(a, b) == a = b

SameEndpoint(a, b) == a.cell = b.cell /\ a.port = b.port /\ a.kind = b.kind

\* An endpoint is a port of a cell, or one of the circuit.
IsAtPort(cells, e) ==
    e.cell # 0 => /\ e.cell \in DOMAIN cells
                  /\ e.port \in DOMAIN cells[e.cell].cell.inputs \cup DOMAIN cells[e.cell].cell.outputs
                  /\ RefreshEndpoint(cells, e) = e

EndsAtPorts(cells, given) == \A e \in {given.source} \cup On(given.sinks) : IsAtPort(cells, e)

SamePorts(cell, other) ==
    LET kinds(ports) == [n \in DOMAIN ports |-> ports[n].kind]
    IN  kinds(cell.inputs) = kinds(other.inputs) /\ kinds(cell.outputs) = kinds(other.outputs)

\* A cell has the ports of those it may be replaced by.
ReplaceableCells(cells) ==
    /\ IsFiniteSet(DOMAIN cells)
    /\ \A c \in DOMAIN cells :
         /\ {"kind", "cell"} \subseteq DOMAIN cells[c]
         /\ cells[c].kind \in DOMAIN Candidates =>
              \A i \in DOMAIN Candidates[cells[c].kind] : SamePorts(cells[c].cell, Candidates[cells[c].kind][i])

NetsOf(given) ==
    [n \in DOMAIN given.jobs \cup DOMAIN given.fixed |->
        IF n \in DOMAIN given.jobs THEN given.jobs[n] ELSE given.fixed[n]]

\* A route is recorded for every sink of every net, and no two nets begin at
\* the same port.
RecordsNets(routes, nets) ==
    /\ \A n \in DOMAIN nets :
         /\ nets[n].sinks \in Seq(On(nets[n].sinks)) /\ nets[n].sinks # <<>>
         /\ \A i, j \in DOMAIN nets[n].sinks : nets[n].sinks[i] = nets[n].sinks[j] => i = j
    /\ \A n, m \in DOMAIN nets : SameEndpoint(nets[n].source, nets[m].source) => n = m
    /\ routes \in Seq(On(routes))
    /\ On(routes) = UNION {{[source |-> nets[n].source, sink |-> s] : s \in On(nets[n].sinks)} : n \in DOMAIN nets}

ASSUME OptimizerAssumption ==
    /\ MaxFocus \in Nat \ {0} /\ MaxSweeps \in Nat \ {0} /\ TableTicks \in Nat
    /\ OptimizeAttempts \in Nat \ {0} /\ OptimizeWidth \in Nat \ {0}
    /\ \A given \in Problems :
         /\ {"cells", "jobs", "fixed"} \subseteq DOMAIN given
         /\ ReplaceableCells(given.cells)
         /\ \A n \in DOMAIN given.jobs : EndsAtPorts(given.cells, given.jobs[n])
         /\ \A n \in DOMAIN given.fixed : EndsAtPorts(given.cells, given.fixed[n])
         /\ given.routes # <<>> => RecordsNets(given.routes, NetsOf(given))

VARIABLES
    mode,       \* what is under way
    original,   \* the circuit that was given, with its routing, world and table
    circuit,    \* what it is now
    work,       \* the sweep, the windows left, the phase and what is left of its steps
    trials,     \* what is left to try, by the places of the mutations in their list
    accepted,   \* how many were kept
    built,      \* what was routed: its world and its table, if it is legal
    result      \* what is returned, and how safe it is

own == <<mode, original, circuit, work, trials, accepted, built, result>>
allVars == <<vars, own>>

-----------------------------------------------------------------------------
(* realize.rs.                                                             *)

\* direct_boundary_table: a redstone block in the place of every input.
Table(W, inputs, outputs) ==
    [values \in [DOMAIN inputs -> BOOLEAN] |->
        LET driven == [p \in {inputs[n].pos : n \in {m \in DOMAIN values : values[m]}} |-> Plain("redstone_block")]
            state == SettleTicks(Tabulated(UpdateWireShapes(driven @@ W)), TableTicks)
        IN  [k \in DOMAIN outputs |-> ElectricalLevelAt(state, outputs[k].pos) > 0]]

Differ(before, after) == {c \in DOMAIN before.cells : before.cells[c] # after.cells[c]}

\* Mutant: only what the last mutation changed is routed again.
ChangedCellsSince(candidate) == Differ(circuit, candidate)

ChangedCells(candidate) == Differ(original.circuit, candidate)

Touches(given, focus) == given.source.cell \in focus \/ \E s \in On(given.sinks) : s.cell \in focus

FixedNets(focus) ==
    [n \in {m \in DOMAIN original.routing : ~Touches(original.routing[m], focus)} |-> original.routing[n]]

\* routing_jobs: the routes from one source are one job.
JobSinks(routes, r) ==
    LET from == {q \in DOMAIN routes : routes[q].source = routes[r].source}
        to(sink) == Lowest({q \in from : routes[q].sink = sink})
    IN  Sorted({routes[q].sink : q \in from}, LAMBDA a, b : to(a) < to(b))

RoutingJobs(routes) == {[source |-> routes[r].source, sinks |-> JobSinks(routes, r)] : r \in DOMAIN routes}

SameNet(job, given) ==
    /\ SameEndpoint(job.source, given.source)
    /\ Len(job.sinks) = Len(given.sinks)
    /\ \A s \in On(job.sinks) : \E t \in On(given.sinks) : SameEndpoint(s, t)

\* The jobs that are nets of the original and not fixed; the others are
\* dropped.
JobsAgain(routes, fixed) ==
    LET nets(job) == {n \in DOMAIN original.routing : SameNet(job, original.routing[n])}
        again == {job \in RoutingJobs(routes) : nets(job) # {} /\ Lowest(nets(job)) \notin DOMAIN fixed}
    IN  [n \in {Lowest(nets(job)) : job \in again} |-> CHOOSE job \in again : Lowest(nets(job)) = n]

\* What route_and_materialize_focused gives the router.
RouteAgain(candidate) ==
    LET fixed == FixedNets(ChangedCells(candidate))
        jobs == JobsAgain(candidate.routes, fixed)
    IN  /\ problem' = [problem EXCEPT !.cells = candidate.cells, !.world = CellWorld(candidate.cells),
                                      !.keepout = CellSourceKeepout(candidate.cells), !.jobs = jobs, !.fixed = fixed,
                                      !.attempts = OptimizeAttempts, !.width = OptimizeWidth,
                                      !.inputs = candidate.inputs, !.outputs = candidate.outputs]
        /\ stage' = "nets" /\ routing' = fixed /\ pending' = RoutingOrder(jobs)
        /\ routedOrder' = <<>> /\ events' = <<>> /\ attempts' = 0
        /\ net' = Nothing /\ goals' = Nothing /\ search' = Nothing

-----------------------------------------------------------------------------
(* phased.rs.                                                              *)

\* focus_windows: a cell and those it is connected to.
FocusWindows(c) ==
    LET beside(d) == Sorted(Beside(c.routes, d) \ {d}, LAMBDA a, b : a < b)
        window(d) == {d} \cup On(SubSeq(beside(d), 1, AtMost(Len(beside(d)), MaxFocus - 1)))
    IN  Sorted({window(d) : d \in DOMAIN c.cells}, SetBefore)

\* anchored_cells.
Anchored(c, policy) ==
    LET edge(inner, outer) == {c.routes[r][inner].cell : r \in {q \in DOMAIN c.routes : c.routes[q][outer].cell = 0}} \ {0}
    IN  CASE policy = "inputs" -> edge("sink", "source")
          [] policy = "outputs" -> edge("source", "sink")
          [] OTHER -> {}

Phase == Plan[work.phase]
Directional == Phase.axis # 0

Allowed(mutation) ==
    /\ mutation.affected \subseteq Head(work.windows)
    /\ Directional => /\ mutation.affected \cap Anchored(circuit, Phase.anchors) = {}
                      /\ mutation.kind = "move" /\ Sign(mutation.delta[Phase.axis]) = Phase.sign

Weighed(c) == [circuit |-> c, score |-> Score(c, Phase.axis), contacts |-> Contacts(c.cells)]

\* Of these mutations what may be tried: those that score better and bring no
\* cells closer to each other, by their places in the list.
BetterOf(mutations) ==
    LET allowed == {i \in DOMAIN mutations : Allowed(mutations[i])}
        now == Weighed(circuit)
        trial(i) == Weighed(Mutated(circuit, mutations[i].cells))
        improves(new) == Better(new.score, now.score) /\ new.contacts <= now.contacts
    IN  [i \in {j \in allowed : improves(trial(j))} |-> trial(i)]

Improving == BetterOf(Mutations(circuit))

\* The best of what is left to try; of equal scores the first one.
Foremost ==
    LET first(i, j) == \/ Better(trials[i].score, trials[j].score)
                       \/ trials[i].score = trials[j].score /\ i < j
    IN  {i \in DOMAIN trials : \A j \in DOMAIN trials \ {i} : first(i, j)}

-----------------------------------------------------------------------------

OptimizerInit ==
    /\ Init
    /\ mode = "compile"
    /\ original = Nothing /\ circuit = Nothing /\ work = Nothing /\ trials = Nothing
    /\ accepted = 0 /\ built = Nothing /\ result = Nothing

\* The router runs, for the original, for a mutation and for the result.
Route ==
    /\ mode \in {"compile", "route", "final"}
    /\ RoutingStep
    /\ UNCHANGED own

CheckCompiled == mode = "compile" /\ Check /\ UNCHANGED own

\* materialize_multinet, validate_routing_legality and the table.
Build ==
    /\ \/ mode = "compile" /\ stage = "compiled" /\ mode' = "begin"
       \/ mode = "route" /\ stage \in {"routed", "unroutable", "exhausted"} /\ mode' = "judge"
       \/ mode = "final" /\ stage \in {"routed", "unroutable", "exhausted"} /\ mode' = "realize"
    /\ LET world == CompiledWorld
           legal == /\ stage \in {"routed", "compiled"} /\ ~CannotMaterialize(routing)
                    /\ Legal(world, routing) /\ WithinBudget
       IN  built' = IF legal
                    THEN [world |-> world, table |-> Tabulated(Table(world, problem.inputs, problem.outputs))]
                    ELSE Nothing
    /\ UNCHANGED <<vars, original, circuit, work, trials, accepted, result>>

CircuitOf(given) ==
    [cells |-> given.cells, routes |-> given.routes, inputs |-> given.inputs, outputs |-> given.outputs]

StartOf(sweep, windows) == [sweep |-> sweep, windows |-> windows, phase |-> 1, steps |-> Plan[1].steps, improved |-> FALSE]

Begin ==
    /\ mode = "begin"
    /\ circuit' = CircuitOf(problem)
    /\ original' = [circuit |-> circuit', routing |-> routing, world |-> built.world, table |-> built.table]
    /\ work' = StartOf(1, FocusWindows(circuit'))
    /\ mode' = "improve"
    /\ UNCHANGED <<vars, trials, accepted, built, result>>

\* The mutations of one step of a phase.
Improve ==
    /\ mode = "improve"
    /\ trials' = IF work.steps = 0 THEN Nothing ELSE Improving
    /\ mode' = "try"
    /\ UNCHANGED <<vars, original, circuit, work, accepted, built, result>>

LastOfSweep == work.phase = Len(Plan) /\ Len(work.windows) = 1
Over == trials = Nothing /\ LastOfSweep /\ ~(work.improved /\ work.sweep < MaxSweeps)

\* The next mutation, or the result, if anything was kept.  cell_world does
\* not fail: cells in the same place would score worse.
Try ==
    /\ mode = "try"
    /\ \/ Over /\ accepted > 0 /\ RouteAgain(circuit) /\ mode' = "final"
       \/ mode' = "route" /\ \E best \in Foremost : RouteAgain(trials[best].circuit)
    /\ UNCHANGED <<original, circuit, work, trials, accepted, built, result>>

\* Mutant: what can be routed is kept.
JudgeByRouting ==
    /\ mode = "judge"
    /\ IF built # Nothing
       THEN /\ \E best \in Foremost : circuit' = trials[best].circuit
            /\ trials' = Nothing
            /\ work' = [work EXCEPT !.steps = @ - 1, !.improved = TRUE]
            /\ accepted' = accepted + 1
            /\ mode' = "improve"
       ELSE /\ trials' = [i \in DOMAIN trials \ Foremost |-> trials[i]]
            /\ mode' = "try"
            /\ UNCHANGED <<circuit, work, accepted>>
    /\ UNCHANGED <<vars, original, built, result>>

\* accept_candidate.
Judge ==
    /\ mode = "judge"
    /\ IF built # Nothing /\ built.table = original.table
       THEN /\ \E best \in Foremost : circuit' = trials[best].circuit
            /\ trials' = Nothing
            /\ work' = [work EXCEPT !.steps = @ - 1, !.improved = TRUE]
            /\ accepted' = accepted + 1
            /\ mode' = "improve"
       ELSE /\ trials' = [i \in DOMAIN trials \ Foremost |-> trials[i]]
            /\ mode' = "try"
            /\ UNCHANGED <<circuit, work, accepted>>
    /\ UNCHANGED <<vars, original, built, result>>

\* Nothing was kept: the next phase, the next window, or another sweep if
\* this one improved something.
EndPhase ==
    /\ mode = "try" /\ trials = Nothing /\ ~Over
    /\ work' = IF work.phase < Len(Plan)
               THEN [work EXCEPT !.phase = @ + 1, !.steps = Plan[work.phase + 1].steps]
               ELSE IF ~LastOfSweep
               THEN [work EXCEPT !.windows = Tail(@), !.phase = 1, !.steps = Plan[1].steps]
               ELSE StartOf(work.sweep + 1, FocusWindows(circuit))
    /\ mode' = "improve"
    /\ UNCHANGED <<vars, original, circuit, trials, accepted, built, result>>

\* Nothing was kept at all: the result is the original.
KeepOriginal ==
    /\ mode = "try" /\ Over /\ accepted = 0
    /\ built' = [world |-> original.world, table |-> original.table]
    /\ mode' = "realize"
    /\ UNCHANGED <<vars, original, circuit, work, trials, accepted, result>>

-----------------------------------------------------------------------------
(* verify_realized_optimization and assess_optimization_safety.            *)

TopologyPreserved ==
    LET before == original.circuit
        same(a, b) == SameEndpoint(a.source, b.source) /\ SameEndpoint(a.sink, b.sink)
    IN  /\ DOMAIN before.cells = DOMAIN circuit.cells
        /\ \A c \in DOMAIN before.cells : before.cells[c].kind = circuit.cells[c].kind
        /\ DOMAIN before.routes = DOMAIN circuit.routes
        /\ \A r \in DOMAIN before.routes : same(before.routes[r], circuit.routes[r])

SupportIssues(W) ==
    {p \in DOMAIN W : /\ W[p].kind \in {"wire", "torch", "repeater", "comparator", "lever"}
                      /\ ~\E q \in SupportOf(W, p) \cap DOMAIN W : WireRise(W[q]) # "none"}

\* temporal_assessment: what is there to be simulated beyond ordered updates.
NeedsTicks(W) == \E p \in DOMAIN W : W[p].kind \in {"torch", "repeater", "comparator", "piston"}

Safety ==
    IF ~TopologyPreserved \/ built.table # original.table \/ SupportIssues(built.world) # {} THEN "rejected"
    ELSE IF NeedsTicks(built.world) THEN "preview_only" ELSE "verified"

Realize ==
    /\ mode = "realize"
    /\ IF built = Nothing
       THEN mode' = "failed" /\ UNCHANGED result
       ELSE mode' = "done" /\ result' = [world |-> built.world, safety |-> Safety]
    /\ UNCHANGED <<vars, original, circuit, work, trials, accepted, built>>

OptimizerStopped ==
    /\ mode \in {"done", "failed"} \/ (mode = "compile" /\ stage \in {"unroutable", "exhausted", "illegal"})
    /\ UNCHANGED allVars

OptimizerNext ==
    \/ Route \/ CheckCompiled \/ Build \/ Begin \/ Improve \/ Try \/ Judge
    \/ EndPhase \/ KeepOriginal \/ Realize \/ OptimizerStopped

OptimizerSpec == OptimizerInit /\ [][OptimizerNext]_allVars

-----------------------------------------------------------------------------
(* Properties.                                                             *)

\* Where the routes are recorded, every net of the original is still there
\* or is routed again, whatever is moved.
EveryNetSurvives ==
    mode \in {"route", "final"} /\ stage = "nets" /\ original.circuit.routes # <<>> =>
        DOMAIN original.routing = DOMAIN problem.jobs \cup DOMAIN problem.fixed

\* A net that is not routed again still begins and ends where the ports of
\* its cells are, also after several mutations.
FixedNetsFit ==
    mode \in {"route", "final"} =>
        \A n \in DOMAIN problem.fixed :
            LET given == problem.fixed[n]
            IN  \A e \in {given.source} \cup On(given.sinks) : RefreshEndpoint(problem.cells, e) = e

\* The optimizer does not fail on what was compiled and does not reject what
\* it returns itself, and with a redstone block beside every input that is
\* on that does what the graph says.
OptimizedWorks ==
    /\ mode # "failed"
    /\ mode = "done" =>
        /\ result.safety # "rejected"
        /\ \A values \in [DOMAIN circuit.inputs -> BOOLEAN] :
            LET state == SettleTicks(Switched(result.world, values), SettleCount)
                wanted == Evaluate(problem.graph.nodes, values)
            IN  \A k \in DOMAIN circuit.outputs :
                    SignalAt(state.signals, circuit.outputs[k].pos) > 0 <=> wanted[problem.graph.outputs[k].node]
=============================================================================
