# DustRoute: TLA+ models and proofs

DustRoute designs Minecraft redstone circuits, compiles them to blocks, and, through an MCP server
(`crates/dustroute-mcp`) and a Mineflayer bot, reads, tests, repairs and builds them in a running
world. This directory holds TLA+ models of the parts whose correctness depends on order, failure,
concurrency or arithmetic, the TLC configurations that check them on small instances, and proofs,
checked by TLAPS, that the most important properties hold for every instance.

`PROJECT.json` lists the runs, the source lines behind every definition, a mutant for every checked
property (the same definition with a plausible bug in it, under which TLC finds the property
violated), the hazards of the code and the theorems.

## 1. Inventory of the system

| Component | State | Operations | Interacts with | Models |
|---|---|---|---|---|
| operation registry, background conversion (`operations.rs`, `service.rs`) | map of operation records, cancellation tokens, clock | create, update, complete, fail, cancel, record_completed, prune; the spawned conversion task | polled and cancelled by clients | `OperationRegistry` |
| bot bridge and world (`bridge.rs`, `mineflayer/bridge.js`) | one command at a time, the blocks of the world | scan, write_blocks, timeouts, disconnects | placement, repair, transition tests | `BotWorld` |
| circuit placement (`service.rs`, `planning.rs`) | plans, applied_plans, previewed_plans, mutation_lock | new_placement, show, invoke, undo | bridge, registry | `Placement`, abstract `PlanLifecycle` |
| physical repair, plan store (`service.rs`, `state.rs`) | plans in memory and in files | new_repair, show, apply, undo, rollback, save, load, expiry, restart | bridge, other processes | `Repair` |
| live transition test (`service.rs`, `transition.rs`, `bridge.js`) | plans, executed flags, the bot's recording slot, the lever | propose, show, run, restore | bridge | `Transition` |
| selection and circuit cache (`selection.rs`, `service.rs`) | a selection and a dimension per player, stored circuits with an expiry | set_region, clear_region, resolve, show_region, capture, load | scans; every tool that takes a circuit_id | `Capture` |
| connected component discovery (`service.rs`, `policy.rs`, `discovery.rs`) | queue, visited set and loaded tiles of one call | scan_connected_components | bridge, policy | `ComponentScan` |
| physics event engine (`dustroute-minecraft/time`) | queues per tick, counters, trace, world | schedule, pop, run_until_idle | handlers | `EventEngine`, abstract `EventOrder` |
| world and block model (`dustroute-minecraft`) | blocks by position | redstone traits of blocks | all of translate | `RedstoneWorld` |
| electrical solver and tick simulator (`electrical.rs`, `wire.rs`, `sim.rs`) | power levels, device queues and deadlines | solve_instantaneous, set_powered, advance_tick | scenarios, reverse translation | `RedstoneSolver`, `RedstoneTick` |
| connectivity, scene, liveness (`connectivity.rs`, `scene.rs`, `circuit.rs`, `liveness.rs`) | none: derived from a world | edges, ports, sources, fragments, gaps, undriven inputs | diagnostics, repair | `RedstoneGraph`, `RedstoneAnalysis`, `SceneRepair` |
| reverse translation (`world_reverse.rs`, `analysis.rs`, `api.rs`, `physical_projection.rs`) | none: derived from a capture | components, terminals, truth table, expressions, role, timing | capture, repair | `Reading`, `Timing` |
| repair search and patches (`repair.rs`, `patch.rs`, `service.rs`) | the capture, the offers drawn up from it | new_repair, removal of a component, accepting an offer | reading, plan store | `SceneRepair`, abstract `Mending` |
| logic IR (`expr.rs`, `logic.rs`) | the graph under construction | intern, lower, evaluate, topological order | compiler, reverse translation | `LogicGraph` |
| cell library, compiler (`cells.rs`, `cell_library.rs`, `compiler.rs`) | the circuit under construction | place, route, check | router, simulator | `Cells`, `Compiler` |
| router (`multinet.rs`, `routing.rs`, `routing_resources.rs`) | pending and routed nets, rip-up log, queue and costs of the search | route_jobs_ripup_with_fixed, route_net_tree, astar_route, materialize, legality | compiler, optimizer | `Wiring`, `Router` |
| optimizer (`placement.rs`, `phased.rs`, `realize.rs`, `safety.rs`) | the current circuit, phase, window, candidates | mutate, score, route again, compare, realize | compiler, router, simulator | `Mutations`, `Optimizer` |
| scenarios and recordings (`scenario.rs`, `transition.rs`) | the simulator and the trace of one run | run a scenario, read pulse widths, make a trace of a recording, compare two traces | simulator, transition test | `Scenario` |
| derived and hierarchical IR, exporters, policy, rendering, command line | none that outlives a call | | each other | not modelled (section 6) |

### What is hard in it

* **Requests run concurrently.** Each MCP request is a task. State is behind one lock per map, and
  no lock is kept over an await except `mutation_lock`, and the lock of the transition plans, which
  `show_transition_test` keeps while it awaits the bot (`service.rs:3793`). So what was read before an
  await may be stale after it. (`OperationRegistry`, `Placement`, `Repair`, `Transition`, `Capture`.)
* **The world is not ours.** Other players build; Minecraft applies commands after the bridge
  answered; the bridge can time out while the bot goes on, so an answer may be lost and its effect
  come late. (`BotWorld` and the modules on top of it, `ComponentScan`.)
* **Partial failure.** A write stops half way, a save fails after the world was changed, a process
  restarts between the two. (`Placement`, `Repair`.)
* **Order within a tick.** Devices read the state before the tick while a loop visits them one by
  one; events of the same tick are told apart by a counter that outlives its queue.
  (`EventEngine`, `RedstoneTick`.)
* **Judging on a copy.** Repairs and optimizations are judged on a copy of the world, with dust that
  takes the shapes it will have, and applied to a world that may have moved on. (`SceneRepair`,
  `Optimizer`.)
* **Search with taking back.** A net that finds no way takes others down with it, a mutation that does
  not verify is dropped, and what was right before must be right again. (`Router`, `Optimizer`.)
* **Geometry that computes.** Dust connects to whatever is beside it; that a circuit is laid out
  without an overlap does not mean that it does what its graph says. (`Compiler`, `Optimizer`.)
* **Bounds.** The registry of 256 records, the cache of 64 circuits, the event limit, the component
  limit, 128 solver iterations, levels 0..15 and the burnout window.

### What makes each component correct

* Registry: a record nobody cancelled says what its task is doing; pruning never drops an active
  record; every conversion ends.
* Placement: the books (applied_plans) never contradict the world, a plan is only applied after a
  preview since its last mutation, and the lock is always given back.
* Repair: nothing is applied unseen, and no file, memory or clone ever says that something is
  applied that was not found in the world.
* Transition test: what is reported as restored is restored; the recording slot is given back, and
  so are the lock of the plans and `mutation_lock`.
* Selection and cache: corners and dimension of a selection belong together; a circuit_id is good for its lifetime unless the cache needs the room.
* Discovery: a scan reported complete has the whole component, a cut one was really cut, and a
  component hangs together.
* Event engine: effects come after causes; the trace replays to the world; every run ends.
* Reading: the truth table is the world's, the expressions are the table's, a circuit as it was built is
  read as what it was built for; what is not called feedback comes to rest.
* Repair search: dust lost between two traversal groups is offered again, dust lost inside of one is
  not, and accepted offers never go round in a circle.
* Router: no net is lost by a rip-up, a route is a cheapest one, what is routed is legal.
* Compiler and optimizer: the blocks compute the graph, for all inputs, before and after.
* Solver and simulator: the iteration settles on the shortest way from a driver; repeaters, torches
  and lamps keep their time; power comes along edges of the local graph, but for the steps listed
  in `WithoutEdge`, for which the code makes no edge.

## 2. Modules

    BotWorld                                  one bot, the world, other players, late jobs
      Placement      ==> PlanLifecycle        (refinement, checked and proved)
      Repair
    OperationRegistry
    Transition
    Capture
    ComponentScan
    EventEngine      ==> EventOrder           (refinement, checked and proved)
    RedstoneWorld
      RedstoneSolver
        RedstoneTick
        RedstoneGraph
          RedstoneAnalysis                    RedstoneTick + RedstoneGraph
            Scenario                          switches thrown while RedstoneTick runs, and its traces
        Behavior                              the simulator as a function of a world
        Cells
          Wiring                              Cells + RedstoneGraph
            Router
              Compiler                        Router + Behavior + LogicGraph
                Optimizer                     Compiler + Mutations
            Mutations                         Wiring + Behavior
        Reading                               Behavior + Cells + RedstoneGraph + Expressions
          Timing
            SceneRepair ==> Mending           (refinement, checked and proved)
    LogicGraph
        Expressions                           boolean expressions and their lowering

`MC*.tla` give the constants of a run as definitions (OperationRegistry, Placement, Repair and Transition
need none), `*_proofs.tla` hold the theorems. Definitions marked `Mutant:` are not part of any specification.

**OperationRegistry.** Each method of the registry holds its mutex for its whole body, so it is one
action. The conversion task that `start_selected_region_conversion` spawns is cut at its awaits and
its registry calls. `PruneChoices` says which finished records may go, ties being broken by random
ids in the code.

**BotWorld.** A bot job writes cell after cell; the requester may stop waiting at any point
(`Abandon`), and the job then goes on as a late one. Players edit up to `MaxEdits` cells, up to
`MaxLate` jobs are late at a time. `Placement` and `Repair` extend it.

**Placement.** The variables `plans`, `applied` and `previewed` are the maps of the service; `call`
is the one call that holds `mutation_lock`, at one of its awaits. `touched` is a history variable:
the cells someone wrote since the plan's last check, on which the books cannot be held to account.
`PlanLifecycle` is what the API promises: only what was shown since its last mutation is applied,
only what is applied is undone, each once.

**Repair.** As Placement, with plans in files that several server processes share (`disk`), their
copies in memory, expiry, restarts and saves that fail. A handler reads or writes the file first and
then awaits the lock of `repair_plans` to read or replace the copy in memory (`repair_plan`,
`store_repair_plan`): these are two steps, with those of other handlers in between, and a preview, which does
not take `mutation_lock`, can put a copy into memory that is older than what a mutation stored there. Two
things are one step: reading an expired file and removing it, which no await parts, and the file and memory of a new plan,
whose id nobody knows before `new_repair` returns.

**Transition.** One lever, what the region looks like at rest, the bot's recording slot, and the
steps of run and restore, each of which can fail, time out or take effect late.

**Capture.** One action per lock taken. `InMiddle` is a request between its first and last lock on a
selection; the history variable `overlap` has the players of whom two requests ever overlapped.

**ComponentScan.** The loop of `scan_connected_components`, one action per tile awaited. `edited` is
a history variable. Positions are real coordinates, tiles are found by rounding down, as
`div_euclid` does.

**EventEngine.** The queue per tick, the sub-tick counters that outlive it, and the loop of
`run_until_idle` cut where it asks the handler and applies the outcome; a handler answers anything.
`EventOrder` promises that events are served in order of (tick, sub-tick), none lost, none twice.

**RedstoneWorld, RedstoneSolver, RedstoneTick.** Wire shapes, transfers between neighbours, the
rounds of `solve_instantaneous` as a recursive function bounded by `MaxIterations`, and
`advance_tick` as one action that reads the old state only. `set_powered` throws a switch between
ticks. **RedstoneGraph** has `physical_step`, the stencil of offsets it is asked for and the ports of
a scene, **RedstoneAnalysis** joins the two readings of the same rules.

**Scenario.** `run_scenario` around the actions of `RedstoneTick`: actions that throw switches (`Act`), the
advance of a tick, and `Report`, which writes an event for every observed block that does not show what its last
event says (`previous`). Which switch is thrown when is chosen as the run goes, and the duration is `MaxTicks`. The history
variables `initial` and `shown` keep what every block showed. On finished runs `PulseWidths` reads pulses from the
trace, `LiveTrace` makes a trace of a recording of block updates, as the bot delivers them, and `Compare` is
`compare_scenario_traces` down to the kinds of its differences. A recording has the updates of a tick in either game tick
of it and in either order, and dust may slip over the boundary to the redstone tick before or after (`Slips`), as
`docs/mcp-api-v1.md:59-62` says it does.

**Behavior.** `RedstoneTick` steps through a simulation; a truth table needs its outcome for every
input, so here the same rules are a function: `SolveInstantaneous` repeats the solver's round until nothing
changes or the program's 128 iterations are over, `AdvanceDevices` is a tick of torches, comparators and repeaters
of delay one, `SettleTicks` repeats it.

**LogicGraph, Expressions.** `DagBuilder::intern`, expressions and the graphs they are lowered to. A node's id is
its place in the sequence of nodes. A name such as `in0` is a prefix and a number. An operator is lowered by
functions from graphs to graphs, one for each argument (`LowerBy`), so that recursion is on the expression alone.

**Cells, Wiring, Router, Compiler.** A cell is its blocks and ports. `Wiring` has what a net keeps free, where
its repeaters go, what a routing becomes as blocks (`Materialize`) and what is illegal about it
(`Legal`). A step of `Router` is one iteration of the innermost loop that runs: taking a net, a sink, a goal on
the tree, or the best entry of the search. `Compiler` adds placement, the nets of a graph and the last
check. Costs are in tenths, lanes are fractions, orders that the code gets from `BTreeMap` are the order
of positions here.

**Mutations, Optimizer.** Every candidate of `candidate_mutations` in its order with its score, then
the loop of windows, phases and steps. Routing again uses the actions of `Router`, step by step, so
a candidate may fail in all the ways a compilation may. `trials` has the candidates that score better, by their
places in the list, and `Foremost` is the one that is tried next, the best score and then the earliest place.
`Judge` compares truth tables that the simulator gives for the two worlds.

**Reading, Timing, SceneRepair.** A capture is a world within bounds. `Scene` extracts its edges and
connections, `Read` its components, terminals, truth table, expressions and role, `Timing` its arrival
times, reconvergence and feedback. In `SceneRepair` a player takes a piece of a circuit away or turns a
repeater (`Edit`), the circuit is captured (`Capture`, which reads it), offers are drawn up (`Propose`
and then `NewRepair` or `NewRemoval`), and one is accepted (`Accept`), which may find that the world is
no longer what it was. `Mending` promises that a mend leaves a circuit better by the counts it is judged by, and
therefore never brings it back to where it was. An accepted offer is a mend of it if it improves what was captured, the
capture is fresh, and `Foreseen`: the blocks outside of the scan give no wire inside another shape than in the copy
it was judged on. Everything else that happens to the circuit is a disturbance.

## 3. Runs

| Run | Bounds | What it shows |
|---|---|---|
| `registry` | 2 conversions, 1 audit record, room for 2 records, 2 clock steps | records are truthful, pruning drops nothing active, conversions end |
| `placement` | 2 overlapping plans, 2 cells, 1 late job, 1 foreign edit, 2 verification attempts | books match the world; the refinement of `PlanLifecycle`; the lock comes back |
| `repair` | 1 process, 2 cells, 1 late job, 1 edit, restarts, failing saves, expiry | no unseen apply, nothing said to be applied that was not verified |
| `repair_show` (violation) | 1 cell, no edits | a preview that overlaps a mutation undoes its record |
| `transition` | 1 plan, 2 looks of the region, a late click, other players | restored means restored, the slot and the locks come back |
| `events` | 2 positions, 3 ticks, 3 events, 2 external ones | causality, the refinement of `EventOrder`, termination |
| `redstone` | 4 circuits, 6 ticks, up to 4 switchings, at any time | the solver, the devices' timing, that power follows the graph, that traces tell the run, and what dust that slips over a boundary does to their comparison |
| `capture` | 2 requests at a time, 2 dimensions, cache of 2, 3 stores, 2 clock steps, lifetime 2 | selections hang together, the cache keeps its promise |
| `scan` | 2 scenes with up to 5 components, tiles of 2, gaps 1 and 2, limits 2, 4 and 5, a policy border, 1 edit | complete is complete, cut is cut, every scan ends |
| `compile` | 7 graphs of up to one gate and two outputs at three densities, 7 layouts of 1 to 3 nets in each other's way | routes are cheapest and legal, no net is lost by a rip-up, the blocks compute the graph |
| `mend` | 8 circuits, whole or cut off, 1 edit, 2 accepted offers | components, gates and feedback are read truly; circuits come to rest and have the role they were built for; dust lost between two traversal groups is offered, inside of one it is not; the refinement of `Mending` |
| `optimize` | 2 compiled inverters with and without recorded routes, chains of 1 to 3 inverters, an inverter beside another net; one directional and one free phase of 3 steps | nets are kept, what stays fits, the result computes what the original did |

Why these bounds are enough to be interesting: two plans are the smallest number that can fight over
a cell, and two cells the smallest patch that can be half written. Two requests at a time suffice
for every pairwise race of the locks in `Capture`, and three stores overflow its cache with a choice
of what goes. The registry needs room for two so that an active and a finished record compete. Tiles
of two put components of five across three tiles, with negative coordinates, where the real 16 would
need thousands of positions. The circuits of `redstone` are a repeater
with a lock and a lamp, a torch that switches itself off through a loop, a comparator whose output climbs
a staircase over glass to a lamp, and a ring of dust driven from two sides; six ticks are three
times the longest device delay, so that a switch is thrown while an earlier change is still on its way, and four
switchings make two pulses of any two widths. The lamp delay and the iteration limit are
the program's own; burnout is three toggles in three ticks instead of eight in thirty, which only
scales the window. The layouts of `compile` were searched for nets that block each other, so that nets are ripped up
once, several times, in reversed order, and until the call gives up; its graphs are the gates of the
cell library at the program's own spacing, and two of them so close that routes are hard to
find. The circuits of `mend` have the classes the code tells apart: a straight line, one cut
at its ends, one that nothing drives, a ring of dust that leads from a repeater back to its input (without one dust it
is still one traversal group, the circuit of a test in `repair.rs:855`), a staircase, a clock, an inverter and a two-input gate between boundary
cells. Router costs, run lengths and attempts are the program's own; the simulator is given
12 ticks by the compiler's tests and 8 by the optimizer, which no circuit of the runs needs. Positions are unbounded integers: the code's `i32` overflows only beyond
Minecraft's border. `CHECK_DEADLOCK FALSE` is given where the system may come to rest: a finished
scan, a scenario at its end, all conversions done, or clients that do not call any more under a bounded clock.

### Fairness

* `registry`: `WF(TaskStep(t))` for each spawned task. tokio polls a ready task, a bridge request ends
  by its timeout, the analysis terminates. Clients are never obliged to do anything.
* `placement`: weak fairness of what a call does by itself under `mutation_lock` (`OwnStep`): sending its request,
  giving it up when the timeout ends it, storing its outcome. The bot need not answer; it, clients and other
  players are not fair. In `repair` the steps of a call are fair in the same sense, but only safety is claimed.
* `transition`: a preview that began ends (weak fairness), and a run or a restore goes on (strong
  fairness, because it may have to queue for the lock of the plans; tokio's mutex is a fair queue).
* `events`: weak fairness of the loop.
* `scan`: weak fairness of the scan's own steps.
* `capture`, `redstone`, `compile`, `mend`, `optimize`: none, only safety is claimed.

## 4. Theorems

For every value of the constants that satisfies the assumptions named in the modules (finite sets,
bounds that are natural numbers, blocks that are what the code can build). Each invariant is
strengthened to an inductive one.

* **Conversion_proofs.** Of the registry: `RecordMatchesTask` needs where a task may be for each status
  (`TaskOK`). The action properties `ActiveNeverDropped`, `InsertKeepsBound` and `ProgressNeverGoesBack` follow from the
  invariant and the definition of pruning; `InsertKeepsBound` needs the cardinality of what is left.
  Of the scene that is read and repaired, for any circuits of finitely many blocks the code can build:
  `ScenesAreRead` (`SceneInv`) keeps worlds circuits, edges between captured blocks and offers of places and blocks,
  whatever is edited and accepted. `ComponentsReachEachOther` is the correctness of Kosaraju's two searches: the
  first leaves an order in which whatever a position reaches and is not reached by stands before it
  (the order of finishing), so that the second, backwards, takes one class of mutual reach after the other; and the
  sequence of components leads from sources to sinks. A visit is a function of
  its depth, so the induction is on natural numbers. `FeedbackIsOnCycles`: what is reported to feed back is
  exactly what some way along the links leads back to.
  `GatesAreTrue`: for every row of the truth table the gates a circuit is read as give the outputs of the row, whatever
  the simulator said they are. It has two parts. The expression of an output has its value in every row
  (`OutputsAreRead`): a candidate is taken only if it does, and otherwise the sum of products does, because rows of
  the same inputs have the same outputs and a term is true in its own row only. And lowering keeps values
  (`GraphsCompute`, for every sequence of expressions): a node that is added takes from earlier ones, so what was there
  keeps its value (`ValuesStay`), a gate that is there already is the gate that was asked for, and a chain of gates of two
  inputs has the value of the operator of many. That functions on expressions are defined by recursion, and
  induction on expressions, are shown level by level, of which the reader makes four (`ExprDepth`). With `FeedbackIsOnCycles` this is `CapturesAreReadTruly`,
  the run's `ReadingIsTrue`.
  `RepairsMend`, the refinement of `Mending`: `MendInv` says that the counts of the circuit are those of its world,
  that what is captured is what a scan of it gives, and that every offer was judged on it. If it is still fresh when
  it is accepted, the world becomes the copy it was judged on as far as the scan sees, so what was promised is what
  is counted.
* **Placement_proofs.** First what each step of the bot and of players does to the world. The inductive invariant is TypeOK, BooksKnown, ApplyIsPreviewed,
  CallMatchesBooks and BooksMatchWorld. The last says, for every plan, which of its two patches
  stands outside the touched cells; it survives a write because a write touches, and is claimed again
  only after a verification has read all cells. `ImplementsLifecycle` is the refinement of
  `PlanLifecycle`: shows map to Show, a verified call to Invoke or Undo, all else to stuttering.
* **EventEngine_proofs.** `TimeInv` is TypeOK, QueueSorted, PoppedSorted, PendingInFuture and
  OutcomeOfEvent: queues are sorted by sub-tick, what was popped is earlier than what waits, and
  counters are above every order ever given, also when a tick's queue was emptied and filled again.
  From it follow unique times, causality, the trace properties, and the refinement of `EventOrder`.
* **RedstoneTick_proofs.** `SolverSettles`: with at least 17 iterations
  (the program allows 128) the solver converges on every circuit. Levels only rise from one
  iteration to the next, and a level that changes in iteration k is at most 17 - k (`Rising`), because it comes
  from one that changed in iteration k - 1 and lost a level on its way. `RepeatersKeepTheirDelay`:
  the queue of a repeater is the last readings of its unlocked ticks (`RepeaterInv`).
  `LampsFadeOnTime`: a lamp is lit iff it was powered at most LampDelay ticks ago, and its deadline is that
  tick plus the delay plus one (`LampInv`). `GraphFollowsPower`: in every state between calls, what powers a block
  (`PoweredFrom`, read off the solver's rules and the levels it found) is joined to it by an edge of the extracted
  graph, unless the step is one of `WithoutEdge`. It needs that each of the solver's transfers is a step of
  `physical_step` and that its offset is one of the thirteen that are asked.
  `BurnoutsAreCounted`: what is kept of the toggles of a torch is exactly those of the last window
  (`ToggleInv`), so the length of the list is the count in the history.  `SettledAlways`: between calls every wire
  has what its best driver gives, less one for every transfer on the way (`SettledInv`). The levels of a
  converged solver come from somewhere: a level that no driver gives is one less than that of a neighbour, and
  levels end at 15. That the recursive `Upstream` is a function is shown by induction on sets of numbers, which needs
  no theorem with an operator as a parameter.
  `ScenariosAreRuns`: a scenario is a run of the simulator, so all of the above holds of scenarios, of which
  `TracesAreExact` says the rest, for finite worlds. `TraceInv`: up to the tick reported last, there is an event of a
  block exactly where it did not show what it showed a tick before, its value is what it showed, and `previous`
  is the value of the last one. The pulses read from such a trace are the stretches of ticks in which a block was
  powered (`PulsesFit`, by induction on the events).
* **Discovery_proofs.** Of the component scan, `ScanInv`: a position of the component whose turn is over has all its tiles
  loaded and its known neighbours in the component or the queue; what stood untouched in a loaded
  tile is known; the queue has new neighbours of the component, each once. With `NearIsInTiles`
  (whatever is near p is in the tiles loaded for p, by monotony of rounding down) a complete scan has
  the whole component for every gap and tile size.
  Of the selections and the circuit cache: `SelectionsAreWhole` follows requests of one player through the two locks
  they write and read under. `CacheInv` says of every circuit that was stored and not yet due whether it is
  still kept, or how many live ones it gave way to (`IsKept`, `Rivals`): an eviction takes the one whose lifetime
  began first, so a circuit that is gone has as many rivals as the cache has places, which is what
  `CacheKeepsItsPromise` counts.
* **Repair_proofs.** Any number of processes share the files. `Fits` says which flags may be kept of a repair: it
  exists, "previewed" only if it was shown, "applied" only if its patch was found in the world, of which what
  changed since is known (`touched`). `DiskFits` and `MemoryFits` say so of files and memories,
  `Clones` of what the handlers loaded, whatever step they are at, and that an apply under way has a clone that says
  "previewed". Flags that fit once fit ever after (`FitsStays`), so it does not matter how old a copy
  is that a failed save, a restart or a preview leaves behind or writes back, nor in which order files
  and memory are written (`SaveFits`, `LoadFits`, `RememberFits`, `RecallFits`). `AppliesOnlySeen` and
  `SaidAppliedWasVerified` follow. That memory and file say the same is not claimed: it is false (section 5).
  Of the abstract `Mending`, `MendingNeverReturns`: `Better` is a strict partial order on counts, so that a
  circuit that is only mended is untouched or better. With `RepairsMend`, that `SceneRepair` implements
  `Mending`, this is why accepting offers one after the other cannot cycle.
* **Transition_proofs.** `Trusted`: what is on record as verified is so, unless a call has compared the region
  and not yet stored what it found (`Judging`); `Judged`: such a call is right when it is about to say that
  all is well. `SlotHeld`: as long as no answer was lost, a taken recording slot belongs to the run under
  way. `VerifiedIsRestored` and `NoRunKeepsTheSlot` follow.
* **Routing_proofs.** About the router, the compiler and the optimizer, for every set of problems and any costs.
  `NoNetIsLost`: the nets that are routed, those that wait and the one under way are three sequences without a
  net twice, and together the jobs (`KeptInv`); a rip-up moves a suffix of one to the front of another.
  `OnlyLegalRoutes`: what is routed is a stack; after any number of nets of it the routing was judged legal
  (`LegalInv`), so a rip-up goes back to a routing that was judged before, not to a new one. Its hypothesis is
  that the fixed nets of every problem are legal by themselves, which the initial states of the run satisfy.
  `CheapestRoutes` and `ShortestOfAllWalks`: `TypesInv` and `FrontierInv` (every position the search got to is
  in the queue at its present rank, or no step from it gains anything) give that no step not taken was
  cheaper; along any walk to the goal, by induction, either the search was there for no more than the walk, or what is
  left costs as much as the goal does. `MovesInv` says that the way back from a position is one of possible
  moves, at no more than its cost; that the recursion of `PathTo` ends follows from costs that fall along it. So what
  the search returns is a walk from start to goal and none is cheaper. The hypothesis is
  `CostsFitTheEstimate`: a level step costs at least 10 and a stair at least 20, as the default costs do
  (10 and 25); with less the code's estimate is too high and the claim is false.
  `FixedNetsStayAtPorts`: while a circuit is compiled, its nets end at the ports of its cells; afterwards `FitInv` says so of
  the original as its cells lay then, and that what is not routed again touches none of the
  cells that lie elsewhere now, however many mutations were kept in between. `OptimizerAssumption` has that
  the nets a problem comes with end at ports of its cells.
  `NoNetIsDropped`: every net the circuit recorded is routed again or kept, in every circuit that is tried or
  kept. `SurviveInv` follows the nets from mutation to mutation: a move or turn keeps the ports of a cell, and a replacement
  has them too (`ReplaceableCells`, which TLC evaluates on the program's own library in the run `optimize`); an
  endpoint is refreshed from its cell and its port only, so the jobs that are made of the recorded routes are the nets
  of the original again. It is about circuits with recorded routes (`RecordsNets`).

The types (`TypeOK`) of OperationRegistry, Placement, EventEngine, RedstoneTick, ComponentScan, Capture, Repair and
Transition, the types of the router (`TypesInv`), and
`CallMatchesBooks`, `ApplyIsPreviewed`, `InsertKeepsBound`, `ProgressNeverGoesBack`, `TimesAreUnique`,
`TraceIsCausal`, `TraceTellsWorld`, `NeverFails`, `LampFadesOnTime` and that routes are shortest among all walks, are
proved and not run.

Only model-checked:

* every liveness property, `LockReleased` and `LocksComeBack` among them: proofs of liveness under fairness are out of reach here;
* `ShowOnlyRecordsPreview`, which is false;
* of `TracesTellTheRun`, which differences the comparison of two traces finds: it is a fold over sequences that
  are flattened and filtered, by operators the provers do not see into; the other two parts are `TracesAreExact`;
* `BehaviorIsForetold`. That a circuit without feedback comes to rest (`QuietWithoutFeedback`) is false of circuits
  with a step the graph has no edge for (section 5) and is checked on circuits without one; that a circuit as it was
  built is read as what it was built for is said of the circuits of the run;
* `CompiledWorks` and `OptimizedWorks`: they are about what a simulation of the world computes, which has to be run;
* `LostDustIsOffered`: that the dust on one block joins two lines again depends on everything around it, and
  what it says of a capture that is cut off is said of the circuits of the run.

## 5. What the models say about the code

The run `repair_show`, marked as a violation, shows where the program does something else than its
documents say: `show_repair_plan` stores the clone it loaded before it awaited the bot, and a
mutation that finished meanwhile loses its applied flag (`service.rs:3689`).

Noticed while modelling, and modelled as they are:

*Requests and mutations*

* `update` and `complete` of the registry overwrite `Cancelled`: a cancelled conversion shows Running
  and Completed again (`operations.rs:115`; `RecordMatchesTask` is about records nobody cancelled).
* An activation that is refused or not answered after its click took effect leaves the lever toggled, with
  nothing on record that it has to be restored (`service.rs:3944`; `VerifiedMeansRestored` is about what is
  reported as verified, and no property claims that every run that clicked is on record).
* A placement whose blocks were written but whose answer or verification failed is not in
  applied_plans, so `undo_operation` refuses it (`service.rs:1544`).
* An undo of a repair that did not verify is stored as done; only a failed apply is rolled back
  (`service.rs:1785`). `AppliedWasVerified` is therefore about what is said to be applied.
* `show_repair_plan` also puts its clone into memory, and may do so after a mutation has put its own there: the
  file then says one thing and the memory of the same process another. Memory is looked at only
  where the file is gone (`service.rs:1390`), and what it says may be old, yet it was true of the
  world once (`AppliedWasVerified`).
* A repair plan whose file expired still runs from the copy in memory (`service.rs:1390`).
* The selection of a player and its dimension are written and read under two locks. When two requests of
  one player overlap, the corners of one dimension can be paired with the name of the other, and a
  capture can read back a selection that another request made (`service.rs:2647`, `service.rs:1955`).
  `SelectionIsInItsDimension` is therefore about players whose requests do not overlap.
* A circuit whose lifetime began first can be stored last and then push out one that would live longer;
  `CacheKeepsItsPromise` counts what was stored later for this reason.
* The snapshot of a component scan covers the bounding box of the component, of which only the tiles
  near the component were read: blocks elsewhere in the box are absent from it.

*Scenarios and recordings*

* `scenario_trace_from_recording_with_initial` gives a lamp that is lit in the snapshot the strength 15
  (`transition.rs:139`), while its updates (`strength_state`) and the simulator give it 0: a lit lamp that never
  changes is reported as a difference. `TracesTellTheRun` compares runs that begin with the lamps off.
* Comparators and weighted plates show "powered" in Minecraft and become 15 or 0, while the simulator has their
  level, and a block of redstone shows nothing: they always differ, and are not observed in the model.
* Dust that slips over the boundary of a redstone tick is a difference in the trace and, as
  `docs/mcp-api-v1.md:59-62` says, none in the final state, but for one case: when it slips over the end of the
  observation, its last value is not recorded, or a later one is, and the final states differ too. `TracesTellTheRun` says that
  this is the only case.
* A pulse still under way when the run ends is counted up to the end, with width 0 if it began at the last
  tick (`scenario.rs:336`); a minimum width given for it may be missed for this reason alone.

*Reading and mending*

* The graph has no edge from a repeater, a lever, a torch or a redstone block to a repeater directly
  behind it, none into a comparator but from dust, none from a strongly powered block to dust or to a
  comparator, none from a source to the dust above or below it, and none from a redstone block to the solid blocks
  around it (`connectivity.rs:185`, `WithoutEdge`): a lever drives such a
  repeater in the simulator and it is reported as an undriven input, and feedback through such steps is
  not seen. `BehaviorIsForetold` is checked on circuits without them.
* Arrival times come from a pass over nodes without pending predecessors, which never reaches what lies
  behind two-way dust, so that reconvergence behind it is not reported (`physical_projection.rs:402`).
* The translate README says that an inferred primary input must not be connected just to reduce
  the number of unpowered components; inside a traversal group none is (`LostDustIsOffered`), but between two of them
  `missing_wire_repairs` does connect one to a live net, and `improves` accepts it because more is
  reachable (`patch.rs:68`).
* `new_repair` stores no truth table to compare with, whatever was analysed before.
* Dust lost beside its lever leaves a rest that counts as an input, and dust lost from a corner is not
  between two blocks in line: neither is offered (`repair.rs:109`). Dust of the lowest scanned layer stands on
  what was not seen; supports outside of the scan are offered instead, and refused when applied.
* A patch looks at its own positions only, so an accepted offer can be worth less than it was when the
  circuit changed elsewhere. Nor does a scan see what stands outside its bounds, which may give another shape to a
  wire at their edge than it has in the copy. `ImplementsMending` is about offers that are fresh and `Foreseen`; every
  fresh offer of the run is.

*Compiling and optimizing*

* `BaselineCompiler::compile` records no routes in the circuit it returns; the optimizer then has no
  routing jobs, and the nets of a moved cell are gone from the candidate. `EveryNetSurvives` is about
  circuits with recorded routes, `OptimizedWorks` about all of them: such a candidate fails the comparison
  of truth tables and is not kept.
* `logic_from_expressions` adds a node for every output. Compiled, it gets the cell of an output, whose
  port is not called `a` as `compile` expects of a node: what reverse translation returns cannot be compiled
  (`compiler.rs:169`). The graphs of `compile` have no such nodes.
* The search estimates ten per block of distance whatever the configured costs are. With the default
  costs this is a lower bound, which `RouteIsCheapest` needs.
* The router accepts a net whatever the length of its dust; only the finished circuit is checked
  against 12, and nothing is tried again then (`compiler.rs:211`).
* A routing job that matches no net of the original is dropped without an error (`realize.rs:290`).

## 6. Not modelled

* Rendering of results, JSON schemas, argument parsing, the wire format of the bridge, exporters,
  configuration, the command line: pure conversions.
* The policy's stateless checks and the ranking of transition proposals and findings; discovery.rs, which
  picks the fragments near a player's gaze and pads their box to the bounds of a selection (`service.rs:2633`):
  `Capture` takes those bounds as given.
* In reverse translation: gate recognition, behaviour patterns, hierarchical views, steady-state
  projection, derived.rs, capability reports and temporal envelopes. None of them feeds a decision that the
  models make.
* In repair: confidence and order of offers (they are a set here; the limit of 32 is not reached),
  the focus mode that the service does not use, plans of earlier captures (their life is in Repair), and
  repeaters of more than one tick of delay.
* In the compiler: the ready-made adders, buffered boundaries of port_realization.rs. In the optimizer: reverse.rs and
  semantic.rs, which start from a captured world, guarded patches, which the service does not
  call, and the path of the comparison that infers terminals: the circuits here name theirs.
* Of scenarios: the list of physics that only a live test can tell, what a client expects of a trace beyond the
  comparison of two, and per-component traces, which are shown and decide nothing.
* The rewriting search of expr.rs and mixed.rs, which nothing in the service calls; transient.rs, which only feeds
  the report of a transition run.

## 7. Plan

The order is by how much of the system's promise depends on each part.

1. Done: registry, placement with its lifecycle, repair, transition test, event engine, redstone
   world, solver, simulator and graph, capture and component scan, with the proofs above.
2. Done: logic graphs, cells, router, compiler, optimizer, reading, timing, the search for repairs and its refinement of
   `Mending`, with `MendingNeverReturns`.
3. Done: scenarios and recordings on top of `RedstoneTick`; the safety of Repair and Transition proved.
4. Done: the proofs of Capture, of the settled levels and the burnouts of the simulator, and of the router: its
   nets, their legality, its search, and the nets the optimizer leaves alone.
5. Done: the proofs of the components of a signal, as an algorithm without a recursive operator, of the feedback that
   is reported, of the refinement of `Mending`, of the nets that survive the optimizer, of the traces of scenarios, and
   that the expressions of a truth table and the gates they become compute it.
6. Next: the comparison of recordings, fold by fold.
7. Then: the fragments of discovery.rs, and reverse.rs and semantic.rs of the optimizer.
