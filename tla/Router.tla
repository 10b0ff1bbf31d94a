-------------------------------- MODULE Router --------------------------------
(***************************************************************************)
(* route_jobs_ripup_with_fixed (dustroute-translate multinet.rs) with what *)
(* it calls: route_net_tree, route_to_tree and astar_route (routing.rs).   *)
(* A net that cannot be routed takes the last ones that were down with it, *)
(* and they are tried again after it.  A step is one iteration of the      *)
(* innermost loop that runs: taking a net, a sink of it, a goal on its     *)
(* tree, or the best entry of the queue of the search.                     *)
(***************************************************************************)
EXTENDS Wiring

CONSTANTS
    Problems,         \* what there is to route
    HorizontalCost, StairCost, SupportCost,  \* RouterConfig: the costs, in tenths
    MaxTries          \* how often a search is repeated around a conflict

(***************************************************************************)
(* A problem is a record of                                                *)
(*   cells, world   the placed cells and the world they make,              *)
(*   keepout        cell_source_keepout,                                   *)
(*   jobs           a function from NetIds to records of source and sinks, *)
(*   fixed          the routing that is there already,                     *)
(*   attempts, width   max_attempts and ripup_width,                       *)
(*   maxNodes       RouterConfig: the positions a search may expand.       *)
(***************************************************************************)
IsJob(job) ==
    /\ IsPort(job.source) /\ \A s \in On(job.sinks) : IsPort(s)
    /\ Len(job.sinks) \in Nat /\ DOMAIN job.sinks = 1..Len(job.sinks)

ASSUME RouterAssumption ==
    /\ MaxTries \in Nat \ {0}
    /\ HorizontalCost \in Nat \ {0} /\ StairCost \in Nat \ {0} /\ SupportCost \in Nat
    /\ \A given \in Problems :
         /\ given.attempts \in Nat \ {0} /\ given.width \in Nat \ {0} /\ given.maxNodes \in Nat
         /\ DOMAIN given.jobs \subseteq Nat /\ DOMAIN given.fixed \subseteq Nat
         /\ DOMAIN given.jobs \cap DOMAIN given.fixed = {}
         /\ IsFiniteSet(DOMAIN given.jobs)
         /\ given.fixed = [n \in DOMAIN given.fixed |-> given.fixed[n]]
         /\ \A n \in DOMAIN given.jobs : IsJob(given.jobs[n])

VARIABLES
    problem,      \* what is to be routed
    stage,        \* the loop that runs, or how the call ended
    routing,      \* the nets that are routed, the fixed ones included
    pending,      \* the nets to route
    routedOrder,  \* those that were routed, in order
    events,       \* the rip-ups: failed net, the nets ripped up and the attempt
    attempts,
    net,          \* route_net_tree: the net under way
    goals,        \* route_to_tree: the positions of the tree still to try
    search        \* astar_route

loop == <<routing, pending, routedOrder, events, attempts>>
vars == <<problem, stage, loop, net, goals, search>>

Jobs == problem.jobs
Nothing == <<>>

\* The nets by the number of their sinks, the largest first.
RoutingOrder(jobs) ==
    LET sinks(n) == Len(jobs[n].sinks)
    IN  Sorted(DOMAIN jobs, LAMBDA n, m : sinks(n) > sinks(m) \/ (sinks(n) = sinks(m) /\ n < m))

Init ==
    /\ problem \in Problems
    /\ stage = "nets"
    /\ routing = problem.fixed
    /\ pending = RoutingOrder(Jobs)
    /\ routedOrder = <<>>
    /\ events = <<>>
    /\ attempts = 0
    /\ net = Nothing
    /\ goals = Nothing
    /\ search = Nothing

-----------------------------------------------------------------------------
(* The nets.                                                               *)

\* What a job keeps free from the others, around its terminals too.
ReservedBy(job) == OwnTerminals(job) \cup UNION {ElectricalKeepout(p) : p \in OwnTerminals(job)}

BlockedFor(n) ==
    (BlockedConductors(routing) \cup problem.keepout
     \cup UNION {ReservedBy(Jobs[m]) : m \in DOMAIN Jobs \ {n}})
    \ UNION {{p, Below(p)} : p \in OwnTerminals(Jobs[n])}

Manhattan(p, q) ==
    LET abs(x) == IF x < 0 THEN -x ELSE x
    IN  abs(p[1] - q[1]) + abs(p[2] - q[2]) + abs(p[3] - q[3])

\* The nearest sinks first.
SinkOrder(job) ==
    LET source == Terminal(job.source)
        far(k) == Manhattan(source, Approach(job.sinks[k]))
    IN  Sorted(DOMAIN job.sinks, LAMBDA k, l : far(k) < far(l) \/ (far(k) = far(l) /\ k < l))

TakeNet ==
    /\ stage = "nets" /\ pending # <<>> /\ attempts < problem.attempts
    /\ LET n == Head(pending)
           job == Jobs[n]
       IN  net' = [id |-> n, left |-> SinkOrder(job), joinable |-> {Terminal(job.source)},
                   blocked |-> BlockedFor(n), branches |-> [k \in DOMAIN job.sinks |-> <<>>]]
    /\ pending' = Tail(pending)
    /\ attempts' = attempts + 1
    /\ stage' = "sinks"
    /\ UNCHANGED <<problem, routing, routedOrder, events, goals, search>>

GiveUp ==
    /\ stage = "nets" /\ pending # <<>> /\ attempts = problem.attempts
    /\ stage' = "exhausted"
    /\ UNCHANGED <<problem, loop, net, goals, search>>

Finish ==
    /\ stage = "nets" /\ pending = <<>>
    /\ stage' = "routed"
    /\ UNCHANGED <<problem, loop, net, goals, search>>

Last(s, count) == SubSeq(s, Len(s) - count + 1, Len(s))
AllBut(s, count) == SubSeq(s, 1, Len(s) - count)
Reversed(s) == [i \in DOMAIN s |-> s[Len(s) - i + 1]]

\* The same net failed and took the same nets with it, twice in a row.
Repeats(log) ==
    /\ Len(log) >= 2
    /\ log[Len(log)].failed = log[Len(log) - 1].failed
    /\ log[Len(log)].ripped = log[Len(log) - 1].ripped

\* Mutant: the nets that were ripped up are not routed again.
RipUpForgetting(n) ==
    LET count == AtMost(problem.width, Len(routedOrder))
        ripped == Last(routedOrder, count)
    IN  /\ events' = Append(events, [failed |-> n, ripped |-> ripped, attempt |-> attempts])
        /\ pending' = <<n>> \o pending
        /\ routing' = [m \in DOMAIN routing \ On(ripped) |-> routing[m]]
        /\ routedOrder' = AllBut(routedOrder, count)

RipUp(n) ==
    LET count == AtMost(problem.width, Len(routedOrder))
        ripped == Last(routedOrder, count)
    IN  /\ events' = Append(events, [failed |-> n, ripped |-> ripped, attempt |-> attempts])
        /\ pending' = <<n>> \o (IF Repeats(events') THEN Reversed(ripped) ELSE ripped) \o pending
        /\ routing' = [m \in DOMAIN routing \ On(ripped) |-> routing[m]]
        /\ routedOrder' = AllBut(routedOrder, count)

\* The net under way cannot be routed as things are.
Reject ==
    /\ IF routedOrder = <<>>
       THEN stage' = "unroutable" /\ UNCHANGED <<routing, pending, routedOrder, events>>
       ELSE stage' = "nets" /\ RipUp(net.id)
    /\ net' = Nothing

Accept(routed) ==
    /\ routing' = routed
    /\ routedOrder' = Append(routedOrder, net.id)
    /\ stage' = "nets"
    /\ net' = Nothing
    /\ UNCHANGED <<pending, events>>

With(made) == [m \in DOMAIN routing \cup {net.id} |-> IF m = net.id THEN made ELSE routing[m]]

\* Mutant: the net is accepted as soon as it is laid.
EndNetUnchecked ==
    /\ stage = "sinks" /\ net.left = <<>>
    /\ LET routed == With(MakeNet(Jobs[net.id], net.branches))
       IN  IF CannotMaterialize(routed) THEN Reject ELSE Accept(routed)
    /\ UNCHANGED <<problem, attempts, goals, search>>

\* All the sinks are on the tree.
EndNet ==
    /\ stage = "sinks" /\ net.left = <<>>
    /\ LET routed == With(MakeNet(Jobs[net.id], net.branches))
           legal == ~CannotMaterialize(routed) /\ Legal(Materialize(problem.world, routed), routed)
       IN  IF legal THEN Accept(routed) ELSE Reject
    /\ UNCHANGED <<problem, attempts, goals, search>>

-----------------------------------------------------------------------------
(* The sinks of a net.                                                     *)

Sink == Jobs[net.id].sinks[Head(net.left)]

TakeSink ==
    /\ stage = "sinks" /\ net.left # <<>>
    /\ goals' = [start |-> Approach(Sink), goal |-> FirstOf(net.joinable), left |-> net.joinable,
                 tries |-> MaxTries, blocked |-> net.blocked, best |-> <<>>, cost |-> 0]
    /\ stage' = "goals"
    /\ UNCHANGED <<problem, loop, net, search>>

\* The route was searched from the sink: turned round it is a branch.
EndSink ==
    /\ stage = "goals" /\ goals.left = {}
    /\ IF goals.best = <<>>
       THEN Reject
       ELSE LET turned == Reversed(goals.best)
                branch == IF goals.start = Terminal(Sink) THEN turned ELSE Append(turned, Terminal(Sink))
            IN  /\ net' = [net EXCEPT !.left = Tail(@),
                                      !.joinable = @ \cup On(AllBut(branch, 1)),
                                      !.blocked = @ \cup BranchStairClearances(branch),
                                      !.branches[Head(net.left)] = branch]
                /\ stage' = "sinks"
                /\ UNCHANGED <<routing, pending, routedOrder, events>>
    /\ goals' = Nothing
    /\ UNCHANGED <<problem, attempts, search>>

-----------------------------------------------------------------------------
(* The goals on the tree, and the search for a route to one.               *)

\* blocked_world: air that is blocked counts as a block.
KindSeen(p) ==
    IF p \in DOMAIN problem.world THEN problem.world[p].kind
    ELSE IF p \in goals.blocked /\ p \notin {goals.start, goals.goal} THEN "solid" ELSE "air"

Routeable(p) == KindSeen(p) = "air" \/ (p \in {goals.start, goals.goal} /\ KindSeen(p) = "wire")
EndsRouteable == Routeable(goals.start) /\ Routeable(goals.goal)

TakeGoal ==
    /\ stage = "goals" /\ goals.left # {} /\ EndsRouteable
    /\ search' = [queue |-> {<<10 * Manhattan(goals.start, goals.goal), 0, goals.start>>}, serial |-> 0,
                  expanded |-> 0, costs |-> [p \in {goals.start} |-> 0], previous |-> <<>>]
    /\ stage' = "search"
    /\ UNCHANGED <<problem, loop, net, goals>>

\* The next goal, with the best path there is up to now.
NextGoal(best, cost) ==
    LET left == goals.left \ {goals.goal}
    IN  goals' = [goals EXCEPT !.left = left, !.goal = IF left = {} THEN Nothing ELSE FirstOf(left),
                               !.tries = MaxTries, !.blocked = net.blocked, !.best = best, !.cost = cost]

\* The search would return InvalidEndpoint.
SkipGoal ==
    /\ stage = "goals" /\ goals.left # {} /\ ~EndsRouteable
    /\ NextGoal(goals.best, goals.cost)
    /\ UNCHANGED <<problem, stage, loop, net, search>>

\* An entry of the queue is its rank, its serial and a position: of those
\* of the least rank the oldest is next.
Popped ==
    CHOOSE e \in search.queue : \A d \in search.queue : e[1] < d[1] \/ (e[1] = d[1] /\ e[2] <= d[2])
Current == Popped[3]

\* moves, in the order the code tries them.
Move ==
    [i \in 1..12 |-> LET f == <<"east", "west", "south", "north">>[((i - 1) \div 3) + 1]
                     IN  Plus(Offset[f], <<0, ((i - 1) % 3) - 1, 0>>)]

StepCost(p, q) ==
    (IF p[2] = q[2] THEN HorizontalCost ELSE StairCost)
    + (IF KindSeen(Below(q)) = "air" THEN SupportCost ELSE 0)

MayStep(q) ==
    Routeable(q) /\ KindSeen(Below(q)) \in {"air", "solid", "transparent", "redstone_block"}

Neighbor(p, i) == Plus(p, Move[i])
CostThrough(p, q) == search.costs[p] + StepCost(p, q)

\* The moves from p that lead somewhere at a lower cost than before.
Cheaper(p) ==
    {i \in DOMAIN Move : LET q == Neighbor(p, i)
                         IN  /\ MayStep(q)
                             /\ q \in DOMAIN search.costs => CostThrough(p, q) < search.costs[q]}

\* Mutant: the heuristic is not in the unit of the costs.
RankByDistance(q, cost) == cost + 100 * Manhattan(q, goals.goal)

Rank(q, cost) == cost + 10 * Manhattan(q, goals.goal)

\* f, and where it is defined g.
Updated(f, g) == [x \in DOMAIN f \cup DOMAIN g |-> IF x \in DOMAIN g THEN g[x] ELSE f[x]]

Expand ==
    /\ stage = "search" /\ search.queue # {} /\ search.expanded < problem.maxNodes
    /\ LET popped == Popped
           p == popped[3]
           better == Cheaper(p)
           reached == {Neighbor(p, i) : i \in better}
           serial(i) == search.serial + Cardinality({j \in better : j <= i})
           entry(i) == LET q == Neighbor(p, i) IN <<Rank(q, CostThrough(p, q)), serial(i), q>>
       IN  /\ p # goals.goal
           /\ search' = [queue |-> (search.queue \ {popped}) \cup {entry(i) : i \in better},
                         serial |-> search.serial + Cardinality(better),
                         expanded |-> search.expanded + 1,
                         costs |-> Updated(search.costs, [q \in reached |-> CostThrough(p, q)]),
                         previous |-> Updated(search.previous, [q \in reached |-> p])]
    /\ UNCHANGED <<problem, stage, loop, net, goals>>

\* There is no route to this goal.
Miss ==
    /\ stage = "search"
    /\ search.queue # {} => Current # goals.goal /\ search.expanded = problem.maxNodes
    /\ NextGoal(goals.best, goals.cost)
    /\ search' = Nothing
    /\ stage' = "goals"
    /\ UNCHANGED <<problem, loop, net>>

PathTo(goal) ==
    LET path[p \in DOMAIN search.costs] ==
            IF p \in DOMAIN search.previous THEN Append(path[search.previous[p]], p) ELSE <<p>>
    IN  path[goal]

\* geometry_conflict: dust above dust, or a stair whose headroom is taken.
\* The empty set where there is none.
GeometryConflict(path, tree, W) ==
    LET conductors == tree \cup On(path)
        stacked == {p \in conductors : Below(p) \in conductors}
        room(i) == Above(Lower(path[i], path[i + 1]))
        taken(i) == room(i) \in DOMAIN W \cup conductors
        wrong == {i \in Stairs(path) : taken(i) \/ Above(room(i)) \in conductors}
        i == CHOOSE j \in wrong : \A k \in wrong : j <= k
    IN  IF stacked # {} THEN {FirstOf(stacked)}
        ELSE IF wrong = {} THEN {}
        ELSE IF ~taken(i) THEN {Above(room(i))}
        ELSE IF room(i) \in On(path) THEN {room(i)} ELSE {path[i + 1]}

\* The search got to the goal.  A conflict is blocked and the search is
\* repeated.
Arrive ==
    /\ stage = "search" /\ search.queue # {} /\ Current = goals.goal
    /\ LET path == PathTo(goals.goal)
           cost == search.costs[goals.goal]
           conflict == GeometryConflict(path, net.joinable, problem.world)
           known == conflict \subseteq goals.blocked \cup {goals.start, goals.goal}
       IN  \/ conflict = {} /\ (goals.best = <<>> \/ cost < goals.cost) /\ NextGoal(path, cost)
           \/ conflict = {} /\ goals.best # <<>> /\ cost >= goals.cost /\ NextGoal(goals.best, goals.cost)
           \/ conflict # {} /\ (known \/ goals.tries = 1) /\ NextGoal(goals.best, goals.cost)
           \/ conflict # {} /\ ~known /\ goals.tries > 1
              /\ goals' = [goals EXCEPT !.blocked = @ \cup conflict, !.tries = @ - 1]
    /\ search' = Nothing
    /\ stage' = "goals"
    /\ UNCHANGED <<problem, loop, net>>

RoutingStep ==
    \/ TakeNet \/ GiveUp \/ Finish
    \/ TakeSink \/ EndSink \/ EndNet
    \/ TakeGoal \/ SkipGoal \/ Expand \/ Miss \/ Arrive

=============================================================================
