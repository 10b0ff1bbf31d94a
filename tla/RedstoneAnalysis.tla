--------------------------- MODULE RedstoneAnalysis ---------------------------
(***************************************************************************)
(* The simulated circuit beside the graph that is read off it without      *)
(* simulation.                                                             *)
(***************************************************************************)
EXTENDS RedstoneTick, RedstoneGraph

\* Where the power of block b comes from at this moment, by the rules of the
\* simulator: what raises the level of a wire, what a repeater, a comparator
\* and a torch read, and what powers a block that conducts.
PoweredFrom(b) ==
    LET conducted(p) == ConductsAt(world, p) /\ StrongPower(world, devices, p) > 0
    IN  CASE world[b].kind = "wire" ->
               {o \in Feeders(world, b) : SignalAt(instantaneous.signals, o) > 1}
               \cup {n \in Drivers(world, b) :
                       DirectLevelIntoDust(world, devices, instantaneous.power, b, n) > 0}
          [] world[b].kind = "repeater" ->
               {r \in Rear(world, b) : RepeaterInputLevel(world, instantaneous, r) > 0}
          [] world[b].kind = "comparator" ->
               {r \in Rear(world, b) \cup Sides(world, b) : ElectricalLevelAt(instantaneous, r) > 0}
          [] world[b].kind = "torch" ->
               {s \in SupportOf(world, b) : ConductsAt(world, s) /\ IsPowered(instantaneous.power, s)}
          [] OTHER ->
               IF ~Conducts(world[b]) THEN {}
               ELSE {d \in Wires(world) : /\ b \in DustWeakPowerTargets(world, d)
                                          /\ SignalAt(instantaneous.signals, d) > 0}
                    \cup {r \in DOMAIN world : /\ b \in StrongTargets(world, r)
                                               /\ ComponentOutputLevel(world, devices, r) > 0}
                    \cup {q \in Adjacent(b) : conducted(q)}

\* The steps of power that physical_step has no edge for (connectivity.rs):
\* out of a block that conducts it knows only those to repeaters and torches,
\* into a comparator only those from dust, into a repeater only those from
\* dust and from blocks that receive power, and around a source only those to
\* the dust beside it.
WithoutEdge(a, b) ==
    LET from == world[a].kind
        to == world[b].kind
    IN  \/ Conducts(world[a]) /\ to \notin {"repeater", "torch"}
        \/ from # "wire" /\ to = "comparator"
        \/ from # "wire" /\ ~ReceivesPower(from) /\ to = "repeater"
        \/ from \in SourceKinds /\ to = "wire" /\ b \in {Above(a), Below(a)}
        \/ from = "redstone_block" /\ Conducts(world[b])

\* Whatever the switches and devices are doing, the power of a block comes
\* along an edge of the graph, wherever in space the two blocks are, or by one
\* of the steps the graph is known to leave out: the simulator and the graph,
\* with its finite stencil of offsets, read the same circuit.
PowerFollowsEdges ==
    LET graph == ExtractConnectivity(world)
    IN  Idle => \A b \in DOMAIN world : \A a \in PoweredFrom(b) \cap DOMAIN world :
                    \/ WithoutEdge(a, b)
                    \/ \E e \in graph : e.source = a /\ e.sink = b
=============================================================================
