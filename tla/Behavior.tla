-------------------------------- MODULE Behavior --------------------------------
(***************************************************************************)
(* What a world of redstone does when nobody touches it: the simulator of  *)
(* RedstoneTick as a function, for circuits whose repeaters and            *)
(* comparators delay by one tick (dustroute-translate sim.rs new,          *)
(* advance_tick and settle_ticks, electrical.rs solve_instantaneous).      *)
(* dev is what the devices put out, and an electrical state is a record    *)
(* of signals and power.                                                   *)
(***************************************************************************)
EXTENDS RedstoneSolver

InitialDevices(W) ==
    [repeater |-> [p \in OfKind(W, "repeater") |-> W[p].powered],
     torch |-> [p \in OfKind(W, "torch") |-> W[p].powered],
     comparator |-> [p \in OfKind(W, "comparator") |-> W[p].level]]

\* The bound every call gives the solver.
SolverIterations == 128

Iterate(W, dev, state) ==
    LET power == Tabulated(PoweredBlocks(W, dev, state.signals))
    IN  [signals |-> Tabulated(NextSignals(W, dev, state.signals, power)), power |-> power]

\* What the solver holds between two iterations: no power before the first.
ElectricalStates(W) ==
    [signals : [DOMAIN W -> Signals], power : {<<>>} \cup [Conductors(W) -> Power]]

SolveInstantaneous(W, dev) ==
    LET solve[n \in 0..SolverIterations, state \in ElectricalStates(W)] ==
            LET then(next) == IF next = state THEN state ELSE solve[n - 1, next]
            IN  IF n = 0 THEN state ELSE then(Iterate(W, dev, state))
    IN  solve[SolverIterations, [signals |-> FirstSignals(W, dev), power |-> <<>>]]

LockedAt(W, dev, p) ==
    \E s \in Sides(W, p) :
        /\ p \in Front(W, s)
        /\ \/ KindAt(W, s) = "repeater" /\ dev.repeater[s]
           \/ KindAt(W, s) = "comparator" /\ dev.comparator[s] > 0

ComparatorOutput(W, state, p) ==
    LET level(S) == Best({ElectricalLevelAt(state, q) : q \in S})
        rear == level(Rear(W, p))
        side == level(Sides(W, p))
    IN  IF W[p].subtract THEN SaturatingSub(rear, side) ELSE IF rear >= side THEN rear ELSE 0

AdvanceDevices(W, dev, state) ==
    [repeater |-> [p \in DOMAIN dev.repeater |->
        IF LockedAt(W, dev, p) THEN dev.repeater[p]
        ELSE \E q \in Rear(W, p) : RepeaterInputLevel(W, state, q) > 0],
     torch |-> [p \in DOMAIN dev.torch |-> ~TorchSupportIsPowered(W, state, p)],
     comparator |-> [p \in DOMAIN dev.comparator |-> ComparatorOutput(W, state, p)]]

\* settle_ticks(count); once nothing changes, nothing does any more.
SettleTicks(W, count) ==
    LET settle[n \in 0..count, dev \in DeviceStates(W)] ==
            LET then(state, next) == IF next = dev THEN state ELSE settle[n - 1, next]
                from(state) == IF n = 0 THEN state ELSE then(state, AdvanceDevices(W, dev, state))
            IN  from(SolveInstantaneous(W, dev))
    IN  settle[count, InitialDevices(W)]
=============================================================================
