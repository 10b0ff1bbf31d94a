---------------------------- MODULE RedstoneSolver ----------------------------
(***************************************************************************)
(* One iteration of solve_instantaneous (dustroute-translate               *)
(* electrical.rs): the outputs of the components, the power of the blocks  *)
(* that conduct, and from them the level of every position.  dev is the    *)
(* DeviceOutputState: what repeaters, torches and comparators put out.     *)
(***************************************************************************)
EXTENDS RedstoneWorld

MaxSignal == 15
Signals == 0..MaxSignal

\* PoweredBlockState and DeviceOutputState.
Power == [weak : Signals, strong : Signals]
DeviceStates(W) ==
    [repeater : [OfKind(W, "repeater") -> BOOLEAN],
     torch : [OfKind(W, "torch") -> BOOLEAN],
     comparator : [OfKind(W, "comparator") -> Signals]]

Best(S) == CHOOSE n \in S \cup {0} : \A m \in S : m <= n
AtMost(n, m) == IF n > m THEN m ELSE n

SaturatingSub(n, m) == IF n > m THEN n - m ELSE 0

ComponentOutputLevel(W, dev, p) ==
    LET b == W[p]
    IN  CASE b.kind = "redstone_block" -> MaxSignal
          [] b.kind \in SwitchKinds -> IF b.powered THEN AtMost(b.level, MaxSignal) ELSE 0
          [] b.kind = "torch" -> IF dev.torch[p] THEN MaxSignal ELSE 0
          [] b.kind = "repeater" -> IF dev.repeater[p] THEN MaxSignal ELSE 0
          [] b.kind = "comparator" -> dev.comparator[p]
          [] OTHER -> 0

\* What a component powers strongly, where the block there conducts.
StrongTargets(W, p) ==
    CASE W[p].kind \in SwitchKinds -> SupportOf(W, p)
      [] W[p].kind \in {"repeater", "comparator"} -> Front(W, p)
      [] W[p].kind = "redstone_block" -> Adjacent(p)
      [] OTHER -> {}

StrongPower(W, dev, q) ==
    Best({ComponentOutputLevel(W, dev, p) : p \in {r \in DOMAIN W : q \in StrongTargets(W, r)}})

DustWeakPowerTargets(W, p) ==
    {Below(p)} \cup {Side(p, f) : f \in {g \in Horizontal : WireHasArm(W, p, g)}}

\* From strongly powered blocks next to it and from the dust on it.
WeakPower(W, dev, signals, q) ==
    Best({StrongPower(W, dev, s) : s \in Adjacent(q) \cap Conductors(W)}
         \cup {signals[d] : d \in {e \in Wires(W) : q \in DustWeakPowerTargets(W, e)}})

PoweredBlocks(W, dev, signals) ==
    [q \in Conductors(W) |-> [weak |-> WeakPower(W, dev, signals, q), strong |-> StrongPower(W, dev, q)]]

DirectLevelIntoDust(W, dev, power, d, n) ==
    IF \/ KindAt(W, n) \in SwitchKinds \cup {"redstone_block", "torch"}
       \/ (KindAt(W, n) \in {"repeater", "comparator"} /\ d \in Front(W, n))
    THEN ComponentOutputLevel(W, dev, n)
    ELSE IF ConductsAt(W, n) THEN power[n].strong ELSE 0

Feeders(W, d) ==
    {o \in {Plus(Side(d, f), <<0, y, 0>>) : f \in Horizontal, y \in -1..1} : DustTransmits(W, o, d)}

Drivers(W, d) ==
    {Above(d), Below(d)} \cup {Side(d, f) : f \in {g \in Horizontal : WireHasArm(W, d, g)}}

\* What the neighbours of a dust offer it.
Offered(W, dev, signals, power, d) ==
    {SaturatingSub(signals[o], 1) : o \in Feeders(W, d)}
    \cup {DirectLevelIntoDust(W, dev, power, d, n) : n \in Drivers(W, d)}

NextSignals(W, dev, signals, power) ==
    [p \in DOMAIN W |->
        IF W[p].kind = "wire"
        THEN AtMost(Best(Offered(W, dev, signals, power, p)), MaxSignal)
        ELSE ComponentOutputLevel(W, dev, p)]

\* The levels the solver starts from.
FirstSignals(W, dev) == [p \in DOMAIN W |-> ComponentOutputLevel(W, dev, p)]

\* PoweredBlockState::level, powered and InstantaneousElectricalState::power.
PowerLevel(power, p) ==
    IF p \in DOMAIN power THEN Best({power[p].weak, power[p].strong}) ELSE 0
IsPowered(power, p) == PowerLevel(power, p) > 0
SignalAt(signals, p) == IF p \in DOMAIN signals THEN signals[p] ELSE 0

RepeaterInputLevel(W, state, p) ==
    IF p \in DOMAIN W /\ ReceivesPower(W[p].kind)
    THEN PowerLevel(state.power, p)
    ELSE SignalAt(state.signals, p)

TorchSupportIsPowered(W, state, p) ==
    \E s \in SupportOf(W, p) : ConductsAt(W, s) /\ IsPowered(state.power, s)

ElectricalLevelAt(state, p) == Best({SignalAt(state.signals, p), PowerLevel(state.power, p)})
=============================================================================
