--------------------------- MODULE RedstoneTick_proofs ---------------------------
(***************************************************************************)
(* Theorems about the simulator, for every circuit, delay and number of    *)
(* ticks: the solver settles within 17 iterations, repeaters and lamps     *)
(* keep their time, the stencil of the connectivity graph is complete, and *)
(* the traces of scenarios are exact.                                      *)
(* First, one iteration of the solver: what it computes are levels, and    *)
(* iterating makes progress.                                               *)
(***************************************************************************)
EXTENDS Scenario, SequenceTheorems, FiniteSetTheorems, TLAPS

-----------------------------------------------------------------------------
(* Levels.                                                                 *)

\* A set of levels has a greatest one, or is empty and 0 stands for it.
LEMMA BestOfLevels ==
    ASSUME NEW S \in SUBSET Signals
    PROVE  /\ Best(S) \in S \cup {0}
           /\ Best(S) \in Signals
           /\ \A m \in S : m <= Best(S)
<1>1. \E n \in S \cup {0} : \A m \in S : m <= n
  <2> SUFFICES ASSUME \A n \in S \cup {0} : \E m \in S : m > n
               PROVE  FALSE
      BY DEF Signals, MaxSignal
  <2>1. \E m \in S : m > 0
      OBVIOUS
  <2>2. \A k \in 0..15 : (\E m \in S : m > k) => (\E m \in S : m > k + 1)
      BY DEF Signals, MaxSignal
  <2>3. \E m \in S : m > 4
      BY <2>1, <2>2
  <2>4. \E m \in S : m > 8
      BY <2>3, <2>2
  <2>5. \E m \in S : m > 12
      BY <2>4, <2>2
  <2>6. \E m \in S : m > 15
      BY <2>5, <2>2
  <2> QED
      BY <2>6 DEF Signals, MaxSignal
<1>2. /\ Best(S) \in S \cup {0}
      /\ \A m \in S : m <= Best(S)
    BY <1>1 DEF Best
<1>3. S \cup {0} \subseteq Signals
    BY DEF Signals, MaxSignal
<1> QED
    BY <1>2, <1>3

\* The cap and the decay of a level.
LEMMA LevelArithmetic ==
    ASSUME NEW n \in Nat
    PROVE  /\ AtMost(n, MaxSignal) \in Signals
           /\ n \in Signals => AtMost(n, MaxSignal) = n /\ SaturatingSub(n, 1) \in Signals
    BY DEF AtMost, SaturatingSub, Signals, MaxSignal

\* A component puts out a level.
LEMMA OutputIsLevel ==
    ASSUME NEW W, IsWorld(W), NEW dev \in DeviceStates(W), NEW p \in DOMAIN W
    PROVE  ComponentOutputLevel(W, dev, p) \in Signals
<1>1. W[p] \in Block
    BY DEF IsWorld
<1>2. W[p].level \in Nat /\ AtMost(W[p].level, MaxSignal) \in Signals
    BY <1>1, LevelArithmetic DEF Block
<1>3. W[p].kind = "comparator" => dev.comparator[p] \in Signals
    BY DEF DeviceStates, OfKind
<1>4. 0 \in Signals /\ MaxSignal \in Signals
    BY DEF Signals, MaxSignal
<1> QED
    BY <1>2, <1>3, <1>4 DEF ComponentOutputLevel

\* Strong power is a level.
LEMMA StrongPowerIsLevel ==
    ASSUME NEW W, IsWorld(W), NEW dev \in DeviceStates(W), NEW q
    PROVE  StrongPower(W, dev, q) \in Signals
    BY OutputIsLevel, BestOfLevels DEF StrongPower

\* Weak power is a level.
LEMMA WeakPowerIsLevel ==
    ASSUME NEW W, IsWorld(W), NEW dev \in DeviceStates(W),
           NEW signals \in [DOMAIN W -> Signals], NEW q
    PROVE  WeakPower(W, dev, signals, q) \in Signals
<1>1. Wires(W) \subseteq DOMAIN W
    BY DEF Wires, OfKind
<1>2. {StrongPower(W, dev, s) : s \in Adjacent(q) \cap Conductors(W)}
      \cup {signals[d] : d \in {e \in Wires(W) : q \in DustWeakPowerTargets(W, e)}} \in SUBSET Signals
    BY <1>1, StrongPowerIsLevel
<1> QED
    BY <1>2, BestOfLevels DEF WeakPower

\* The power of the blocks that conduct, and its strong part, which does not
\* depend on the levels of the dust.
LEMMA PowerOfBlocks ==
    ASSUME NEW W, IsWorld(W), NEW dev \in DeviceStates(W), NEW signals \in [DOMAIN W -> Signals]
    PROVE  /\ PoweredBlocks(W, dev, signals) \in [Conductors(W) -> Power]
           /\ \A q \in Conductors(W) : PoweredBlocks(W, dev, signals)[q].strong = StrongPower(W, dev, q)
    BY StrongPowerIsLevel, WeakPowerIsLevel DEF PoweredBlocks, Power

-----------------------------------------------------------------------------
(* An iteration.                                                           *)

\* The levels after an iteration that begins with the levels `signals`.
After(W, dev, signals) == NextSignals(W, dev, signals, PoweredBlocks(W, dev, signals))

\* What wire d is offered in that iteration.
Offers(W, dev, signals, d) == Offered(W, dev, signals, PoweredBlocks(W, dev, signals), d)

\* No level of a wire has an influence on what the blocks beside it drive.
LEMMA DriversAreFixed ==
    ASSUME NEW W, IsWorld(W), NEW dev \in DeviceStates(W), NEW d, NEW n,
           NEW s \in [DOMAIN W -> Signals], NEW t \in [DOMAIN W -> Signals]
    PROVE  /\ DirectLevelIntoDust(W, dev, PoweredBlocks(W, dev, s), d, n) \in Signals
           /\ DirectLevelIntoDust(W, dev, PoweredBlocks(W, dev, s), d, n)
                = DirectLevelIntoDust(W, dev, PoweredBlocks(W, dev, t), d, n)
<1>1. ConductsAt(W, n) => n \in Conductors(W)
    BY DEF ConductsAt, Conductors
<1>2. n \in Conductors(W) => /\ PoweredBlocks(W, dev, s)[n].strong = StrongPower(W, dev, n)
                             /\ PoweredBlocks(W, dev, t)[n].strong = StrongPower(W, dev, n)
    BY PowerOfBlocks
<1>3. KindAt(W, n) # "air" => n \in DOMAIN W
    BY DEF KindAt
<1>4. n \in DOMAIN W => ComponentOutputLevel(W, dev, n) \in Signals
    BY OutputIsLevel
<1>5. StrongPower(W, dev, n) \in Signals /\ 0 \in Signals
    BY StrongPowerIsLevel DEF Signals, MaxSignal
<1> QED
    BY <1>1, <1>2, <1>3, <1>4, <1>5 DEF DirectLevelIntoDust, SwitchKinds

\* A wire is fed by blocks of the circuit.
LEMMA FeedersAreWires ==
    ASSUME NEW W, NEW d
    PROVE  Feeders(W, d) \subseteq DOMAIN W
    BY DEF Feeders, DustTransmits, KindAt

\* What is offered are levels, a wire gets the best of them, and everything
\* that is not a wire keeps its output.
LEMMA IterationIsTyped ==
    ASSUME NEW W, IsWorld(W), NEW dev \in DeviceStates(W), NEW s \in [DOMAIN W -> Signals]
    PROVE  /\ After(W, dev, s) \in [DOMAIN W -> Signals]
           /\ \A d : Offers(W, dev, s, d) \in SUBSET Signals
           /\ \A d \in Wires(W) : After(W, dev, s)[d] = Best(Offers(W, dev, s, d))
           /\ \A p \in DOMAIN W \ Wires(W) : After(W, dev, s)[p] = ComponentOutputLevel(W, dev, p)
<1>1. ASSUME NEW d
      PROVE  Offers(W, dev, s, d) \in SUBSET Signals
  <2>1. \A o \in Feeders(W, d) : SaturatingSub(s[o], 1) \in Signals
      BY FeedersAreWires, LevelArithmetic DEF Signals
  <2>2. \A n \in Drivers(W, d) : DirectLevelIntoDust(W, dev, PoweredBlocks(W, dev, s), d, n) \in Signals
      BY DriversAreFixed
  <2> QED
      BY <2>1, <2>2 DEF Offers, Offered
<1>2. ASSUME NEW d
      PROVE  /\ Best(Offers(W, dev, s, d)) \in Signals
             /\ AtMost(Best(Offers(W, dev, s, d)), MaxSignal) = Best(Offers(W, dev, s, d))
  <2>1. Best(Offers(W, dev, s, d)) \in Signals
      BY <1>1, BestOfLevels
  <2>2. Best(Offers(W, dev, s, d)) \in Nat
      BY <2>1 DEF Signals
  <2> QED
      BY <2>1, <2>2, LevelArithmetic
<1>3. \A p \in DOMAIN W : ComponentOutputLevel(W, dev, p) \in Signals
    BY OutputIsLevel
<1>4. After(W, dev, s) = [p \in DOMAIN W |-> IF p \in Wires(W) THEN Best(Offers(W, dev, s, p))
                                            ELSE ComponentOutputLevel(W, dev, p)]
    BY <1>2 DEF After, NextSignals, Offers, Wires, OfKind
<1>5. Wires(W) \subseteq DOMAIN W
    BY DEF Wires, OfKind
<1> QED
    BY <1>1, <1>2, <1>3, <1>4, <1>5

\* The levels t come from the levels s by an iteration, have risen, and
\* those that changed are at most m: in the iteration after it levels rise
\* again and those that change are below m.
LEMMA ProgressOfIteration ==
    ASSUME NEW W, IsWorld(W), NEW dev \in DeviceStates(W), NEW m \in Int,
           NEW s \in [DOMAIN W -> Signals], NEW t \in [DOMAIN W -> Signals],
           t = After(W, dev, s),
           \A p \in DOMAIN W : s[p] <= t[p] /\ (s[p] # t[p] => t[p] <= m)
    PROVE  \A p \in DOMAIN W : /\ t[p] <= After(W, dev, t)[p]
                               /\ t[p] # After(W, dev, t)[p] => After(W, dev, t)[p] <= m - 1
<1> DEFINE u == After(W, dev, t)
           fixed(d) == {DirectLevelIntoDust(W, dev, PoweredBlocks(W, dev, s), d, n) : n \in Drivers(W, d)}
<1>1. u \in [DOMAIN W -> Signals]
    BY IterationIsTyped
<1>2. ASSUME NEW d \in Wires(W)
      PROVE  /\ t[d] <= u[d]
             /\ t[d] # u[d] => u[d] <= m - 1
  <2>1. Offers(W, dev, s, d) = {SaturatingSub(s[o], 1) : o \in Feeders(W, d)} \cup fixed(d)
      BY DEF Offers, Offered
  <2>2. Offers(W, dev, t, d) = {SaturatingSub(t[o], 1) : o \in Feeders(W, d)} \cup fixed(d)
    <3>1. \A n \in Drivers(W, d) : DirectLevelIntoDust(W, dev, PoweredBlocks(W, dev, s), d, n)
                                    = DirectLevelIntoDust(W, dev, PoweredBlocks(W, dev, t), d, n)
        BY DriversAreFixed
    <3> QED
        BY <3>1 DEF Offers, Offered
  <2>3. /\ t[d] \in Offers(W, dev, s, d) \cup {0} /\ t[d] \in Signals
        /\ \A x \in Offers(W, dev, s, d) : x <= t[d]
    <3>1. t[d] = Best(Offers(W, dev, s, d)) /\ Offers(W, dev, s, d) \in SUBSET Signals
        BY IterationIsTyped
    <3> QED
        BY <3>1, BestOfLevels
  <2>4. /\ u[d] \in Offers(W, dev, t, d) \cup {0} /\ u[d] \in Signals
        /\ \A x \in Offers(W, dev, t, d) : x <= u[d]
    <3>1. u[d] = Best(Offers(W, dev, t, d)) /\ Offers(W, dev, t, d) \in SUBSET Signals
        BY IterationIsTyped
    <3> QED
        BY <3>1, BestOfLevels
  <2>5. \A o \in Feeders(W, d) : /\ s[o] \in Signals /\ t[o] \in Signals
                                 /\ s[o] <= t[o] /\ (s[o] # t[o] => t[o] <= m)
      BY FeedersAreWires
  <2> HIDE DEF u, fixed
  <2>6. t[d] <= u[d]
    <3>1. CASE t[d] = 0
        BY <3>1, <2>4 DEF Signals
    <3>2. CASE t[d] \in fixed(d)
        BY <3>2, <2>2, <2>4
    <3>3. ASSUME NEW o \in Feeders(W, d), t[d] = SaturatingSub(s[o], 1)
          PROVE  t[d] <= u[d]
      <4>1. SaturatingSub(t[o], 1) <= u[d]
          BY <2>2, <2>4
      <4> QED
          BY <4>1, <3>3, <2>4, <2>5 DEF SaturatingSub, Signals, MaxSignal
    <3> QED
        BY <3>1, <3>2, <3>3, <2>3, <2>1
  <2>7. ASSUME t[d] # u[d]
        PROVE  u[d] <= m - 1
    <3>1. u[d] > t[d] /\ u[d] # 0
        BY <2>6, <2>7, <2>3, <2>4 DEF Signals, MaxSignal
    <3>2. u[d] \notin fixed(d)
        BY <3>1, <2>1, <2>3, <2>4 DEF Signals, MaxSignal
    <3>3. PICK o \in Feeders(W, d) : u[d] = SaturatingSub(t[o], 1)
        BY <3>1, <3>2, <2>2, <2>4
    <3>4. s[o] # t[o]
      <4>1. SaturatingSub(s[o], 1) <= t[d]
          BY <2>1, <2>3
      <4> QED
          BY <4>1, <3>1, <3>3, <2>3, <2>4 DEF Signals, MaxSignal
    <3> QED
        BY <3>1, <3>3, <3>4, <2>4, <2>5 DEF SaturatingSub, Signals, MaxSignal
  <2> QED
      BY <2>6, <2>7
<1>3. ASSUME NEW p \in DOMAIN W \ Wires(W)
      PROVE  t[p] = u[p] /\ t[p] \in Signals
    BY IterationIsTyped
<1> HIDE DEF u
<1>4. \A p \in DOMAIN W : t[p] <= u[p] /\ (t[p] # u[p] => u[p] <= m - 1)
    BY <1>2, <1>3 DEF Signals, MaxSignal
<1> QED
    BY <1>4 DEF u

\* The solver starts from levels that an iteration only raises.
LEMMA FirstIteration ==
    ASSUME NEW W, IsWorld(W), NEW dev \in DeviceStates(W)
    PROVE  /\ FirstSignals(W, dev) \in [DOMAIN W -> Signals]
           /\ \A p \in DOMAIN W :
                /\ FirstSignals(W, dev)[p] <= After(W, dev, FirstSignals(W, dev))[p]
                /\ After(W, dev, FirstSignals(W, dev))[p] <= MaxSignal
<1> DEFINE s == FirstSignals(W, dev)
           t == After(W, dev, s)
<1>1. s \in [DOMAIN W -> Signals]
    BY OutputIsLevel DEF FirstSignals
<1>2. t \in [DOMAIN W -> Signals] /\ \A p \in DOMAIN W \ Wires(W) : t[p] = ComponentOutputLevel(W, dev, p)
    BY <1>1, IterationIsTyped
<1>3. \A p \in Wires(W) : p \in DOMAIN W /\ s[p] = 0
    BY DEF FirstSignals, Wires, OfKind, ComponentOutputLevel, SwitchKinds
<1>4. \A p \in DOMAIN W \ Wires(W) : s[p] = t[p]
    BY <1>2 DEF FirstSignals
<1> HIDE DEF s, t
<1>5. \A p \in DOMAIN W : s[p] <= t[p] /\ t[p] <= MaxSignal
    BY <1>1, <1>2, <1>3, <1>4 DEF Signals, MaxSignal
<1> QED
    BY <1>1, <1>5 DEF s, t

-----------------------------------------------------------------------------
(* What throwing a switch leaves as it is.                                 *)

\* Throwing a switch changes whether it is powered, and nothing else.
LEMMA SwitchKeepsCircuit ==
    ASSUME IsWorld(world), NEW p \in DOMAIN world, NEW powered \in BOOLEAN,
           world[p].kind \in SwitchKinds, SetPowered(p, powered)
    PROVE  /\ IsWorld(world') /\ DOMAIN world' = DOMAIN world
           /\ \A q \in DOMAIN world :
                /\ world'[q].kind = world[q].kind
                /\ world'[q].delay = world[q].delay
                /\ world'[q].look = world[q].look
                /\ world[q].kind \notin SwitchKinds => world'[q] = world[q]
<1>1. world' = [world EXCEPT ![p].powered = powered] /\ world \in [DOMAIN world -> Block]
    BY DEF SetPowered, IsWorld
<1>2. [world[p] EXCEPT !.powered = powered] \in Block
    BY <1>1 DEF Block
<1>3. world' \in [DOMAIN world -> Block] /\ DOMAIN world' = DOMAIN world
    BY <1>1, <1>2
<1>4. /\ world'[p] = [world[p] EXCEPT !.powered = powered]
      /\ \A q \in DOMAIN world \ {p} : world'[q] = world[q]
    BY <1>1
<1>5. /\ world'[p].kind = world[p].kind
      /\ world'[p].delay = world[p].delay
      /\ world'[p].look = world[p].look
    BY <1>1, <1>4 DEF Block
<1> QED
    BY <1>3, <1>4, <1>5 DEF IsWorld

\* The places of the devices, the delays and the conductors stay.
LEMMA SwitchKeepsPlaces ==
    ASSUME IsWorld(world), NEW p \in DOMAIN world, NEW powered \in BOOLEAN,
           world[p].kind \in SwitchKinds, SetPowered(p, powered)
    PROVE  /\ \A k : OfKind(world', k) = OfKind(world, k)
           /\ Conductors(world') = Conductors(world)
           /\ DeviceStates(world') = DeviceStates(world)
           /\ \A q \in DOMAIN world : Delay(world', q) = Delay(world, q)
<1>1. /\ DOMAIN world' = DOMAIN world
      /\ \A q \in DOMAIN world : /\ world'[q].kind = world[q].kind
                                 /\ world'[q].delay = world[q].delay
                                 /\ world'[q].look = world[q].look
    BY SwitchKeepsCircuit
<1>2. \A k : OfKind(world', k) = OfKind(world, k)
    BY <1>1 DEF OfKind
<1>3. \A q \in DOMAIN world : Conducts(world'[q]) <=> Conducts(world[q])
    BY <1>1 DEF Conducts
<1>4. Conductors(world') = Conductors(world)
    BY <1>1, <1>3 DEF Conductors
<1>5. DeviceStates(world') = DeviceStates(world)
  <2>1. /\ OfKind(world', "repeater") = OfKind(world, "repeater")
        /\ OfKind(world', "torch") = OfKind(world, "torch")
        /\ OfKind(world', "comparator") = OfKind(world, "comparator")
      BY <1>2
  <2> QED
      BY <2>1, Zenon DEF DeviceStates
<1>6. \A q \in DOMAIN world : Delay(world', q) = Delay(world, q)
    BY <1>1 DEF Delay
<1> QED
    BY <1>2, <1>4, <1>5, <1>6

\* A delay is between 1 and 4.
LEMMA DelayIsBounded ==
    ASSUME NEW W, IsWorld(W), NEW p \in DOMAIN W
    PROVE  Delay(W, p) \in 1..4
<1>1. W[p].delay \in Nat
    BY DEF IsWorld, Block
<1> QED
    BY <1>1 DEF Delay, AtMost

-----------------------------------------------------------------------------
(* Types.                                                                  *)

\* The devices of a circuit start in states they can have.
LEMMA InitialDevices ==
    ASSUME NEW W \in Worlds
    PROVE  IsWorld(W) /\ InitiallyLit(W) \in DeviceStates(W)
<1>1. IsWorld(W) /\ \A p \in OfKind(W, "comparator") : W[p].level \in Signals
    BY SimulatorAssumption
<1>2. \A p \in DOMAIN W : W[p].powered \in BOOLEAN
    BY <1>1 DEF IsWorld, Block
<1> QED
    BY <1>1, <1>2 DEF InitiallyLit, DeviceStates, OfKind

\* The power at a position is a level, 0 where nothing conducts.
LEMMA PowerOfConductor ==
    ASSUME NEW W, NEW power \in [Conductors(W) -> Power], NEW p
    PROVE  PowerLevel(power, p) \in Signals
<1>1. p \in DOMAIN power => {power[p].weak, power[p].strong} \in SUBSET Signals
    BY DEF Power
<1> QED
    BY <1>1, BestOfLevels DEF PowerLevel, Signals, MaxSignal

\* The simulator between two calls has an electrical state.
LEMMA IdleIsSolved ==
    ASSUME TypeOK, Idle
    PROVE  /\ instantaneous.signals \in [DOMAIN world -> Signals]
           /\ instantaneous.power \in [Conductors(world) -> Power]
    BY DEF TypeOK, Idle, Running

\* What a comparator reads at a position is a level.
LEMMA LevelAtIsLevel ==
    ASSUME TypeOK, Idle, NEW q
    PROVE  ElectricalLevelAt(instantaneous, q) \in Signals
<1>1. SignalAt(instantaneous.signals, q) \in Signals
    BY IdleIsSolved DEF SignalAt, Signals, MaxSignal
<1>2. PowerLevel(instantaneous.power, q) \in Signals
    BY IdleIsSolved, PowerOfConductor
<1>3. {SignalAt(instantaneous.signals, q), PowerLevel(instantaneous.power, q)} \in SUBSET Signals
    BY <1>1, <1>2
<1> QED
    BY <1>3, BestOfLevels DEF ElectricalLevelAt

\* A comparator puts out a level, in both of its modes.
LEMMA ComparatorIsLevel ==
    ASSUME TypeOK, Idle, NEW p
    PROVE  NextComparator(p) \in Signals
<1> DEFINE rear == Best({ElectricalLevelAt(instantaneous, q) : q \in Rear(world, p)})
           side == Best({ElectricalLevelAt(instantaneous, q) : q \in Sides(world, p)})
<1>1. rear \in Signals
  <2>1. {ElectricalLevelAt(instantaneous, q) : q \in Rear(world, p)} \in SUBSET Signals
      BY LevelAtIsLevel
  <2> QED
      BY <2>1, BestOfLevels
<1>2. side \in Signals
  <2>1. {ElectricalLevelAt(instantaneous, q) : q \in Sides(world, p)} \in SUBSET Signals
      BY LevelAtIsLevel
  <2> QED
      BY <2>1, BestOfLevels
<1>3. NextComparator(p) = IF world[p].subtract THEN SaturatingSub(rear, side)
                          ELSE IF rear >= side THEN rear ELSE 0
    BY DEF NextComparator
<1> HIDE DEF rear, side
<1> QED
    BY <1>1, <1>2, <1>3 DEF SaturatingSub, Signals, MaxSignal

\* A queue of n places that loses its head and takes an element.
LEMMA ShiftedQueue ==
    ASSUME NEW S, NEW n \in Nat \ {0}, NEW q \in [1..n -> S], NEW e \in S
    PROVE  /\ Head(q) = q[1] /\ q[1] \in S
           /\ Append(Tail(q), e) \in [1..n -> S]
           /\ \A i \in 1..(n - 1) : Append(Tail(q), e)[i] = q[i + 1]
           /\ Append(Tail(q), e)[n] = e
<1>1. q \in Seq(S)
    BY SeqDef
<1>2. Len(q) = n /\ q # <<>>
    BY <1>1, LenProperties, EmptySeq
<1>3. /\ Tail(q) \in Seq(S) /\ Len(Tail(q)) = n - 1
      /\ \A i \in 1..(n - 1) : Tail(q)[i] = q[i + 1]
    BY <1>1, <1>2, HeadTailProperties
<1>4. Append(Tail(q), e) \in Seq(S) /\ Len(Append(Tail(q), e)) = n
    BY <1>3
<1>5. Append(Tail(q), e) \in [1..n -> S]
    BY <1>4, LenProperties
<1>6. /\ \A i \in 1..(n - 1) : Append(Tail(q), e)[i] = q[i + 1]
      /\ Append(Tail(q), e)[n] = e
    BY <1>3
<1>7. Head(q) = q[1] /\ q[1] \in S
    BY <1>1, <1>2
<1> QED
    BY <1>5, <1>6, <1>7

\* The queue of a repeater keeps its length.
LEMMA QueueIsTyped ==
    ASSUME TypeOK, NEW p \in Repeaters
    PROVE  /\ NextQueue(p) \in [1..Delay(world, p) -> BOOLEAN]
           /\ ~Locked(p) =>
                /\ \A i \in 1..(Delay(world, p) - 1) : NextQueue(p)[i] = queue[p][i + 1]
                /\ NextQueue(p)[Delay(world, p)] = Requested(p)
           /\ Head(NextQueue(p)) = NextQueue(p)[1] /\ Head(NextQueue(p)) \in BOOLEAN
<1> DEFINE n == Delay(world, p)
<1>1. n \in Nat \ {0}
  <2>1. IsWorld(world) /\ p \in DOMAIN world
      BY DEF TypeOK, Repeaters, OfKind
  <2> QED
      BY <2>1, DelayIsBounded
<1>2. queue[p] \in [1..n -> BOOLEAN]
    BY DEF TypeOK
<1> DEFINE e == Requested(p)
<1>3. e \in BOOLEAN
    BY DEF Requested
<1> HIDE DEF n, e
<1>4. /\ Append(Tail(queue[p]), e) \in [1..n -> BOOLEAN]
      /\ \A i \in 1..(n - 1) : Append(Tail(queue[p]), e)[i] = queue[p][i + 1]
      /\ Append(Tail(queue[p]), e)[n] = e
  <2>1. Append(Tail(queue[p]), e) \in [1..n -> BOOLEAN]
      BY <1>1, <1>2, <1>3, ShiftedQueue
  <2>2. \A i \in 1..(n - 1) : Append(Tail(queue[p]), e)[i] = queue[p][i + 1]
      BY <1>1, <1>2, <1>3, ShiftedQueue
  <2>3. Append(Tail(queue[p]), e)[n] = e
      BY <1>1, <1>2, <1>3, ShiftedQueue
  <2> QED
      BY <2>1, <2>2, <2>3
<1>5. NextQueue(p) \in [1..n -> BOOLEAN]
    BY <1>2, <1>4 DEF NextQueue, e
<1>6. Head(NextQueue(p)) = NextQueue(p)[1] /\ NextQueue(p)[1] \in BOOLEAN
    BY <1>1, <1>3, <1>5, ShiftedQueue
<1>7. ~Locked(p) => /\ \A i \in 1..(n - 1) : NextQueue(p)[i] = queue[p][i + 1]
                    /\ NextQueue(p)[n] = e
    BY <1>4 DEF NextQueue, e
<1> QED
    BY <1>5, <1>6, <1>7 DEF n, e

\* A tick gives every device a state it can have.
LEMMA DevicesAreTyped ==
    ASSUME TypeOK, Idle
    PROVE  NextDevices \in DeviceStates(world)
<1>1. \A p \in Repeaters : NextRepeater(p) \in BOOLEAN
  <2> SUFFICES ASSUME NEW p \in Repeaters
               PROVE  NextRepeater(p) \in BOOLEAN
      OBVIOUS
  <2>1. devices.repeater[p] \in BOOLEAN
      BY DEF TypeOK, DeviceStates, Repeaters
  <2>2. Head(NextQueue(p)) \in BOOLEAN
      BY QueueIsTyped
  <2> QED
      BY <2>1, <2>2 DEF NextRepeater
<1>2. \A p \in Torches : NextTorch(p) \in BOOLEAN
    BY DEF NextTorch
<1>3. DOMAIN devices.comparator = OfKind(world, "comparator")
    BY DEF TypeOK, DeviceStates
<1>4. \A p \in OfKind(world, "comparator") : NextComparator(p) \in Signals
    BY ComparatorIsLevel
<1> QED
    BY <1>1, <1>2, <1>3, <1>4 DEF NextDevices, DeviceStates, Repeaters, Torches

\* The initial states are typed.
LEMMA InitTypes ==
    ASSUME Init
    PROVE  TypeOK
<1>1. IsWorld(world) /\ devices \in DeviceStates(world)
    BY InitialDevices DEF Init
<1>2. \A p \in Repeaters : devices.repeater[p] \in BOOLEAN
    BY <1>1 DEF DeviceStates, Repeaters
<1>3. \A p \in Repeaters : queue[p] \in [1..Delay(world, p) -> BOOLEAN]
    BY <1>2 DEF Init
<1>4. sampled \in [Repeaters -> Seq(BOOLEAN)]
    BY DEF Init
<1>5. tick \in 0..MaxTicks /\ failed \in BOOLEAN /\ ~failed /\ DOMAIN queue = Repeaters
  <2>1. tick \in 0..MaxTicks
      BY SimulatorAssumption DEF Init
  <2> QED
      BY <2>1 DEF Init
<1>6. lastPowered \in [Lamps -> Int] /\ lampLit \in [Lamps -> BOOLEAN]
    BY SimulatorAssumption DEF Init, Never
<1>7. DOMAIN offDeadline \subseteq Lamps /\ burnout \subseteq Torches
    BY DEF Init
<1>8. /\ solve.call = "new" /\ solve.iteration = 1 /\ solve.power = <<>>
      /\ solve.signals = FirstSignals(world, devices)
    BY DEF Init, Solving
<1>9. solve.signals \in [DOMAIN world -> Signals]
    BY <1>1, <1>8, FirstIteration
<1>10. solve.iteration \in 1..MaxIterations
    BY <1>8, SimulatorAssumption
<1> QED
    BY <1>1, <1>3, <1>4, <1>5, <1>6, <1>7, <1>8, <1>9, <1>10 DEF TypeOK, Running

\* What an iteration computes.
LEMMA IterationComputes ==
    ASSUME TypeOK, Running
    PROVE  /\ NextPower \in [Conductors(world) -> Power]
           /\ NextLevels \in [DOMAIN world -> Signals]
           /\ NextLevels = After(world, devices, solve.signals)
<1>1. IsWorld(world) /\ devices \in DeviceStates(world) /\ solve.signals \in [DOMAIN world -> Signals]
    BY DEF TypeOK
<1>2. NextPower \in [Conductors(world) -> Power]
    BY <1>1, PowerOfBlocks DEF NextPower
<1>3. NextLevels = After(world, devices, solve.signals)
    BY DEF NextLevels, NextPower, After
<1> QED
    BY <1>1, <1>2, <1>3, IterationIsTyped

\* The end of a solve keeps the types.
LEMMA ConvergedTypes ==
    ASSUME TypeOK, Iterate, Converged
    PROVE  TypeOK'
<1>1. UNCHANGED circuit /\ Running
    BY DEF Iterate
<1>2. /\ IsWorld(world') /\ tick' \in 0..MaxTicks /\ failed' \in BOOLEAN
      /\ devices' \in DeviceStates(world') /\ DOMAIN queue' = Repeaters'
      /\ \A p \in Repeaters' : queue'[p] \in [1..Delay(world', p) -> BOOLEAN]
      /\ sampled' \in [Repeaters' -> Seq(BOOLEAN)] /\ burnout' \subseteq Torches'
  <2>1. world' = world /\ tick' = tick /\ devices' = devices /\ queue' = queue /\ sampled' = sampled
        /\ burnout' = burnout /\ failed' = failed
      BY <1>1 DEF circuit, Converged
  <2> QED
      BY <2>1 DEF TypeOK, Repeaters, Torches
<1>3. /\ lampLit' \in [Lamps -> BOOLEAN] /\ lastPowered' \in [Lamps -> Int]
      /\ DOMAIN offDeadline' \subseteq Lamps
  <2>1. CASE LampsStart(NextPower)
    <3>1. tick \in Int /\ Never \in Int
        BY SimulatorAssumption DEF TypeOK, Never
    <3> QED
        BY <2>1, <3>1 DEF LampsStart, IsPowered, TypeOK
  <2>2. CASE LampsFollow(NextPower)
    <3>1. tick \in Int /\ lastPowered \in [Lamps -> Int]
        BY DEF TypeOK
    <3> QED
        BY <2>2, <3>1 DEF LampsFollow, IsPowered
  <2>3. CASE UNCHANGED <<lampLit, offDeadline, lastPowered>>
      BY <2>3 DEF TypeOK
  <2> QED
      BY <2>1, <2>2, <2>3 DEF Converged
<1>4. Lamps' = Lamps
    BY <1>1 DEF circuit, Lamps
<1>5. solve' = NotSolving /\ instantaneous' = [signals |-> NextLevels, power |-> NextPower]
    BY DEF Converged
<1>6. solve'.call = "none"
    BY <1>5 DEF NotSolving
<1>7. /\ instantaneous'.signals \in [DOMAIN world' -> Signals]
      /\ instantaneous'.power \in [Conductors(world') -> Power]
  <2>1. world' = world
      BY <1>1 DEF circuit
  <2> QED
      BY <1>1, <1>5, <2>1, IterationComputes
<1>8. ~Running'
    BY <1>6 DEF Running
<1> QED
    BY <1>2, <1>3, <1>4, <1>6, <1>7, <1>8 DEF TypeOK

\* An iteration that is not the last keeps the types, and so does the failure.
LEMMA IteratedTypes ==
    ASSUME TypeOK, Iterate, Iterated
    PROVE  TypeOK'
<1>1. UNCHANGED circuit /\ Running
    BY DEF Iterate
<1>2. /\ IsWorld(world') /\ tick' \in 0..MaxTicks /\ failed' \in BOOLEAN
      /\ devices' \in DeviceStates(world') /\ DOMAIN queue' = Repeaters'
      /\ \A p \in Repeaters' : queue'[p] \in [1..Delay(world', p) -> BOOLEAN]
      /\ sampled' \in [Repeaters' -> Seq(BOOLEAN)] /\ burnout' \subseteq Torches'
      /\ lampLit' \in [Lamps' -> BOOLEAN] /\ lastPowered' \in [Lamps' -> Int]
      /\ DOMAIN offDeadline' \subseteq Lamps'
  <2>1. /\ world' = world /\ tick' = tick /\ devices' = devices /\ queue' = queue /\ sampled' = sampled
        /\ burnout' = burnout /\ lampLit' = lampLit /\ lastPowered' = lastPowered
        /\ offDeadline' = offDeadline /\ failed' \in BOOLEAN
      BY <1>1 DEF circuit, Iterated
  <2> QED
      BY <2>1 DEF TypeOK, Repeaters, Torches, Lamps
<1>3. /\ NextPower \in [Conductors(world) -> Power] /\ NextLevels \in [DOMAIN world -> Signals]
      /\ solve.iteration \in 1..MaxIterations /\ MaxIterations \in Nat
    BY <1>1, IterationComputes, SimulatorAssumption DEF TypeOK
<1>4. world' = world /\ instantaneous' = instantaneous
    BY <1>1 DEF circuit, Iterated
<1>7. ~failed
    BY <1>1 DEF TypeOK
<1>5. CASE solve.iteration = MaxIterations
  <2>1. solve'.call = "none" /\ failed'
      BY <1>5 DEF Iterated, NotSolving
  <2> QED
      BY <1>2, <2>1 DEF TypeOK, Running
<1>6. CASE solve.iteration # MaxIterations
  <2>1. /\ solve'.signals = NextLevels /\ solve'.power = NextPower
        /\ solve'.iteration = solve.iteration + 1 /\ solve'.call = solve.call
        /\ ~failed'
      BY <1>6 DEF Iterated
  <2>2. solve'.iteration \in 1..MaxIterations
      BY <2>1, <1>3, <1>6
  <2>3. /\ solve'.signals \in [DOMAIN world' -> Signals]
        /\ solve'.power \in [Conductors(world') -> Power] \cup {<<>>}
      BY <2>1, <1>3, <1>4
  <2>4. solve'.call \in {"new", "set", "tick"}
      BY <2>1, <1>1 DEF TypeOK, Running
  <2>5. solve'.call # "new" =>
          /\ instantaneous'.signals \in [DOMAIN world' -> Signals]
          /\ instantaneous'.power \in [Conductors(world') -> Power]
      BY <2>1, <1>4, <1>7 DEF TypeOK
  <2> QED
      BY <1>2, <2>1, <2>2, <2>3, <2>4, <2>5 DEF TypeOK, Running
<1> QED
    BY <1>5, <1>6

\* Throwing a switch keeps the types.
LEMMA SetPoweredTypes ==
    ASSUME TypeOK, NEW p \in DOMAIN world, NEW powered \in BOOLEAN,
           world[p].kind \in SwitchKinds, SetPowered(p, powered)
    PROVE  TypeOK'
<1>0. IsWorld(world) /\ Idle
    BY DEF TypeOK, SetPowered
<1>1. IsWorld(world') /\ DOMAIN world' = DOMAIN world
    BY <1>0, SwitchKeepsCircuit
<1>2. /\ OfKind(world', "repeater") = OfKind(world, "repeater")
      /\ OfKind(world', "torch") = OfKind(world, "torch")
      /\ OfKind(world', "lamp") = OfKind(world, "lamp")
      /\ Conductors(world') = Conductors(world)
      /\ DeviceStates(world') = DeviceStates(world)
      /\ \A q \in DOMAIN world : Delay(world', q) = Delay(world, q)
    BY <1>0, SwitchKeepsPlaces
<1>3. Repeaters' = Repeaters /\ Torches' = Torches /\ Lamps' = Lamps
    BY <1>2 DEF Repeaters, Torches, Lamps
<1>4. /\ tick' = tick /\ devices' = devices /\ queue' = queue /\ sampled' = sampled
      /\ burnout' = burnout /\ lampLit' = lampLit /\ lastPowered' = lastPowered
      /\ offDeadline' = offDeadline /\ failed' = failed /\ instantaneous' = instantaneous
      /\ solve' = Solving(world', devices, "set")
    BY DEF SetPowered
<1>5. \A q \in Repeaters : queue[q] \in [1..Delay(world', q) -> BOOLEAN]
  <2>1. Repeaters \subseteq DOMAIN world /\ \A q \in Repeaters : queue[q] \in [1..Delay(world, q) -> BOOLEAN]
      BY DEF TypeOK, Repeaters, OfKind
  <2> QED
      BY <2>1, <1>2
<1>6. /\ IsWorld(world') /\ tick' \in 0..MaxTicks /\ failed' \in BOOLEAN
      /\ devices' \in DeviceStates(world') /\ DOMAIN queue' = Repeaters'
      /\ \A q \in Repeaters' : queue'[q] \in [1..Delay(world', q) -> BOOLEAN]
      /\ sampled' \in [Repeaters' -> Seq(BOOLEAN)] /\ burnout' \subseteq Torches'
      /\ lampLit' \in [Lamps' -> BOOLEAN] /\ lastPowered' \in [Lamps' -> Int]
      /\ DOMAIN offDeadline' \subseteq Lamps'
    BY <1>1, <1>2, <1>3, <1>4, <1>5 DEF TypeOK
<1>7. /\ solve'.call = "set" /\ solve'.iteration = 1 /\ solve'.power = <<>>
      /\ solve'.signals = FirstSignals(world', devices)
    BY <1>4 DEF Solving
<1>8. FirstSignals(world', devices) \in [DOMAIN world' -> Signals]
    BY <1>1, <1>4, <1>6, FirstIteration
<1>9. solve'.iteration \in 1..MaxIterations /\ ~failed'
    BY <1>0, <1>4, <1>7, SimulatorAssumption DEF Idle
<1>10. /\ instantaneous'.signals \in [DOMAIN world' -> Signals]
       /\ instantaneous'.power \in [Conductors(world') -> Power]
    BY <1>0, <1>1, <1>2, <1>4, IdleIsSolved
<1> QED
    BY <1>6, <1>7, <1>8, <1>9, <1>10 DEF TypeOK, Running

\* A tick keeps the types.
LEMMA AdvanceTickTypes ==
    ASSUME TypeOK, AdvanceTick
    PROVE  TypeOK'
<1>1. Idle /\ tick < MaxTicks
    BY DEF AdvanceTick
<1>2. /\ world' = world /\ tick' = tick + 1 /\ devices' = NextDevices
      /\ queue' = [p \in Repeaters |-> NextQueue(p)]
      /\ sampled' = [p \in Repeaters |-> IF Locked(p) THEN sampled[p] ELSE Append(sampled[p], Requested(p))]
      /\ solve' = Solving(world, NextDevices, "tick")
      /\ lampLit' = lampLit /\ lastPowered' = lastPowered
      /\ offDeadline' = offDeadline /\ failed' = failed /\ instantaneous' = instantaneous
    BY DEF AdvanceTick
<1>3. devices' \in DeviceStates(world') /\ IsWorld(world')
    BY <1>1, <1>2, DevicesAreTyped DEF TypeOK
<1>4. tick' \in 0..MaxTicks
    BY <1>1, <1>2, SimulatorAssumption DEF TypeOK
<1>5. DOMAIN queue' = Repeaters /\ \A p \in Repeaters : queue'[p] \in [1..Delay(world', p) -> BOOLEAN]
    BY <1>2, QueueIsTyped
<1>6. sampled' \in [Repeaters -> Seq(BOOLEAN)]
  <2>1. sampled \in [Repeaters -> Seq(BOOLEAN)]
      BY DEF TypeOK
  <2>2. \A p \in Repeaters : Requested(p) \in BOOLEAN
      BY DEF Requested
  <2>3. \A p \in Repeaters : Append(sampled[p], Requested(p)) \in Seq(BOOLEAN)
      BY <2>1, <2>2
  <2> QED
      BY <2>1, <2>3, <1>2
<1>7. burnout' \subseteq Torches
    BY DEF AdvanceTick, TypeOK
<1>8. Repeaters' = Repeaters /\ Torches' = Torches /\ Lamps' = Lamps
    BY <1>2 DEF Repeaters, Torches, Lamps
<1>9. /\ lampLit' \in [Lamps' -> BOOLEAN] /\ lastPowered' \in [Lamps' -> Int]
      /\ DOMAIN offDeadline' \subseteq Lamps'
    BY <1>2, <1>8 DEF TypeOK
<1>10. /\ solve'.call = "tick" /\ solve'.iteration = 1 /\ solve'.power = <<>>
       /\ solve'.signals = FirstSignals(world', devices')
    BY <1>2 DEF Solving
<1>11. solve'.signals \in [DOMAIN world' -> Signals]
    BY <1>3, <1>10, FirstIteration
<1>12. solve'.iteration \in 1..MaxIterations /\ ~failed'
    BY <1>1, <1>2, <1>10, SimulatorAssumption DEF Idle
<1>14. failed' \in BOOLEAN
    BY <1>2 DEF TypeOK
<1>13. /\ instantaneous'.signals \in [DOMAIN world' -> Signals]
       /\ instantaneous'.power \in [Conductors(world') -> Power]
    BY <1>1, <1>2, IdleIsSolved
<1> QED
    BY <1>3, <1>4, <1>5, <1>6, <1>7, <1>8, <1>9, <1>10, <1>11, <1>12, <1>13, <1>14 DEF TypeOK, Running

\* Stuttering keeps the types.
LEMMA StutterTypes ==
    ASSUME TypeOK, UNCHANGED vars
    PROVE  TypeOK'
<1>1. /\ world' = world /\ tick' = tick /\ devices' = devices /\ queue' = queue /\ sampled' = sampled
      /\ burnout' = burnout /\ lampLit' = lampLit /\ lastPowered' = lastPowered
      /\ offDeadline' = offDeadline /\ failed' = failed /\ instantaneous' = instantaneous
      /\ solve' = solve
    BY DEF vars, circuit
<1> QED
    BY <1>1 DEF TypeOK, Repeaters, Torches, Lamps, Running

\* Every step keeps the types.
LEMMA StepTypes ==
    ASSUME TypeOK, [Next]_vars
    PROVE  TypeOK'
<1>1. CASE Iterate
    BY <1>1, ConvergedTypes, IteratedTypes DEF Iterate
<1>2. ASSUME NEW p \in DOMAIN world, NEW powered \in BOOLEAN,
             world[p].kind \in SwitchKinds, SetPowered(p, powered)
      PROVE  TypeOK'
    BY <1>2, SetPoweredTypes
<1>3. CASE AdvanceTick
    BY <1>3, AdvanceTickTypes
<1>4. CASE UNCHANGED vars
    BY <1>4, StutterTypes
<1> QED
    BY <1>1, <1>2, <1>3, <1>4 DEF Next

\* Every level is between 0 and 15, every device has its state and every
\* queue its length, in every circuit.
THEOREM TypesHold == Spec => []TypeOK
<1>1. Init => TypeOK
    BY InitTypes
<1>2. TypeOK /\ [Next]_vars => TypeOK'
    BY StepTypes
<1> QED
    BY <1>1, <1>2, PTL DEF Spec

-----------------------------------------------------------------------------
(* The solver settles.                                                     *)

\* After the first iteration the levels have risen from those of the
\* iteration before, and a level that changed in iteration k - 1 is at most
\* 17 - k: from iteration 17 on nothing changes any more.
Rising ==
    \E prev \in [DOMAIN world -> Signals] :
        /\ solve.signals = After(world, devices, prev)
        /\ solve.power = PoweredBlocks(world, devices, prev)
        /\ \A p \in DOMAIN world :
              /\ prev[p] <= solve.signals[p]
              /\ prev[p] # solve.signals[p] => solve.signals[p] <= MaxSignal + 2 - solve.iteration

SolveInv ==
    Running => \/ solve.iteration = 1 /\ solve.signals = FirstSignals(world, devices)
               \/ Rising

\* The loop enters its second iteration, or a later one.
LEMMA IteratedRises ==
    ASSUME TypeOK, SolveInv, Running, solve.iteration # MaxIterations, Iterate, Iterated
    PROVE  Rising'
<1>1. /\ IsWorld(world) /\ devices \in DeviceStates(world) /\ solve.iteration \in Int
      /\ solve.signals \in [DOMAIN world -> Signals]
    BY DEF TypeOK
<1>2. /\ world' = world /\ devices' = devices /\ solve'.iteration = solve.iteration + 1
      /\ solve'.signals = NextLevels /\ solve'.power = NextPower
    BY DEF Iterate, Iterated, circuit
<1>3. /\ NextLevels = After(world, devices, solve.signals)
      /\ NextPower = PoweredBlocks(world, devices, solve.signals)
    BY DEF NextLevels, NextPower, After
<1>4. \A p \in DOMAIN world :
         /\ solve.signals[p] <= NextLevels[p]
         /\ solve.signals[p] # NextLevels[p] => NextLevels[p] <= MaxSignal + 1 - solve.iteration
  <2>1. CASE solve.iteration = 1 /\ solve.signals = FirstSignals(world, devices)
    <3>1. \A p \in DOMAIN world : solve.signals[p] <= NextLevels[p] /\ NextLevels[p] <= MaxSignal
        BY <2>1, <1>1, <1>3, FirstIteration
    <3> QED
        BY <3>1, <2>1 DEF MaxSignal
  <2>2. CASE Rising
    <3> DEFINE m == MaxSignal + 2 - solve.iteration
               t == solve.signals
    <3>1. PICK prev \in [DOMAIN world -> Signals] :
             /\ t = After(world, devices, prev)
             /\ \A p \in DOMAIN world : prev[p] <= t[p] /\ (prev[p] # t[p] => t[p] <= m)
        BY <2>2 DEF Rising
    <3>2. m \in Int /\ t \in [DOMAIN world -> Signals]
        BY <1>1 DEF MaxSignal
    <3> HIDE DEF m, t
    <3>3. \A p \in DOMAIN world :
             /\ t[p] <= After(world, devices, t)[p]
             /\ t[p] # After(world, devices, t)[p] => After(world, devices, t)[p] <= m - 1
        BY <3>1, <3>2, <1>1, ProgressOfIteration
    <3>4. m - 1 = MaxSignal + 1 - solve.iteration
        BY <1>1 DEF m, MaxSignal
    <3> QED
        BY <3>3, <3>4, <1>3 DEF t
  <2> QED
      BY <2>1, <2>2 DEF SolveInv
<1>5. MaxSignal + 2 - solve'.iteration = MaxSignal + 1 - solve.iteration
    BY <1>1, <1>2 DEF MaxSignal
<1>6. \A p \in DOMAIN world' :
         /\ solve.signals[p] <= solve'.signals[p]
         /\ solve.signals[p] # solve'.signals[p] => solve'.signals[p] <= MaxSignal + 2 - solve'.iteration
    BY <1>2, <1>4, <1>5
<1>7. /\ solve.signals \in [DOMAIN world' -> Signals]
      /\ solve'.signals = After(world', devices', solve.signals)
      /\ solve'.power = PoweredBlocks(world', devices', solve.signals)
    BY <1>1, <1>2, <1>3
<1> QED
    BY <1>6, <1>7 DEF Rising

\* In iteration 17 or later the loop finds nothing changed.
LEMMA LateIterationConverges ==
    ASSUME TypeOK, SolveInv, Running, solve.iteration >= MaxSignal + 2
    PROVE  NextLevels = solve.signals /\ NextPower = solve.power
<1>1. Rising /\ solve.iteration \in Int /\ solve.signals \in [DOMAIN world -> Signals]
    BY DEF SolveInv, TypeOK, MaxSignal
<1>2. PICK prev \in [DOMAIN world -> Signals] :
         /\ solve.signals = After(world, devices, prev)
         /\ solve.power = PoweredBlocks(world, devices, prev)
         /\ \A p \in DOMAIN world :
               /\ prev[p] <= solve.signals[p]
               /\ prev[p] # solve.signals[p] => solve.signals[p] <= MaxSignal + 2 - solve.iteration
    BY <1>1 DEF Rising
<1>3. \A p \in DOMAIN world : prev[p] = solve.signals[p]
    BY <1>1, <1>2 DEF Signals, MaxSignal
<1>4. prev = solve.signals
    BY <1>1, <1>3
<1> QED
    BY <1>2, <1>4 DEF NextLevels, NextPower, After

\* A new simulator is in the first iteration.
LEMMA InitSolves ==
    ASSUME Init
    PROVE  SolveInv
    BY DEF Init, Solving, SolveInv

\* Every step leaves the loop in its first iteration, or rising.
LEMMA StepSolves ==
    ASSUME TypeOK, SolveInv, [Next]_vars
    PROVE  SolveInv'
<1>1. CASE Iterate
  <2>1. CASE Converged
    <3>1. ~Running'
        BY <2>1 DEF Converged, NotSolving, Running
    <3> QED
        BY <3>1 DEF SolveInv
  <2>2. CASE Iterated /\ solve.iteration = MaxIterations
    <3>1. ~Running'
        BY <2>2 DEF Iterated, NotSolving, Running
    <3> QED
        BY <3>1 DEF SolveInv
  <2>3. CASE Iterated /\ solve.iteration # MaxIterations
    <3>1. Rising'
        BY <1>1, <2>3, IteratedRises DEF Iterate
    <3> QED
        BY <3>1 DEF SolveInv
  <2> QED
      BY <1>1, <2>1, <2>2, <2>3 DEF Iterate
<1>2. ASSUME NEW p \in DOMAIN world, NEW powered \in BOOLEAN, SetPowered(p, powered)
      PROVE  SolveInv'
  <2>1. solve' = Solving(world', devices', "set")
      BY <1>2 DEF SetPowered
  <2> QED
      BY <2>1 DEF Solving, SolveInv
<1>3. CASE AdvanceTick
  <2>1. solve' = Solving(world', devices', "tick")
      BY <1>3 DEF AdvanceTick
  <2> QED
      BY <2>1 DEF Solving, SolveInv
<1>4. CASE UNCHANGED vars
  <2>1. world' = world /\ devices' = devices /\ solve' = solve
      BY <1>4 DEF vars, circuit
  <2> QED
      BY <2>1 DEF SolveInv, Rising, Running
<1> QED
    BY <1>1, <1>2, <1>3, <1>4 DEF Next

\* No step exhausts the iterations.
LEMMA StepDoesNotFail ==
    ASSUME TypeOK, SolveInv, NeverFails, MaxIterations >= MaxSignal + 2, [Next]_vars
    PROVE  NeverFails'
<1>1. CASE Iterate
  <2>1. CASE Converged
      BY <2>1 DEF Converged, NeverFails
  <2>2. CASE Iterated
    <3>1. solve.iteration = MaxIterations => solve.iteration >= MaxSignal + 2
        OBVIOUS
    <3>2. CASE solve.iteration = MaxIterations
      <4>1. NextLevels = solve.signals /\ NextPower = solve.power
          BY <3>1, <3>2, <1>1, LateIterationConverges DEF Iterate
      <4>2. Converged
          BY <4>1, <1>1 DEF Iterate
      <4> QED
          BY <4>2 DEF Converged, NeverFails
    <3>3. CASE solve.iteration # MaxIterations
        BY <2>2, <3>3 DEF Iterated, NeverFails
    <3> QED
        BY <3>2, <3>3
  <2> QED
      BY <1>1, <2>1, <2>2 DEF Iterate
<1>2. ASSUME NEW p \in DOMAIN world, NEW powered \in BOOLEAN, SetPowered(p, powered)
      PROVE  NeverFails'
    BY <1>2 DEF SetPowered, NeverFails
<1>3. CASE AdvanceTick
    BY <1>3 DEF AdvanceTick, NeverFails
<1>4. CASE UNCHANGED vars
    BY <1>4 DEF vars, NeverFails
<1> QED
    BY <1>1, <1>2, <1>3, <1>4 DEF Next

\* The solver needs 17 iterations at most, whatever the circuit and however
\* its devices feed each other: with the 128 of the code no call returns the
\* error that the network did not converge.
THEOREM SolverSettles ==
    ASSUME MaxIterations >= MaxSignal + 2
    PROVE  Spec => []NeverFails
<1>1. Init => TypeOK /\ SolveInv /\ NeverFails
    BY InitTypes, InitSolves DEF Init, NeverFails
<1>2. TypeOK /\ SolveInv /\ NeverFails /\ [Next]_vars => (TypeOK /\ SolveInv /\ NeverFails)'
    BY StepTypes, StepSolves, StepDoesNotFail
<1> QED
    BY <1>1, <1>2, PTL DEF Spec

-----------------------------------------------------------------------------
(* The shortest way.  Levels that an iteration leaves as they are come     *)
(* from the drivers: a level that no driver gave a wire came from a higher *)
(* one, and levels end at 15.                                              *)

\* What is said of some natural number is true of a least one.
LEMMA LeastNatural ==
    ASSUME NEW S, S \subseteq Nat, S # {}
    PROVE  \E n \in S : \A m \in S : n <= m
<1> DEFINE less == OpToRel(<, Nat)
<1>1. \E n \in S : \A m \in S : <<m, n>> \notin less
  <2> HIDE DEF less
  <2>1. IsWellFoundedOn(less, Nat)
    BY NatLessThanWellFounded DEF less
  <2> QED
    BY <2>1, WFMin, Zenon
<1>2. \A m, n \in Nat : <<m, n>> \notin less => n <= m
  BY DEF OpToRel
<1> QED
  BY <1>1, <1>2

\* Counting up from 0.
LEMMA CountingUp ==
    ASSUME NEW k \in Nat, NEW S, 0 \in S, \A n \in 0..k : n \in S /\ n < k => n + 1 \in S
    PROVE  0..k \subseteq S
<1> SUFFICES ASSUME (0..k) \ S # {}
             PROVE  FALSE
    OBVIOUS
<1>1. PICK n \in (0..k) \ S : \A m \in (0..k) \ S : n <= m
  <2>1. (0..k) \ S \subseteq Nat
    OBVIOUS
  <2> QED
    BY <2>1, LeastNatural
<1>2. n - 1 \in 0..k /\ n - 1 < k /\ ~(n <= n - 1) /\ (n - 1) + 1 = n
  BY <1>1
<1> QED
  BY <1>1, <1>2

\* Going upstream transfer by transfer is well defined.
LEMMA UpstreamIsDefined ==
    ASSUME NEW feeders, NEW d
    PROVE  /\ Upstream(feeders, d)[0] = {d}
           /\ \A n \in 1..MaxSignal :
                Upstream(feeders, d)[n] = UNION {feeders[e] : e \in Upstream(feeders, d)[n - 1]}
<1> DEFINE next(ends) == UNION {feeders[e] : e \in ends}
           starts(up, k) == up = [n \in 0..k |-> IF n = 0 THEN {d} ELSE next(up[n - 1])]
           S == {k \in Nat : \E up : starts(up, k)}
<1>1. 0 \in S
  <2>1. starts([n \in 0..0 |-> {d}], 0)
    OBVIOUS
  <2> QED
    BY <2>1
<1>2. ASSUME NEW k \in 0..MaxSignal, k \in S
      PROVE  k + 1 \in S
  <2>1. PICK up : up = [n \in 0..k |-> IF n = 0 THEN {d} ELSE next(up[n - 1])]
    BY <1>2
  <2>2. k \in Nat
    BY DEF MaxSignal
  <2> DEFINE longer == [n \in 0..(k + 1) |-> IF n = k + 1 THEN next(up[k]) ELSE up[n]]
  <2> HIDE DEF next
  <2>3. \A n \in 0..k : longer[n] = up[n]
    BY <2>2
  <2>4. longer[k + 1] = next(longer[k])
    BY <2>2, <2>3
  <2>5. \A n \in 0..(k + 1) : longer[n] = IF n = 0 THEN {d} ELSE next(longer[n - 1])
    <3> SUFFICES ASSUME NEW n \in 0..(k + 1)
                 PROVE  longer[n] = IF n = 0 THEN {d} ELSE next(longer[n - 1])
      OBVIOUS
    <3> HIDE DEF longer
    <3>1. CASE n = k + 1
      BY <3>1, <2>2, <2>4
    <3>2. CASE n = 0
      BY <3>2, <2>1, <2>2, <2>3
    <3>3. CASE n \in 1..k
      <4>1. n - 1 \in 0..k /\ n \in 0..k
        BY <3>3, <2>2
      <4>2. up[n] = next(up[n - 1])
        <5>1. n # 0
          BY <3>3, <2>2
        <5>2. up[n] = IF n = 0 THEN {d} ELSE next(up[n - 1])
          BY <4>1, <2>1, Zenon
        <5> QED
          BY <5>1, <5>2
      <4> QED
        BY <3>3, <4>1, <4>2, <2>3
    <3> QED
      BY <3>1, <3>2, <3>3, <2>2
  <2>6. longer = [n \in 0..(k + 1) |-> IF n = 0 THEN {d} ELSE next(longer[n - 1])]
    <3> DEFINE g == [n \in 0..(k + 1) |-> IF n = 0 THEN {d} ELSE next(longer[n - 1])]
    <3>1. DOMAIN longer = 0..(k + 1)
      OBVIOUS
    <3>2. longer = [n \in 0..(k + 1) |-> longer[n]]
      OBVIOUS
    <3> HIDE DEF longer
    <3> QED
      BY <3>2, <2>5
  <2>7. \E u : starts(u, k + 1)
    BY <2>6
  <2> QED
    BY <2>2, <2>7
<1>3. MaxSignal \in S
  <2> HIDE DEF S
  <2>1. MaxSignal \in Nat
    BY DEF MaxSignal
  <2> QED
    BY <1>1, <1>2, <2>1, CountingUp
<1>4. PICK up : up = Upstream(feeders, d)
  OBVIOUS
<1>5. up = [n \in 0..MaxSignal |-> IF n = 0 THEN {d} ELSE UNION {feeders[e] : e \in up[n - 1]}]
  BY <1>3, <1>4, Zenon DEF Upstream
<1>6. up[0] = {d} /\ \A n \in 1..MaxSignal : up[n] = UNION {feeders[e] : e \in up[n - 1]}
  BY <1>5 DEF MaxSignal
<1> QED
  BY <1>4, <1>6

\* Wires are fed by wires.
LEMMA OnlyWiresFeed ==
    ASSUME NEW W, NEW d
    PROVE  Feeders(W, d) \subseteq Wires(W)
BY DEF Feeders, DustTransmits, KindAt, Wires, OfKind

\* A wire that an iteration leaves as it is has at least what drives it and
\* one less than what feeds it, and unless it is 0 it has one of these.
LEMMA SettledWire ==
    ASSUME NEW W, IsWorld(W), NEW dev \in DeviceStates(W), NEW s \in [DOMAIN W -> Signals],
           s = After(W, dev, s), NEW d \in Wires(W), NEW level,
           level = Best({DirectLevelIntoDust(W, dev, PoweredBlocks(W, dev, s), d, n) : n \in Drivers(W, d)})
    PROVE  /\ s[d] \in Signals /\ level \in Signals /\ level <= s[d]
           /\ \A o \in Feeders(W, d) : s[o] \in Signals /\ s[o] <= s[d] + 1
           /\ \/ s[d] = 0 \/ s[d] = level
              \/ \E o \in Feeders(W, d) : s[o] = s[d] + 1
<1> DEFINE fixed == {DirectLevelIntoDust(W, dev, PoweredBlocks(W, dev, s), d, n) : n \in Drivers(W, d)}
           fed == {SaturatingSub(s[o], 1) : o \in Feeders(W, d)}
<1>1. Offers(W, dev, s, d) = fed \cup fixed
  BY DEF Offers, Offered
<1>2. s[d] = Best(fed \cup fixed) /\ fed \cup fixed \in SUBSET Signals
  <2>1. After(W, dev, s)[d] = Best(Offers(W, dev, s, d)) /\ Offers(W, dev, s, d) \in SUBSET Signals
    BY IterationIsTyped
  <2>2. s[d] = After(W, dev, s)[d]
    OBVIOUS
  <2> HIDE DEF fed, fixed
  <2> QED
    BY <2>1, <2>2, <1>1
<1>3. /\ s[d] \in fed \cup fixed \cup {0} /\ s[d] \in Signals
      /\ \A x \in fed \cup fixed : x <= s[d]
  BY <1>2, BestOfLevels
<1>4. level \in fixed \cup {0} /\ level \in Signals /\ \A x \in fixed : x <= level
  <2>1. fixed \in SUBSET Signals
    BY <1>2
  <2> QED
    BY <2>1, BestOfLevels
<1>5. \A o \in Feeders(W, d) : s[o] \in Signals /\ SaturatingSub(s[o], 1) \in fed
  BY FeedersAreWires
<1> HIDE DEF fed, fixed
<1>6. level <= s[d]
  BY <1>3, <1>4 DEF Signals, MaxSignal
<1>7. \A o \in Feeders(W, d) : s[o] <= s[d] + 1
  BY <1>3, <1>5 DEF SaturatingSub, Signals, MaxSignal
<1>8. ASSUME s[d] \in fixed
      PROVE  s[d] = level
  BY <1>8, <1>3, <1>4, <1>6 DEF Signals, MaxSignal
<1>9. ASSUME s[d] \in fed, s[d] # 0
      PROVE  \E o \in Feeders(W, d) : s[o] = s[d] + 1
  <2>1. PICK o \in Feeders(W, d) : s[d] = SaturatingSub(s[o], 1)
    BY <1>9 DEF fed
  <2>2. s[o] \in Signals
    BY <1>5
  <2> QED
    BY <2>1, <2>2, <1>9 DEF SaturatingSub, Signals, MaxSignal
<1> QED
  BY <1>3, <1>4, <1>5, <1>6, <1>7, <1>8, <1>9

\* What drives wire d, what feeds wires, and what arrives from upstream.
DriveOf(W, dev, s, d) ==
    Best({DirectLevelIntoDust(W, dev, PoweredBlocks(W, dev, s), d, n) : n \in Drivers(W, d)})
FeedersOf(W, ends) == UNION {Feeders(W, e) : e \in ends}
Arriving(driven, up) == Best(UNION {{SaturatingSub(driven[e], n) : e \in up[n]} : n \in 0..MaxSignal})

\* So it has what its best driver gives, less one for every transfer.
LEMMA SettledLevel ==
    ASSUME NEW W, IsWorld(W), NEW dev \in DeviceStates(W), NEW s \in [DOMAIN W -> Signals],
           s = After(W, dev, s), NEW driven,
           \A e \in Wires(W) : driven[e] = DriveOf(W, dev, s, e),
           NEW d \in Wires(W), NEW up, up[0] = {d},
           \A n \in 1..MaxSignal : up[n] = FeedersOf(W, up[n - 1])
    PROVE  s[d] = Arriving(driven, up)
<1> DEFINE wires == Wires(W)
           T == UNION {{SaturatingSub(driven[e], n) : e \in up[n]} : n \in 0..MaxSignal}
<1>0. /\ MaxSignal \in Nat /\ MaxSignal = 15
      /\ \A n \in 0..MaxSignal : n < MaxSignal => n + 1 \in 1..MaxSignal /\ (n + 1) - 1 = n
  BY DEF MaxSignal
<1>1. ASSUME NEW e \in wires
      PROVE  /\ s[e] \in Signals /\ driven[e] \in Signals /\ driven[e] <= s[e]
             /\ \A o \in Feeders(W, e) : o \in wires /\ s[o] <= s[e] + 1
             /\ \/ s[e] = 0 \/ s[e] = driven[e]
                \/ \E o \in Feeders(W, e) : s[o] = s[e] + 1
  <2>1. PICK level : level = driven[e]
    OBVIOUS
  <2>2. level = Best({DirectLevelIntoDust(W, dev, PoweredBlocks(W, dev, s), e, n) : n \in Drivers(W, e)})
    BY <2>1 DEF DriveOf
  <2>3. /\ s[e] \in Signals /\ level \in Signals /\ level <= s[e]
        /\ \A o \in Feeders(W, e) : s[o] \in Signals /\ s[o] <= s[e] + 1
        /\ \/ s[e] = 0 \/ s[e] = level
           \/ \E o \in Feeders(W, e) : s[o] = s[e] + 1
    BY <2>2, SettledWire
  <2> QED
    BY <2>1, <2>3, OnlyWiresFeed
<1>2. \A n \in 0..MaxSignal : n < MaxSignal => up[n + 1] = UNION {Feeders(W, e) : e \in up[n]}
  BY <1>0 DEF FeedersOf
<1>3. \A n \in 0..MaxSignal : \A e \in up[n] : e \in wires /\ s[e] <= s[d] + n
  <2> DEFINE S == {n \in 0..MaxSignal : \A e \in up[n] : e \in wires /\ s[e] <= s[d] + n}
  <2>1. 0 \in S
    BY <1>0, <1>1 DEF Signals
  <2>2. ASSUME NEW n \in 0..MaxSignal, n \in S, n < MaxSignal
        PROVE  n + 1 \in S
    <3>1. ASSUME NEW o \in up[n + 1]
          PROVE  o \in wires /\ s[o] <= s[d] + (n + 1)
      <4>1. PICK e \in up[n] : o \in Feeders(W, e)
        BY <3>1, <1>2, <2>2
      <4>2. e \in wires /\ s[e] <= s[d] + n
        BY <4>1, <2>2
      <4>3. o \in wires /\ s[o] <= s[e] + 1
        BY <4>1, <4>2, <1>1
      <4>4. s[o] \in Int /\ s[e] \in Int /\ s[d] \in Int /\ n \in Int
        BY <4>2, <4>3, <1>1, <2>2 DEF Signals
      <4> QED
        BY <4>2, <4>3, <4>4
    <3> QED
      BY <3>1, <2>2, <1>0
  <2> HIDE DEF S
  <2>3. 0..MaxSignal \subseteq S
    BY <2>1, <2>2, <1>0, CountingUp
  <2> QED
    BY <2>3 DEF S
<1>4. ASSUME s[d] # 0
      PROVE  \E m \in 0..MaxSignal : \E e \in up[m] : driven[e] = s[d] + m
  <2> DEFINE found == \E m \in 0..MaxSignal : \E e \in up[m] : driven[e] = s[d] + m
             S == {n \in 0..MaxSignal : found \/ \E e \in up[n] : s[e] = s[d] + n}
  <2>1. 0 \in S
    BY <1>0, <1>1 DEF Signals
  <2>2. ASSUME NEW n \in 0..MaxSignal, n \in S, n < MaxSignal
        PROVE  n + 1 \in S
    <3>1. CASE found
      BY <3>1, <2>2, <1>0
    <3>2. ASSUME NEW e \in up[n], s[e] = s[d] + n
          PROVE  n + 1 \in S
      <4>1. e \in wires /\ s[d] \in Signals
        BY <1>1, <1>3
      <4>2. s[e] # 0
        BY <4>1, <3>2, <1>4, <2>2 DEF Signals, MaxSignal
      <4>3. CASE s[e] = driven[e]
        <5>1. found
          BY <4>3, <3>2, <2>2
        <5> QED
          BY <5>1, <2>2, <1>0
      <4>4. ASSUME NEW o \in Feeders(W, e), s[o] = s[e] + 1
            PROVE  n + 1 \in S
        <5>1. o \in up[n + 1]
          BY <1>2, <2>2, <3>2
        <5>2. s[o] = s[d] + (n + 1)
          BY <4>1, <4>4, <3>2, <2>2 DEF Signals
        <5> QED
          BY <5>1, <5>2, <2>2, <1>0
      <4> QED
        BY <4>1, <4>2, <4>3, <4>4, <1>1
    <3> QED
      BY <3>1, <3>2, <2>2
  <2>3. MaxSignal \in S
    <3> HIDE DEF S
    <3> QED
      BY <2>1, <2>2, <1>0, CountingUp
  <2>4. ASSUME NEW e \in up[MaxSignal], s[e] = s[d] + MaxSignal
        PROVE  FALSE
    <3>1. e \in wires
      BY <1>0, <1>3
    <3>2. s[e] \in 0..15 /\ s[d] \in 0..15
      BY <3>1, <1>1 DEF Signals, MaxSignal
    <3> QED
      BY <3>2, <2>4, <1>0, <1>4
  <2> QED
    BY <2>3, <2>4
<1>5. ASSUME NEW n \in 0..MaxSignal, NEW e \in up[n]
      PROVE  SaturatingSub(driven[e], n) \in Signals /\ SaturatingSub(driven[e], n) <= s[d]
  <2>1. e \in wires /\ s[e] <= s[d] + n
    BY <1>3
  <2>2. driven[e] \in 0..15 /\ s[e] \in 0..15 /\ s[d] \in 0..15 /\ driven[e] <= s[e]
    BY <2>1, <1>1 DEF Signals, MaxSignal
  <2>3. n \in 0..15
    BY <1>0
  <2>4. CASE driven[e] > n
    <3>1. SaturatingSub(driven[e], n) = driven[e] - n
      BY <2>4 DEF SaturatingSub
    <3> HIDE DEF wires, T
    <3>4. PICK x, y, z : x = driven[e] /\ y = s[e] /\ z = s[d]
      OBVIOUS
    <3>5. /\ x \in 0..15 /\ y \in 0..15 /\ z \in 0..15
          /\ x <= y /\ y <= z + n /\ x > n
      BY <3>4, <2>1, <2>2, <2>4
    <3>2. x - n \in 0..15 /\ x - n <= z
      BY <3>5, <2>3
    <3> QED
      BY <3>1, <3>2, <3>4 DEF Signals, MaxSignal
  <2>5. CASE ~(driven[e] > n)
    BY <2>2, <2>5 DEF SaturatingSub, Signals, MaxSignal
  <2> QED
    BY <2>4, <2>5
<1>6. T \in SUBSET Signals /\ \A x \in T : x <= s[d]
  BY <1>5
<1>7. s[d] # 0 => s[d] \in T
  <2> SUFFICES ASSUME s[d] # 0
               PROVE  s[d] \in T
    OBVIOUS
  <2>1. PICK m \in 0..MaxSignal : \E e \in up[m] : driven[e] = s[d] + m
    BY <1>4
  <2>2. PICK e \in up[m] : driven[e] = s[d] + m
    BY <2>1
  <2>3. SaturatingSub(driven[e], m) = s[d]
    BY <2>2, <1>0, <1>1 DEF SaturatingSub, Signals
  <2> QED
    BY <2>2, <2>3
<1>8. /\ Best(T) \in T \cup {0} /\ Best(T) \in Signals
      /\ \A x \in T : x <= Best(T)
  BY <1>6, BestOfLevels
<1>9. s[d] \in Signals
  BY <1>1
<1> HIDE DEF T
<1>10. s[d] = Best(T)
  BY <1>6, <1>7, <1>8, <1>9 DEF Signals, MaxSignal
<1> QED
  BY <1>10 DEF T, Arriving

\* Between two calls nothing would change in another iteration.
SettledInv ==
    Idle => /\ instantaneous.signals = After(world, devices, instantaneous.signals)
            /\ instantaneous.power = PoweredBlocks(world, devices, instantaneous.signals)

\* Every call ends with levels that an iteration leaves as they are.
LEMMA StepSettles ==
    ASSUME TypeOK, SettledInv, [Next]_vars
    PROVE  SettledInv'
<1>1. CASE Iterate
  <2>1. CASE NextLevels = solve.signals /\ NextPower = solve.power
    <3>1. /\ UNCHANGED <<world, devices>>
          /\ instantaneous'.signals = NextLevels /\ instantaneous'.power = NextPower
      BY <1>1, <2>1 DEF Iterate, Converged, circuit
    <3> QED
      BY <2>1, <3>1 DEF SettledInv, NextLevels, NextPower, After
  <2>2. CASE ~(NextLevels = solve.signals /\ NextPower = solve.power)
    <3>1. CASE solve.iteration = MaxIterations
      BY <1>1, <2>2, <3>1 DEF Iterate, Iterated, SettledInv, Idle
    <3>2. CASE solve.iteration # MaxIterations
      <4>1. solve'.call = solve.call /\ solve.call # "none"
        BY <1>1, <2>2, <3>2 DEF Iterate, Iterated, Running
      <4> QED
        BY <4>1 DEF SettledInv, Idle, Running
    <3> QED
      BY <3>1, <3>2
  <2> QED
    BY <2>1, <2>2
<1>2. ASSUME NEW p \in DOMAIN world, NEW powered \in BOOLEAN, SetPowered(p, powered)
      PROVE  SettledInv'
  <2>1. solve'.call = "set"
    BY <1>2 DEF SetPowered, Solving
  <2> QED
    BY <2>1 DEF SettledInv, Idle, Running
<1>3. CASE AdvanceTick
  <2>1. solve'.call = "tick"
    BY <1>3 DEF AdvanceTick, Solving
  <2> QED
    BY <2>1 DEF SettledInv, Idle, Running
<1>4. CASE UNCHANGED vars
  BY <1>4 DEF vars, circuit, SettledInv, Idle, Running
<1> QED
  BY <1>1, <1>2, <1>3, <1>4 DEF Next

\* The levels of a state that an iteration leaves as it is.
LEMMA SettledStateIsShortestWay ==
    ASSUME TypeOK, SettledInv
    PROVE  SettledIsShortestWay
<1> DEFINE wires == Wires(world)
           feeders == [d \in wires |-> Feeders(world, d)]
           driven == [d \in wires |-> Driven(d)]
           s == instantaneous.signals
           power == PoweredBlocks(world, devices, s)
<1> SUFFICES ASSUME Idle
             PROVE  /\ feeders \in [wires -> SUBSET wires]
                    /\ driven \in [wires -> Signals]
                    /\ \A d \in wires :
                         s[d] = Best(UNION {{SaturatingSub(driven[e], n) : e \in Upstream(feeders, d)[n]} :
                                           n \in 0..MaxSignal})
                    /\ instantaneous.power = power
  BY Zenon DEF SettledIsShortestWay
<1>1. /\ IsWorld(world) /\ devices \in DeviceStates(world)
      /\ s \in [DOMAIN world -> Signals] /\ s = After(world, devices, s)
  BY IdleIsSolved DEF TypeOK, SettledInv
<1>2. feeders \in [wires -> SUBSET wires]
  BY OnlyWiresFeed
<1>3. ASSUME NEW d \in wires
      PROVE  driven[d] = Best({DirectLevelIntoDust(world, devices, power, d, n) : n \in Drivers(world, d)})
  <2> DEFINE strong == [q \in Conductors(world) |-> [strong |-> StrongPower(world, devices, q)]]
  <2>1. ASSUME NEW n
        PROVE  DirectLevelIntoDust(world, devices, strong, d, n) = DirectLevelIntoDust(world, devices, power, d, n)
    <3>1. ConductsAt(world, n) => n \in Conductors(world)
      BY DEF ConductsAt, Conductors
    <3>2. n \in Conductors(world) => strong[n].strong = power[n].strong
      BY <1>1, PowerOfBlocks
    <3> HIDE DEF strong, power
    <3> QED
      BY <3>1, <3>2 DEF DirectLevelIntoDust
  <2>2. driven[d] = Best({DirectLevelIntoDust(world, devices, strong, d, n) : n \in Drivers(world, d)})
    BY DEF Driven
  <2>3. {DirectLevelIntoDust(world, devices, strong, d, n) : n \in Drivers(world, d)}
          = {DirectLevelIntoDust(world, devices, power, d, n) : n \in Drivers(world, d)}
    <3> HIDE DEF strong, power
    <3> QED
      BY <2>1
  <2> QED
    BY <2>2, <2>3
<1>4. driven \in [wires -> Signals]
  <2>1. \A d \in wires :
          {DirectLevelIntoDust(world, devices, power, d, n) : n \in Drivers(world, d)} \in SUBSET Signals
    BY <1>1, DriversAreFixed
  <2>2. \A d \in wires : driven[d] \in Signals
    BY <1>3, <2>1, BestOfLevels
  <2> QED
    BY <2>2
<1>5. ASSUME NEW d \in wires
      PROVE  s[d] = Best(UNION {{SaturatingSub(driven[e], n) : e \in Upstream(feeders, d)[n]} : n \in 0..MaxSignal})
  <2>1. PICK up : up = Upstream(feeders, d)
    OBVIOUS
  <2>2. up[0] = {d} /\ \A n \in 1..MaxSignal : up[n] = UNION {feeders[e] : e \in up[n - 1]}
    BY <2>1, UpstreamIsDefined
  <2> DEFINE U == {n \in 0..MaxSignal : up[n] \subseteq wires}
  <2>3. 0..MaxSignal \subseteq U
    <3>1. 0 \in U
      BY <2>2 DEF MaxSignal
    <3>2. ASSUME NEW n \in 0..MaxSignal, n \in U, n < MaxSignal
          PROVE  n + 1 \in U
      <4>1. n + 1 \in 1..MaxSignal /\ (n + 1) - 1 = n /\ n + 1 \in 0..MaxSignal
        BY <3>2 DEF MaxSignal
      <4>2. up[n + 1] = UNION {feeders[e] : e \in up[n]}
        BY <4>1, <2>2
      <4>3. \A e \in up[n] : feeders[e] \subseteq wires
        BY <3>2, <1>2
      <4> QED
        BY <4>1, <4>2, <4>3
    <3>3. MaxSignal \in Nat
      BY DEF MaxSignal
    <3> HIDE DEF U
    <3> QED
      BY <3>1, <3>2, <3>3, CountingUp
  <2>4. \A n \in 1..MaxSignal : up[n] = FeedersOf(world, up[n - 1])
    <3> SUFFICES ASSUME NEW n \in 1..MaxSignal
                 PROVE  up[n] = FeedersOf(world, up[n - 1])
      OBVIOUS
    <3>1. n - 1 \in 0..MaxSignal
      BY DEF MaxSignal
    <3>2. \A e \in up[n - 1] : feeders[e] = Feeders(world, e)
      BY <3>1, <2>3
    <3>3. {feeders[e] : e \in up[n - 1]} = {Feeders(world, e) : e \in up[n - 1]}
      <4> HIDE DEF feeders
      <4> QED
        BY <3>2
    <3> HIDE DEF feeders
    <3> QED
      BY <3>3, <2>2 DEF FeedersOf
  <2>5. \A e \in Wires(world) : driven[e] = DriveOf(world, devices, s, e)
    BY <1>3 DEF DriveOf
  <2>6. s[d] = Arriving(driven, up)
    <3>1. up[0] = {d} /\ d \in Wires(world)
      BY <2>2
    <3> HIDE DEF s, wires, feeders, driven, power, U
    <3> QED
      BY <3>1, <1>1, <2>4, <2>5, SettledLevel
  <2> QED
    BY <2>1, <2>6 DEF Arriving
<1>6. instantaneous.power = power
  BY DEF SettledInv
<1> QED
  BY <1>2, <1>4, <1>5, <1>6

\* solve_instantaneous: whenever no call is running, the levels are those of
\* the shortest ways from the switches and devices as they are now, for every
\* circuit; in particular no level is left of what drove a wire before.
THEOREM SettledAlways == Spec => []SettledIsShortestWay
<1>1. Init => TypeOK /\ SettledInv
  <2>1. Init => SettledInv
    BY DEF Init, SettledInv, Idle, Running, Solving
  <2> QED
    BY <2>1, InitTypes
<1>2. TypeOK /\ SettledInv /\ [Next]_vars => (TypeOK /\ SettledInv)'
  BY StepTypes, StepSettles
<1>3. TypeOK /\ SettledInv => SettledIsShortestWay
  BY SettledStateIsShortestWay
<1> QED
  BY <1>1, <1>2, <1>3, PTL DEF Spec

-----------------------------------------------------------------------------
(* Repeaters.                                                              *)

\* What repeater p has read, beginning with its initial state for every
\* place of its queue.
Read(p, j) == IF j <= Delay(world, p) THEN world[p].powered ELSE sampled[p][j - Delay(world, p)]

\* The queue holds the last readings, the oldest of them put out.
RepeaterInv ==
    \A p \in Repeaters :
        /\ devices.repeater[p] = queue[p][1]
        /\ \A i \in 1..Delay(world, p) : queue[p][i] = Read(p, Len(sampled[p]) + i)

\* The queue of a new repeater holds its initial state.
LEMMA InitRepeaters ==
    ASSUME Init
    PROVE  RepeaterInv
<1>1. IsWorld(world)
    BY InitialDevices DEF Init
<1> SUFFICES ASSUME NEW p \in Repeaters
             PROVE  /\ devices.repeater[p] = queue[p][1]
                    /\ \A i \in 1..Delay(world, p) : queue[p][i] = Read(p, Len(sampled[p]) + i)
    BY DEF RepeaterInv
<1>2. Delay(world, p) \in 1..4
    BY <1>1, DelayIsBounded DEF Repeaters, OfKind
<1>3. /\ queue[p] = [i \in 1..Delay(world, p) |-> devices.repeater[p]]
      /\ sampled[p] = <<>> /\ devices.repeater[p] = world[p].powered
    BY DEF Init, InitiallyLit, Repeaters
<1>4. \A i \in 1..Delay(world, p) : queue[p][i] = devices.repeater[p]
    BY <1>3
<1>5. \A i \in 1..Delay(world, p) : Len(sampled[p]) + i = i /\ i <= Delay(world, p)
    BY <1>2, <1>3
<1>6. 1 \in 1..Delay(world, p)
    BY <1>2
<1> QED
    BY <1>3, <1>4, <1>5, <1>6 DEF Read

\* A tick shifts a queue by one reading, or leaves it if the repeater is locked.
LEMMA TickKeepsRepeaters ==
    ASSUME TypeOK, RepeaterInv, AdvanceTick
    PROVE  RepeaterInv'
<1>1. /\ world' = world /\ devices' = NextDevices
      /\ queue' = [p \in Repeaters |-> NextQueue(p)]
      /\ sampled' = [p \in Repeaters |-> IF Locked(p) THEN sampled[p] ELSE Append(sampled[p], Requested(p))]
    BY DEF AdvanceTick
<1>2. Repeaters' = Repeaters
    BY <1>1 DEF Repeaters
<1> SUFFICES ASSUME NEW p \in Repeaters
             PROVE  /\ devices'.repeater[p] = queue'[p][1]
                    /\ \A i \in 1..Delay(world', p) : queue'[p][i] = Read(p, Len(sampled[p]) + i)'
    BY <1>2 DEF RepeaterInv
<1> DEFINE n == Len(sampled[p])
           d == Delay(world, p)
<1>3. d \in 1..4
  <2>1. IsWorld(world) /\ p \in DOMAIN world
      BY DEF TypeOK, Repeaters, OfKind
  <2> QED
      BY <2>1, DelayIsBounded
<1>4. sampled[p] \in Seq(BOOLEAN) /\ n \in Nat
    BY DEF TypeOK
<1>5. /\ devices.repeater[p] = queue[p][1]
      /\ \A i \in 1..d : queue[p][i] = Read(p, n + i)
    BY DEF RepeaterInv
<1>6. devices'.repeater[p] = NextRepeater(p) /\ queue'[p] = NextQueue(p)
    BY <1>1 DEF NextDevices
<1>7. CASE Locked(p)
  <2>1. queue'[p] = queue[p] /\ devices'.repeater[p] = devices.repeater[p] /\ sampled'[p] = sampled[p]
      BY <1>7, <1>6, <1>1 DEF NextQueue, NextRepeater
  <2>2. \A i \in 1..d : Read(p, n + i)' = Read(p, n + i)
      BY <2>1, <1>1 DEF Read
  <2> QED
      BY <2>1, <2>2, <1>1, <1>5
<1>8. CASE ~Locked(p)
  <2>1. sampled'[p] = Append(sampled[p], Requested(p))
      BY <1>8, <1>1
  <2>2. devices'.repeater[p] = queue'[p][1]
      BY <1>8, <1>6, QueueIsTyped DEF NextRepeater
  <2>3. ASSUME NEW i \in 1..d
        PROVE  queue'[p][i] = Read(p, Len(sampled[p]) + i)'
    <3> DEFINE j == n + 1 + i
    <3>1. Len(sampled'[p]) = n + 1
        BY <2>1, <1>4
    <3>2. Read(p, Len(sampled[p]) + i)' = IF j <= d THEN world[p].powered ELSE sampled'[p][j - d]
        BY <3>1, <1>1 DEF Read
    <3>3. CASE i < d
      <4>1. queue'[p][i] = queue[p][i + 1] /\ i + 1 \in 1..d
        <5>1. i \in 1..(d - 1) /\ i + 1 \in 1..d
            BY <3>3, <1>3
        <5> QED
            BY <5>1, <1>6, <1>8, QueueIsTyped
      <4>2. queue[p][i + 1] = Read(p, n + (i + 1)) /\ n + (i + 1) = j
          BY <4>1, <1>5, <1>4, <1>3
      <4>3. j > d => sampled'[p][j - d] = sampled[p][j - d]
        <5>1. j > d => j - d \in 1..n
            BY <3>3, <1>3, <1>4
        <5> QED
            BY <5>1, <2>1, <1>4
      <4>4. j \in Int /\ d \in Int
          BY <1>3, <1>4
      <4>5. CASE j <= d
          BY <4>1, <4>2, <4>5, <3>2 DEF Read
      <4>6. CASE ~(j <= d)
        <5>1. j > d
            BY <4>4, <4>6
        <5> QED
            BY <5>1, <4>1, <4>2, <4>3, <4>6, <3>2 DEF Read
      <4> QED
          BY <4>5, <4>6
    <3>4. CASE i = d
      <4>1. queue'[p][i] = Requested(p)
          BY <3>4, <1>6, <1>8, QueueIsTyped
      <4>2. ~(j <= d) /\ j - d = n + 1
          BY <3>4, <1>3, <1>4
      <4>3. sampled'[p][n + 1] = Requested(p)
          BY <2>1, <1>4
      <4> QED
          BY <4>1, <4>2, <4>3, <3>2
    <3> QED
        BY <3>3, <3>4, <1>3
  <2> QED
      BY <2>2, <2>3, <1>1
<1> QED
    BY <1>7, <1>8

\* Every step keeps the queues equal to the last readings.
LEMMA StepKeepsRepeaters ==
    ASSUME TypeOK, RepeaterInv, [Next]_vars
    PROVE  RepeaterInv'
<1>1. CASE Iterate
  <2>1. world' = world /\ devices' = devices /\ queue' = queue /\ sampled' = sampled
      BY <1>1 DEF Iterate, circuit
  <2> QED
      BY <2>1 DEF RepeaterInv, Repeaters, Read
<1>2. ASSUME NEW q \in DOMAIN world, NEW powered \in BOOLEAN,
             world[q].kind \in SwitchKinds, SetPowered(q, powered)
      PROVE  RepeaterInv'
  <2>1. devices' = devices /\ queue' = queue /\ sampled' = sampled
      BY <1>2 DEF SetPowered
  <2>2. IsWorld(world)
      BY DEF TypeOK
  <2>3. Repeaters' = Repeaters
    <3>1. OfKind(world', "repeater") = OfKind(world, "repeater")
        BY <1>2, <2>2, SwitchKeepsPlaces
    <3> QED
        BY <3>1 DEF Repeaters
  <2>4. \A p \in Repeaters : Delay(world', p) = Delay(world, p) /\ world'[p] = world[p]
    <3>1. \A p \in Repeaters : p \in DOMAIN world /\ world[p].kind \notin SwitchKinds
        BY DEF Repeaters, OfKind, SwitchKinds
    <3>2. \A p \in DOMAIN world : Delay(world', p) = Delay(world, p)
        BY <1>2, <2>2, SwitchKeepsPlaces
    <3>3. \A p \in DOMAIN world : world[p].kind \notin SwitchKinds => world'[p] = world[p]
        BY <1>2, <2>2, SwitchKeepsCircuit
    <3> QED
        BY <3>1, <3>2, <3>3
  <2>5. \A p \in Repeaters : \A j : Read(p, j)' = Read(p, j)
      BY <2>1, <2>4 DEF Read
  <2> QED
      BY <2>1, <2>3, <2>4, <2>5 DEF RepeaterInv
<1>3. CASE AdvanceTick
    BY <1>3, TickKeepsRepeaters
<1>4. CASE UNCHANGED vars
  <2>1. world' = world /\ devices' = devices /\ queue' = queue /\ sampled' = sampled
      BY <1>4 DEF vars, circuit
  <2> QED
      BY <2>1 DEF RepeaterInv, Repeaters, Read
<1> QED
    BY <1>1, <1>2, <1>3, <1>4 DEF Next

\* What leaves the queue was read its length ago.
LEMMA QueueIsDelay ==
    ASSUME TypeOK, RepeaterInv
    PROVE  RepeaterDelays
<1> SUFFICES ASSUME NEW p \in Repeaters
             PROVE  devices.repeater[p] = IF Len(sampled[p]) < Delay(world, p) THEN world[p].powered
                                          ELSE sampled[p][Len(sampled[p]) - Delay(world, p) + 1]
    BY DEF RepeaterDelays
<1>1. Delay(world, p) \in 1..4
  <2>1. IsWorld(world) /\ p \in DOMAIN world
      BY DEF TypeOK, Repeaters, OfKind
  <2> QED
      BY <2>1, DelayIsBounded
<1>2. Len(sampled[p]) \in Nat
    BY DEF TypeOK
<1>3. devices.repeater[p] = Read(p, Len(sampled[p]) + 1)
    BY <1>1 DEF RepeaterInv
<1>4. /\ Len(sampled[p]) + 1 <= Delay(world, p) <=> Len(sampled[p]) < Delay(world, p)
      /\ (Len(sampled[p]) + 1) - Delay(world, p) = Len(sampled[p]) - Delay(world, p) + 1
    BY <1>1, <1>2
<1>5. CASE Len(sampled[p]) < Delay(world, p)
    BY <1>3, <1>4, <1>5 DEF Read
<1>6. CASE ~(Len(sampled[p]) < Delay(world, p))
  <2>1. ~(Len(sampled[p]) + 1 <= Delay(world, p))
      BY <1>4, <1>6
  <2>2. devices.repeater[p] = sampled[p][(Len(sampled[p]) + 1) - Delay(world, p)]
      BY <1>3, <2>1 DEF Read
  <2>3. devices.repeater[p] = sampled[p][Len(sampled[p]) - Delay(world, p) + 1]
      BY <2>2, <1>4
  <2> QED
      BY <2>3, <1>6
<1> QED
    BY <1>5, <1>6

\* A repeater puts out what it read its delay ago, counted in the ticks at
\* which nothing locked it, for every circuit and sequence of calls.
THEOREM RepeatersKeepTheirDelay == Spec => []RepeaterDelays
<1>1. Init => TypeOK /\ RepeaterInv
    BY InitTypes, InitRepeaters
<1>2. TypeOK /\ RepeaterInv /\ [Next]_vars => (TypeOK /\ RepeaterInv)'
    BY StepTypes, StepKeepsRepeaters
<1>3. TypeOK /\ RepeaterInv => RepeaterDelays
    BY QueueIsDelay
<1> QED
    BY <1>1, <1>2, <1>3, PTL DEF Spec

-----------------------------------------------------------------------------
(* Torches.                                                                *)

\* Ticks kept in order, the last of them not after now.
OldestFirst(ticks, now) ==
    /\ ticks \in Seq(Nat)
    /\ \A i \in 1..Len(ticks) : ticks[i] <= now
    /\ \A i, j \in 1..Len(ticks) : i < j => ticks[i] < ticks[j]

Listed(ticks, t) == \E i \in 1..Len(ticks) : ticks[i] = t

\* The toggles kept of a torch are those that were in the window when it
\* toggled last.
TogglesOf(p) ==
    /\ toggled[p] \subseteq 1..tick
    /\ OldestFirst(toggles[p], tick)
    /\ \A u \in Nat :
         Listed(toggles[p], u) <=> u \in toggled[p] /\ \A v \in toggled[p] : v - u <= BurnoutWindow

ToggleInv ==
    /\ tick \in Nat
    /\ DOMAIN toggles = Torches /\ DOMAIN toggled = Torches
    /\ \A p \in Torches : TogglesOf(p)

\* The ticks kept are as many as they are long: none is kept twice.
LEMMA ListedAreCounted ==
    ASSUME NEW ticks, NEW now \in Nat, OldestFirst(ticks, now)
    PROVE  Cardinality({t \in Nat : Listed(ticks, t)}) = Len(ticks)
<1> DEFINE S == {t \in Nat : Listed(ticks, t)}
           f == [i \in 1..Len(ticks) |-> ticks[i]]
<1>1. Len(ticks) \in Nat /\ \A i \in 1..Len(ticks) : ticks[i] \in Nat
  BY DEF OldestFirst
<1>2. \A i, j \in 1..Len(ticks) : ticks[i] = ticks[j] => i = j
  BY <1>1 DEF OldestFirst
<1>3. f \in [1..Len(ticks) -> S] /\ \A t \in S : \E i \in 1..Len(ticks) : f[i] = t
  BY <1>1 DEF Listed
<1>4. f \in Bijection(1..Len(ticks), S)
  BY <1>2, <1>3 DEF Bijection, Injection, IsInjective, Surjection
<1>5. ExistsBijection(1..Len(ticks), S)
  BY <1>4 DEF ExistsBijection
<1> QED
  BY <1>1, <1>5, FS_CountingElements

\* Taking what is too old from the front keeps the order, and leaves exactly
\* what is in the window.
LEMMA WindowIsListed ==
    ASSUME SimulatorAssumption, NEW ticks, OldestFirst(ticks, tick), tick \in Nat,
           NEW s, s = Append(ticks, tick + 1)
    PROVE  /\ OldestFirst(InWindow(s), tick + 1)
           /\ \A u \in Nat : Listed(InWindow(s), u) <=>
                               /\ Listed(ticks, u) \/ u = tick + 1
                               /\ tick + 1 - u <= BurnoutWindow
<1> DEFINE old(i) == tick + 1 - s[i] > BurnoutWindow
           n == Len(s)
<1>0. BurnoutWindow \in Nat
  BY DEF SimulatorAssumption
<1>1. /\ s \in Seq(Nat) /\ n \in Nat \ {0} /\ Len(ticks) = n - 1
      /\ s[n] = tick + 1 /\ \A i \in 1..(n - 1) : s[i] = ticks[i]
  BY DEF OldestFirst
<1>2. \A i \in 1..n : s[i] \in Nat /\ s[i] <= tick + 1
  BY <1>1 DEF OldestFirst
<1>3. ASSUME NEW i \in 1..n, NEW j \in 1..n, i < j
      PROVE  s[i] < s[j]
  <2>1. i \in 1..(n - 1) /\ s[i] = ticks[i] /\ ticks[i] \in Nat /\ ticks[i] <= tick
    BY <1>1, <1>3 DEF OldestFirst
  <2>2. CASE j = n
    BY <2>1, <2>2, <1>1
  <2>3. CASE j # n
    <3>1. j \in 1..(n - 1)
      BY <2>3, <1>1
    <3> QED
      BY <2>1, <3>1, <1>1, <1>3 DEF OldestFirst
  <2> QED
    BY <2>2, <2>3
<1>4. \A u : Listed(s, u) <=> Listed(ticks, u) \/ u = tick + 1
  BY <1>1 DEF Listed
<1>5. \E i \in 1..n : ~old(i) /\ \A j \in 1..(i - 1) : old(j)
  <2> DEFINE fresh == {i \in 1..n : ~old(i)}
  <2>1. n \in fresh
    BY <1>0, <1>1
  <2>2. PICK i \in fresh : \A j \in fresh : i <= j
    <3> HIDE DEF fresh
    <3>1. fresh \subseteq Nat /\ fresh # {}
      BY <2>1 DEF fresh
    <3> QED
      BY <3>1, LeastNatural
  <2>3. \A j \in 1..(i - 1) : j \in 1..n /\ ~(i <= j)
    BY <1>1
  <2> QED
    BY <2>2, <2>3
<1>6. PICK first \in 1..n : ~old(first) /\ (\A j \in 1..(first - 1) : old(j)) /\ InWindow(s) = SubSeq(s, first, n)
  BY <1>5 DEF InWindow
<1> DEFINE w == InWindow(s)
<1>7. /\ w \in Seq(Nat) /\ Len(w) = n - first + 1
      /\ \A i \in 1..Len(w) : w[i] = s[first + i - 1]
  <2>1. w = SubSeq(s, first, n)
    BY <1>6
  <2>2. s \in Seq(Nat) /\ n = Len(s) /\ n \in Nat /\ first \in 1..n
    BY <1>1
  <2> HIDE DEF w, n, old
  <2>3. w \in Seq(Nat) /\ Len(w) = n - first + 1
    BY <2>1, <2>2
  <2>4. \A i \in 1..(n - first + 1) : w[i] = s[first + i - 1]
    BY <2>1, <2>2
  <2> QED
    BY <2>3, <2>4
<1>8. \A i \in 1..Len(w) : first + i - 1 \in 1..n
  BY <1>1, <1>7
<1>9. OldestFirst(w, tick + 1)
  <2>1. \A i \in 1..Len(w) : w[i] <= tick + 1
    BY <1>2, <1>7, <1>8
  <2>2. \A i, j \in 1..Len(w) : i < j => w[i] < w[j]
    <3> SUFFICES ASSUME NEW i \in 1..Len(w), NEW j \in 1..Len(w), i < j
                 PROVE  w[i] < w[j]
      OBVIOUS
    <3>1. first + i - 1 \in 1..n /\ first + j - 1 \in 1..n /\ first + i - 1 < first + j - 1
      BY <1>8
    <3> HIDE DEF w
    <3> QED
      BY <3>1, <1>3, <1>7
  <2> HIDE DEF w
  <2> QED
    BY <2>1, <2>2, <1>7 DEF OldestFirst
<1>10. \A j \in 1..n : ~old(j) <=> first <= j
  <2> SUFFICES ASSUME NEW j \in 1..n
               PROVE  ~old(j) <=> first <= j
    OBVIOUS
  <2>1. CASE first < j
    <3>1. s[first] < s[j] /\ s[first] \in Nat /\ s[j] \in Nat
      BY <1>2, <1>3, <2>1
    <3>2. ~(tick + 1 - s[first] > BurnoutWindow)
      BY <1>6
    <3>3. ~old(j)
      BY <3>1, <3>2, <1>0
    <3> QED
      BY <3>3, <2>1
  <2>2. CASE first = j
    BY <1>6, <2>2
  <2>3. CASE j < first
    BY <1>1, <1>6, <2>3
  <2> QED
    BY <2>1, <2>2, <2>3, <1>1
<1>11. ASSUME NEW u \in Nat
       PROVE  Listed(w, u) <=> Listed(s, u) /\ tick + 1 - u <= BurnoutWindow
  <2>1. ASSUME Listed(w, u)
        PROVE  Listed(s, u) /\ tick + 1 - u <= BurnoutWindow
    <3>1. PICK i \in 1..Len(w) : w[i] = u
      BY <2>1 DEF Listed
    <3>2. s[first + i - 1] = u /\ first + i - 1 \in 1..n
      BY <3>1, <1>7, <1>8
    <3>4. first <= first + i - 1
      BY <1>7
    <3>3. ~(tick + 1 - u > BurnoutWindow)
      BY <3>2, <3>4, <1>10
    <3> QED
      BY <3>2, <3>3, <1>0 DEF Listed
  <2>2. ASSUME Listed(s, u), tick + 1 - u <= BurnoutWindow
        PROVE  Listed(w, u)
    <3>1. PICK j \in 1..n : s[j] = u
      BY <2>2 DEF Listed
    <3>2. first <= j
      BY <3>1, <2>2, <1>0, <1>10
    <3>3. j - first + 1 \in 1..Len(w) /\ first + (j - first + 1) - 1 = j
      BY <3>2, <1>1, <1>7
    <3> QED
      BY <3>1, <3>3, <1>7 DEF Listed
  <2> QED
    BY <2>1, <2>2
<1> QED
  BY <1>4, <1>9, <1>11

\* A new simulator has seen no toggle.
LEMMA InitToggles ==
    ASSUME Init
    PROVE  ToggleInv /\ BurnoutIsCounted
<1>1. \A p \in Torches : toggles[p] = <<>> /\ toggled[p] = {}
  BY DEF Init
<1>2. tick = 0 /\ burnout = {} /\ DOMAIN toggles = Torches /\ DOMAIN toggled = Torches
  BY DEF Init
<1>3. ASSUME NEW p \in Torches
      PROVE  TogglesOf(p)
  <2>1. toggles[p] \in Seq(Nat) /\ Len(toggles[p]) = 0
    <3>1. toggles[p] = <<>>
      BY <1>1
    <3> QED
      BY <3>1
  <2>2. 1..Len(toggles[p]) = {}
    BY <2>1
  <2> QED
    BY <2>1, <2>2, <1>1 DEF TogglesOf, OldestFirst, Listed
<1>4. BurnoutIsCounted
  BY <1>1, <1>2 DEF BurnoutIsCounted
<1> QED
  BY <1>2, <1>3, <1>4 DEF ToggleInv

\* The toggles of a torch up to its toggle t that were in the window then.
Counted(p, t) == {u \in toggled[p] : u <= t /\ t - u <= BurnoutWindow}

\* A tick at which torch p stays as it is.
LEMMA TickWithoutToggle ==
    ASSUME ToggleInv, SimulatorAssumption, NEW p \in Torches,
           toggled'[p] = toggled[p], toggles'[p] = toggles[p], tick' = tick + 1
    PROVE  TogglesOf(p)' /\ \A t : Counted(p, t)' = Counted(p, t)
BY DEF ToggleInv, TogglesOf, OldestFirst, Counted

\* A tick at which it toggles.
LEMMA TickWithToggle ==
    ASSUME ToggleInv, SimulatorAssumption, NEW p \in Torches,
           NEW n, n = tick + 1, tick' = n, toggled'[p] = toggled[p] \cup {n},
           toggles'[p] = InWindow(Append(toggles[p], tick + 1))
    PROVE  /\ TogglesOf(p)'
           /\ \A t \in toggled[p] : Counted(p, t)' = Counted(p, t)
           /\ Cardinality(Counted(p, n)') = Len(toggles'[p])
<1>0. BurnoutWindow \in Nat /\ tick \in Nat
  BY DEF SimulatorAssumption, ToggleInv
<1>1. /\ toggled[p] \subseteq 1..tick /\ OldestFirst(toggles[p], tick)
      /\ \A u \in Nat :
           Listed(toggles[p], u) <=> u \in toggled[p] /\ \A v \in toggled[p] : v - u <= BurnoutWindow
  BY DEF ToggleInv, TogglesOf
<1>2. /\ OldestFirst(toggles'[p], n)
      /\ \A u \in Nat : Listed(toggles'[p], u) <=>
                          (Listed(toggles[p], u) \/ u = n) /\ n - u <= BurnoutWindow
  <2>1. PICK s : s = Append(toggles[p], tick + 1) /\ toggles'[p] = InWindow(s)
    <3>1. \E s : s = Append(toggles[p], tick + 1)
      OBVIOUS
    <3> QED
      BY <3>1, Zenon
  <2>2. /\ OldestFirst(InWindow(s), tick + 1)
        /\ \A u \in Nat : Listed(InWindow(s), u) <=>
                            (Listed(toggles[p], u) \/ u = tick + 1) /\ tick + 1 - u <= BurnoutWindow
    BY <2>1, <1>0, <1>1, WindowIsListed, SimulatorAssumption, Zenon
  <2> QED
    BY <2>1, <2>2, <1>0
<1>3. \A u \in Nat : Listed(toggles'[p], u) <=> u \in toggled'[p] /\ n - u <= BurnoutWindow
  <2> SUFFICES ASSUME NEW u \in Nat
               PROVE  Listed(toggles'[p], u) <=> u \in toggled'[p] /\ n - u <= BurnoutWindow
    OBVIOUS
  <2>1. u \in toggled[p] /\ n - u <= BurnoutWindow => Listed(toggles[p], u)
    <3> SUFFICES ASSUME u \in toggled[p], n - u <= BurnoutWindow, NEW v \in toggled[p]
                 PROVE  v - u <= BurnoutWindow
      BY <1>1
    <3>1. v \in 1..tick /\ u \in 1..tick
      BY <1>1
    <3> QED
      BY <3>1, <1>0
  <2> QED
    BY <2>1, <1>1, <1>2
<1>4. \A u \in Nat : (u \in toggled'[p] /\ n - u <= BurnoutWindow)
                       <=> u \in toggled'[p] /\ \A v \in toggled'[p] : v - u <= BurnoutWindow
  <2> SUFFICES ASSUME NEW u \in Nat, u \in toggled'[p]
               PROVE  n - u <= BurnoutWindow <=> \A v \in toggled'[p] : v - u <= BurnoutWindow
    OBVIOUS
  <2>1. n \in toggled'[p] /\ \A v \in toggled'[p] : v \in 1..n
    BY <1>0, <1>1
  <2> QED
    BY <2>1, <1>0
<1>5. TogglesOf(p)'
  <2>1. toggled'[p] \subseteq 1..n
    BY <1>0, <1>1
  <2>2. OldestFirst(toggles'[p], tick')
    BY <1>2
  <2>3. \A u \in Nat : Listed(toggles'[p], u)
                        <=> u \in toggled'[p] /\ \A v \in toggled'[p] : v - u <= BurnoutWindow
    BY <1>3, <1>4, Zenon
  <2> QED
    BY <2>1, <2>2, <2>3 DEF TogglesOf, OldestFirst, Listed
<1>6. \A t \in toggled[p] : Counted(p, t)' = Counted(p, t)
  <2> SUFFICES ASSUME NEW t \in toggled[p]
               PROVE  Counted(p, t)' = Counted(p, t)
    OBVIOUS
  <2>1. ~(n <= t)
    BY <1>0, <1>1
  <2> QED
    BY <2>1 DEF Counted
<1>7. Counted(p, n)' = {t \in Nat : Listed(toggles'[p], t)}
  <2>1. \A u \in toggled'[p] : u \in Nat /\ u <= n
    BY <1>0, <1>1
  <2>2. Counted(p, n)' = {u \in toggled'[p] : u <= n /\ n - u <= BurnoutWindow}
    BY DEF Counted
  <2> QED
    BY <2>1, <2>2, <1>3
<1>8. Cardinality({t \in Nat : Listed(toggles'[p], t)}) = Len(toggles'[p])
  BY <1>0, <1>2, ListedAreCounted
<1> QED
  BY <1>5, <1>6, <1>7, <1>8

\* Every step keeps the toggles in the window and the candidates counted.
LEMMA TickKeepsToggles ==
    ASSUME TypeOK, ToggleInv, BurnoutIsCounted, AdvanceTick
    PROVE  ToggleInv' /\ BurnoutIsCounted'
<1> DEFINE changing == {p \in Torches : NextTorch(p) # devices.torch[p]}
           Count(p, t) == Cardinality(Counted(p, t))
<1>1. PICK n : n = tick + 1
  OBVIOUS
<1>2. /\ tick' = n /\ Torches' = Torches /\ tick \in Nat /\ n \in Nat
      /\ toggles' = [p \in Torches |-> NextToggles(p)]
      /\ burnout' = burnout \cup {p \in changing : Len(toggles'[p]) >= BurnoutToggles}
      /\ toggled' = [p \in Torches |-> IF p \in changing THEN toggled[p] \cup {tick + 1} ELSE toggled[p]]
  BY <1>1 DEF AdvanceTick, Torches, ToggleInv
<1>3. ASSUME NEW p \in Torches, p \notin changing
      PROVE  /\ TogglesOf(p)' /\ toggled'[p] = toggled[p]
             /\ \A t : Counted(p, t)' = Counted(p, t)
  <2>1. toggled'[p] = toggled[p] /\ toggles'[p] = toggles[p]
    BY <1>2, <1>3 DEF NextToggles
  <2> QED
    BY <2>1, <1>1, <1>2, TickWithoutToggle, SimulatorAssumption
<1>4. ASSUME NEW p \in changing
      PROVE  /\ TogglesOf(p)' /\ toggled'[p] = toggled[p] \cup {n}
             /\ \A t \in toggled[p] : Counted(p, t)' = Counted(p, t)
             /\ Cardinality(Counted(p, n)') = Len(toggles'[p])
  <2>1. toggled'[p] = toggled[p] \cup {n} /\ toggles'[p] = InWindow(Append(toggles[p], tick + 1))
    BY <1>1, <1>2, <1>4 DEF NextToggles
  <2>2. toggles'[p] = InWindow(Append(toggles[p], tick + 1)) /\ p \in Torches
    BY <2>1, <1>4
  <2> QED
    BY <2>1, <2>2, <1>1, <1>2, TickWithToggle, SimulatorAssumption
<1>5. ToggleInv'
  <2>1. DOMAIN toggles' = Torches' /\ DOMAIN toggled' = Torches' /\ tick' \in Nat
    BY <1>2
  <2>2. \A p \in Torches' : TogglesOf(p)'
    BY <1>2, <1>3, <1>4
  <2> QED
    BY <2>1, <2>2 DEF ToggleInv
<1>6. burnout = {p \in Torches : \E t \in toggled[p] : Cardinality(Counted(p, t)) >= BurnoutToggles}
  BY Zenon DEF BurnoutIsCounted, Counted
<1>7. ASSUME NEW p \in Torches
      PROVE  p \in burnout' <=> \E t \in toggled'[p] : Cardinality(Counted(p, t)') >= BurnoutToggles
  <2>1. CASE p \notin changing
    BY <2>1, <1>2, <1>3, <1>6
  <2>2. CASE p \in changing
    BY <2>2, <1>2, <1>4, <1>6
  <2> QED
    BY <2>1, <2>2
<1>8. burnout' = {p \in Torches' : \E t \in toggled'[p] : Cardinality(Counted(p, t)') >= BurnoutToggles}
  <2>1. burnout' \subseteq Torches
    BY <1>2, <1>6
  <2> QED
    BY <2>1, <1>2, <1>7
<1>9. BurnoutIsCounted'
  <2>1. \A p, t : Counted(p, t)' = {u \in toggled'[p] : u <= t /\ t - u <= BurnoutWindow}
    BY DEF Counted
  <2> QED
    BY <2>1, <1>8, Zenon DEF BurnoutIsCounted
<1> QED
  BY <1>5, <1>9

\* Only a tick changes what is known of torches.
LEMMA StepKeepsToggles ==
    ASSUME TypeOK, ToggleInv, BurnoutIsCounted, [Next]_vars
    PROVE  ToggleInv' /\ BurnoutIsCounted'
<1> DEFINE known == <<tick, toggles, toggled, burnout>>
<1>1. ASSUME Torches' = Torches, UNCHANGED known
      PROVE  ToggleInv' /\ BurnoutIsCounted'
  BY <1>1 DEF ToggleInv, TogglesOf, OldestFirst, Listed, BurnoutIsCounted
<1>2. CASE Iterate
  BY <1>1, <1>2 DEF Iterate, circuit, Torches
<1>3. ASSUME NEW p \in DOMAIN world, NEW powered \in BOOLEAN,
             world[p].kind \in SwitchKinds, SetPowered(p, powered)
      PROVE  ToggleInv' /\ BurnoutIsCounted'
  <2>1. UNCHANGED known
    BY <1>3 DEF SetPowered
  <2>2. IsWorld(world)
    BY DEF TypeOK
  <2>3. OfKind(world', "torch") = OfKind(world, "torch")
    BY <1>3, <2>2, SwitchKeepsPlaces
  <2> QED
    BY <2>1, <2>3, <1>1 DEF Torches
<1>4. CASE AdvanceTick
  BY <1>4, TickKeepsToggles
<1>5. CASE UNCHANGED vars
  BY <1>1, <1>5 DEF vars, circuit, Torches
<1> QED
  BY <1>2, <1>3, <1>4, <1>5 DEF Next

\* advance_tick: the candidates for burnout are the torches that toggled too
\* often within the window before one of their toggles, though only the
\* toggles of the window are kept.
THEOREM BurnoutsAreCounted == Spec => []BurnoutIsCounted
<1>1. Init => TypeOK /\ ToggleInv /\ BurnoutIsCounted
  BY InitTypes, InitToggles
<1>2. TypeOK /\ ToggleInv /\ BurnoutIsCounted /\ [Next]_vars => (TypeOK /\ ToggleInv /\ BurnoutIsCounted)'
  BY StepTypes, StepKeepsToggles
<1> QED
  BY <1>1, <1>2, PTL DEF Spec

-----------------------------------------------------------------------------
(* Lamps.                                                                  *)

\* The last tick whose levels the lamps have followed.
Followed == IF solve.call = "tick" THEN tick - 1 ELSE tick

\* A lamp is lit if it was powered at most LampDelay ticks ago, and has a
\* deadline, the tick after those, if it is lit and not powered.
LampInv ==
    ~failed =>
        /\ Followed \in Int
        /\ \A p \in Lamps :
              /\ lampLit[p] <=> Followed - lastPowered[p] <= LampDelay
              /\ lastPowered[p] <= Followed
              /\ p \in DOMAIN offDeadline <=> lampLit[p] /\ lastPowered[p] < Followed
              /\ p \in DOMAIN offDeadline => offDeadline[p] = lastPowered[p] + 1 + LampDelay
              /\ solve.call = "new" => lastPowered[p] = Never

\* The lamps of a simulator that is not solved yet are dark.
LEMMA InitLamps ==
    ASSUME Init
    PROVE  LampInv
<1>1. LampDelay \in Nat
    BY SimulatorAssumption
<1>2. Followed = 0
    BY DEF Init, Solving, Followed
<1>3. \A p \in Lamps : ~lampLit[p] /\ lastPowered[p] = Never /\ p \notin DOMAIN offDeadline
    BY DEF Init
<1> QED
    BY <1>1, <1>2, <1>3 DEF LampInv, Never

\* The lamps follow the levels of a tick.
LEMMA LampsFollowed ==
    ASSUME TypeOK, LampInv, ~failed, solve.call = "tick", LampsFollow(NextPower),
           tick' = tick, world' = world, solve'.call = "none", ~failed'
    PROVE  LampInv'
<1> DEFINE fading == {p \in Lamps : ~IsPowered(NextPower, p) /\ lampLit[p]}
           off == {p \in fading : tick >= Deadline(p)}
<1>1. /\ lampLit' = [p \in Lamps |-> IsPowered(NextPower, p) \/ p \in fading \ off]
      /\ offDeadline' = [p \in fading \ off |-> Deadline(p)]
      /\ lastPowered' = [p \in Lamps |-> IF IsPowered(NextPower, p) THEN tick ELSE lastPowered[p]]
    BY DEF LampsFollow
<1>2. tick \in Int /\ LampDelay \in Nat /\ lastPowered \in [Lamps -> Int]
    BY SimulatorAssumption DEF TypeOK
<1>3. Lamps' = Lamps /\ Followed' = tick /\ Followed = tick - 1
    BY DEF Lamps, Followed
<1>4. ASSUME NEW p \in Lamps
      PROVE  /\ lampLit'[p] <=> tick - lastPowered'[p] <= LampDelay
             /\ lastPowered'[p] <= tick
             /\ p \in DOMAIN offDeadline' <=> lampLit'[p] /\ lastPowered'[p] < tick
             /\ p \in DOMAIN offDeadline' => offDeadline'[p] = lastPowered'[p] + 1 + LampDelay
  <2>1. lastPowered[p] \in Int /\ lastPowered[p] <= tick - 1
      BY <1>2, <1>3 DEF LampInv
  <2>2. DOMAIN offDeadline' = fading \ off
      BY <1>1
  <2>3. CASE IsPowered(NextPower, p)
    <3>1. lampLit'[p] /\ lastPowered'[p] = tick /\ p \notin fading
        BY <2>3, <1>1
    <3> QED
        BY <3>1, <2>2, <1>2
  <2>4. CASE ~IsPowered(NextPower, p) /\ ~lampLit[p]
    <3>1. ~lampLit'[p] /\ lastPowered'[p] = lastPowered[p] /\ p \notin fading
        BY <2>4, <1>1
    <3>2. ~(tick - 1 - lastPowered[p] <= LampDelay)
        BY <2>4, <1>3 DEF LampInv
    <3> QED
        BY <3>1, <3>2, <2>1, <2>2, <1>2
  <2>5. CASE ~IsPowered(NextPower, p) /\ lampLit[p]
    <3>1. /\ p \in fading /\ lastPowered'[p] = lastPowered[p]
          /\ lampLit'[p] <=> p \notin off
        BY <2>5, <1>1
    <3>2. Deadline(p) = lastPowered[p] + 1 + LampDelay
      <4>1. CASE p \in DOMAIN offDeadline
          BY <4>1 DEF Deadline, LampInv
      <4>2. CASE p \notin DOMAIN offDeadline
        <5>1. lastPowered[p] = tick - 1
            BY <4>2, <2>5, <2>1, <1>2, <1>3 DEF LampInv
        <5> QED
            BY <5>1, <4>2, <1>2 DEF Deadline
      <4> QED
          BY <4>1, <4>2
    <3>3. p \in off <=> tick >= lastPowered[p] + 1 + LampDelay
        BY <3>1, <3>2
    <3>4. p \in DOMAIN offDeadline' <=> p \notin off
        BY <3>1, <2>2
    <3>5. p \in DOMAIN offDeadline' => offDeadline'[p] = lastPowered[p] + 1 + LampDelay
        BY <1>1, <2>2, <3>2
    <3> HIDE DEF off, fading
    <3> QED
        BY <3>1, <3>3, <3>4, <3>5, <2>1, <1>2
  <2> QED
      BY <2>3, <2>4, <2>5
<1> QED
    BY <1>2, <1>3, <1>4 DEF LampInv

\* The lamps take up the levels the simulator starts with.
LEMMA LampsStarted ==
    ASSUME TypeOK, LampInv, ~failed, solve.call = "new", LampsStart(NextPower),
           tick' = tick, world' = world, solve'.call = "none", ~failed'
    PROVE  LampInv'
<1>1. /\ lampLit' = [p \in Lamps |-> IsPowered(NextPower, p)]
      /\ lastPowered' = [p \in Lamps |-> IF IsPowered(NextPower, p) THEN tick ELSE Never]
      /\ offDeadline' = offDeadline
    BY DEF LampsStart
<1>2. tick \in Nat /\ LampDelay \in Nat /\ Never = 0 - LampDelay - 1
    BY SimulatorAssumption DEF TypeOK, Never
<1>3. Lamps' = Lamps /\ Followed' = tick /\ Followed = tick
    BY DEF Lamps, Followed
<1>4. ASSUME NEW p \in Lamps
      PROVE  /\ lampLit'[p] <=> tick - lastPowered'[p] <= LampDelay
             /\ lastPowered'[p] <= tick
             /\ p \in DOMAIN offDeadline' <=> lampLit'[p] /\ lastPowered'[p] < tick
             /\ p \in DOMAIN offDeadline' => offDeadline'[p] = lastPowered'[p] + 1 + LampDelay
  <2>1. lastPowered[p] = Never /\ (lampLit[p] <=> tick - lastPowered[p] <= LampDelay)
      BY <1>3 DEF LampInv
  <2>2. p \notin DOMAIN offDeadline
      BY <2>1, <1>2, <1>3 DEF LampInv
  <2>3. CASE IsPowered(NextPower, p)
      BY <2>2, <2>3, <1>1, <1>2
  <2>4. CASE ~IsPowered(NextPower, p)
      BY <2>2, <2>4, <1>1, <1>2
  <2> QED
      BY <2>3, <2>4
<1> QED
    BY <1>2, <1>3, <1>4 DEF LampInv

\* A step that leaves the lamps and what they have followed as it is.
LEMMA LampsUntouched ==
    ASSUME LampInv, UNCHANGED <<lampLit, offDeadline, lastPowered>>, Lamps' = Lamps,
           Followed' = Followed, solve'.call = "new" => solve.call = "new", failed => failed'
    PROVE  LampInv'
    BY DEF LampInv, Never

\* Every step keeps lamps and deadlines equal to what the last powered tick says.
LEMMA StepKeepsLamps ==
    ASSUME TypeOK, LampInv, [Next]_vars
    PROVE  LampInv'
<1>1. CASE Iterate
  <2>1. world' = world /\ tick' = tick /\ Running /\ ~failed
      BY <1>1 DEF Iterate, circuit, TypeOK
  <2>2. Lamps' = Lamps
      BY <2>1 DEF Lamps
  <2>3. CASE Converged
    <3>1. solve'.call = "none" /\ ~failed'
        BY <2>1, <2>3 DEF Converged, NotSolving
    <3>2. CASE solve.call = "set" /\ UNCHANGED <<lampLit, offDeadline, lastPowered>>
      <4>1. Followed' = Followed
          BY <3>1, <3>2, <2>1 DEF Followed
      <4> QED
          BY <4>1, <3>1, <3>2, <2>1, <2>2, LampsUntouched
    <3> QED
        BY <3>1, <3>2, <2>1, <2>3, LampsStarted, LampsFollowed DEF Converged
  <2>4. CASE Iterated
    <3>1. CASE solve.iteration = MaxIterations
      <4>1. failed'
          BY <3>1, <2>4 DEF Iterated
      <4> QED
          BY <4>1 DEF LampInv
    <3>2. CASE solve.iteration # MaxIterations
      <4>1. solve'.call = solve.call /\ UNCHANGED <<lampLit, offDeadline, lastPowered>>
          BY <3>2, <2>4 DEF Iterated
      <4>2. Followed' = Followed
          BY <4>1, <2>1 DEF Followed
      <4> QED
          BY <4>1, <4>2, <2>1, <2>2, LampsUntouched
    <3> QED
        BY <3>1, <3>2
  <2> QED
      BY <1>1, <2>3, <2>4 DEF Iterate
<1>2. ASSUME NEW p \in DOMAIN world, NEW powered \in BOOLEAN,
             world[p].kind \in SwitchKinds, SetPowered(p, powered)
      PROVE  LampInv'
  <2>1. /\ UNCHANGED <<lampLit, offDeadline, lastPowered>> /\ tick' = tick /\ ~failed
        /\ solve.call = "none" /\ solve'.call = "set"
      BY <1>2 DEF SetPowered, Solving, Idle, Running
  <2>2. Lamps' = Lamps
    <3>1. OfKind(world', "lamp") = OfKind(world, "lamp")
        BY <1>2, SwitchKeepsPlaces DEF TypeOK
    <3> QED
        BY <3>1 DEF Lamps
  <2>3. Followed' = Followed
      BY <2>1 DEF Followed
  <2> QED
      BY <2>1, <2>2, <2>3, LampsUntouched
<1>3. CASE AdvanceTick
  <2>1. /\ UNCHANGED <<lampLit, offDeadline, lastPowered>> /\ tick' = tick + 1 /\ ~failed
        /\ solve.call = "none" /\ solve'.call = "tick" /\ world' = world
      BY <1>3 DEF AdvanceTick, Solving, Idle, Running
  <2>2. Lamps' = Lamps
      BY <2>1 DEF Lamps
  <2>3. Followed' = Followed
      BY <2>1 DEF Followed, TypeOK
  <2> QED
      BY <2>1, <2>2, <2>3, LampsUntouched
<1>4. CASE UNCHANGED vars
  <2>1. /\ UNCHANGED <<lampLit, offDeadline, lastPowered>> /\ tick' = tick /\ failed' = failed
        /\ solve' = solve /\ world' = world
      BY <1>4 DEF vars, circuit
  <2>2. Lamps' = Lamps /\ Followed' = Followed
      BY <2>1 DEF Lamps, Followed
  <2> QED
      BY <2>1, <2>2, LampsUntouched
<1> QED
    BY <1>1, <1>2, <1>3, <1>4 DEF Next

\* Between calls a lamp is lit exactly if it was powered at most LampDelay
\* ticks ago, however often its power came and went before.
THEOREM LampsFadeOnTime == Spec => []LampFadesOnTime
<1>1. Init => TypeOK /\ LampInv
    BY InitTypes, InitLamps
<1>2. TypeOK /\ LampInv /\ [Next]_vars => (TypeOK /\ LampInv)'
    BY StepTypes, StepKeepsLamps
<1>3. LampInv => LampFadesOnTime
    BY DEF LampInv, LampFadesOnTime, Idle, Running, Followed
<1> QED
    BY <1>1, <1>2, <1>3, PTL DEF Spec

-----------------------------------------------------------------------------
(* The stencil of the connectivity graph.                                  *)

\* Two blocks with a transfer between them are at an offset of the stencil.
LEMMA StencilIsComplete ==
    ASSUME NEW W, IsWorld(W), NEW a \in DOMAIN W, NEW b \in DOMAIN W, PhysicalStep(W, a, b) # {}
    PROVE  \E o \in LocalConnectionOffsets : b = Plus(a, o)
<1>1. a \in Position /\ b \in Position
    BY DEF IsWorld
<1>2. PICK x \in Int, y \in Int, z \in Int : a = <<x, y, z>>
    BY <1>1 DEF Position
<1>3. \A f \in Horizontal : Offset[f] \in {<<0, 0, -1>>, <<1, 0, 0>>, <<0, 0, 1>>, <<-1, 0, 0>>}
    BY DEF Horizontal, Offset
<1>4. ASSUME NEW f \in Horizontal, b \in {Side(a, f), Above(Side(a, f)), Below(Side(a, f))}
      PROVE  \E o \in LocalConnectionOffsets : b = Plus(a, o)
  <2>1. PICK d \in {<<0, 0, -1>>, <<1, 0, 0>>, <<0, 0, 1>>, <<-1, 0, 0>>} :
           b \in {Plus(a, d), Plus(Plus(a, d), <<0, 1, 0>>), Plus(Plus(a, d), <<0, -1, 0>>)}
      BY <1>3, <1>4 DEF Side, Above, Below
  <2>2. PICK u \in {-1, 0, 1} : b = Plus(a, <<d[1], u, d[3]>>)
    <3>1. CASE b = Plus(a, d)
        BY <3>1, <1>2, <2>1 DEF Plus
    <3>2. CASE b = Plus(Plus(a, d), <<0, 1, 0>>)
        BY <3>2, <1>2, <2>1 DEF Plus
    <3>3. CASE b = Plus(Plus(a, d), <<0, -1, 0>>)
        BY <3>3, <1>2, <2>1 DEF Plus
    <3> QED
        BY <3>1, <3>2, <3>3, <2>1
  <2>3. <<d[1], u, d[3]>> \in LocalConnectionOffsets
      BY <2>1, <2>2 DEF LocalConnectionOffsets
  <2> QED
      BY <2>2, <2>3
<1>5. ASSUME b = Below(a)
      PROVE  \E o \in LocalConnectionOffsets : b = Plus(a, o)
    BY <1>5 DEF Below, LocalConnectionOffsets
<1>6. ASSUME NEW c, NEW d, d \in Front(W, c) \cup Rear(W, c) \cup Sides(W, c)
      PROVE  \E f \in Horizontal : d = Side(c, f)
    BY <1>6 DEF Front, Rear, Sides, HasFront, Opposite, Horizontal
<1>7. ASSUME a \in Rear(W, b) \cup Sides(W, b)
      PROVE  \E f \in Horizontal : b = Side(a, f)
  <2>1. PICK f \in Horizontal : a = Side(b, f)
      BY <1>6, <1>7
  <2>2. PICK g \in Horizontal : Offset[g] = <<-(Offset[f][1]), 0, -(Offset[f][3])>> /\ Offset[f][2] = 0
    <3>1. CASE f = "north"
        BY <3>1 DEF Horizontal, Offset
    <3>2. CASE f = "south"
        BY <3>2 DEF Horizontal, Offset
    <3>3. CASE f = "east"
        BY <3>3 DEF Horizontal, Offset
    <3>4. CASE f = "west"
        BY <3>4 DEF Horizontal, Offset
    <3> QED
        BY <3>1, <3>2, <3>3, <3>4 DEF Horizontal
  <2>3. PICK i \in Int, j \in Int, k \in Int : b = <<i, j, k>>
      BY <1>1 DEF Position
  <2>4. Offset[f][1] \in Int /\ Offset[f][3] \in Int
      BY <1>3
  <2>5. b = Side(a, g)
      BY <2>1, <2>2, <2>3, <2>4 DEF Side, Plus
  <2> QED
      BY <2>5
<1>8. ASSUME b \in Front(W, a)
      PROVE  \E f \in Horizontal : b = Side(a, f)
    BY <1>6, <1>8
<1>9. ASSUME DustTransmits(W, a, b)
      PROVE  \E f \in Horizontal : b \in {Side(a, f), Above(Side(a, f)), Below(Side(a, f))}
    BY <1>9 DEF DustTransmits, Spreads, Rises, Falls
<1>10. \/ DustTransmits(W, a, b)
       \/ a \in Rear(W, b) \cup Sides(W, b)
       \/ b \in Front(W, a)
       \/ b = Below(a)
       \/ \E f \in Horizontal : b = Side(a, f)
    BY DEF PhysicalStep, When
<1> QED
    BY <1>4, <1>5, <1>7, <1>8, <1>9, <1>10

\* A step of power that physical_step has a kind for is an edge, wherever the
\* two blocks are.
LEMMA StepsAreEdges ==
    ASSUME NEW W, IsWorld(W), NEW a \in DOMAIN W, NEW b \in DOMAIN W, PhysicalStep(W, a, b) # {}
    PROVE  \E e \in ExtractConnectivity(W) : e.source = a /\ e.sink = b
<1> DEFINE near(c) == {Plus(c, o) : o \in LocalConnectionOffsets} \cap DOMAIN W
           edges(c) == UNION {{Edge(c, d, k) : k \in PhysicalStep(W, c, d)} : d \in near(c)}
<1>1. PICK kind \in PhysicalStep(W, a, b) : TRUE
    OBVIOUS
<1>2. b \in near(a)
    BY StencilIsComplete
<1>3. Edge(a, b, kind) \in edges(a)
    BY <1>1, <1>2
<1>4. Edge(a, b, kind) \in UNION {edges(c) : c \in DOMAIN W}
    BY <1>3
<1>5. Edge(a, b, kind) \in ExtractConnectivity(W)
    BY <1>4 DEF ExtractConnectivity
<1> QED
    BY <1>5 DEF Edge

\* So are the steps between a torch or a switch and what it rests on.
LEMMA SupportsAreEdges ==
    ASSUME NEW W, NEW p \in DOMAIN W, NEW s \in SupportOf(W, p)
    PROVE  /\ W[p].kind = "torch" =>
                \E e \in ExtractConnectivity(W) : e.source = s /\ e.sink = p
           /\ W[p].kind \in SwitchKinds =>
                \E e \in ExtractConnectivity(W) : e.source = p /\ e.sink = s
<1>1. ASSUME W[p].kind = "torch"
      PROVE  \E e \in ExtractConnectivity(W) : e.source = s /\ e.sink = p
  <2> DEFINE controls(q) == {Edge(r, q, "control") : r \in SupportOf(W, q)}
  <2>1. Edge(s, p, "control") \in controls(p) /\ p \in OfKind(W, "torch")
      BY <1>1 DEF OfKind
  <2>2. Edge(s, p, "control") \in UNION {controls(q) : q \in OfKind(W, "torch")}
      BY <2>1
  <2>3. Edge(s, p, "control") \in ExtractConnectivity(W)
      BY <2>2 DEF ExtractConnectivity
  <2> QED
      BY <2>3 DEF Edge
<1>2. ASSUME W[p].kind \in SwitchKinds
      PROVE  \E e \in ExtractConnectivity(W) : e.source = p /\ e.sink = s
  <2> DEFINE sources(q) == {Edge(q, r, "source") : r \in SupportOf(W, q)}
  <2>1. Edge(p, s, "source") \in sources(p) /\ p \in {q \in DOMAIN W : W[q].kind \in SwitchKinds}
      BY <1>2
  <2>2. Edge(p, s, "source") \in UNION {sources(q) : q \in {r \in DOMAIN W : W[r].kind \in SwitchKinds}}
      BY <2>1
  <2>3. Edge(p, s, "source") \in ExtractConnectivity(W)
      BY <2>2 DEF ExtractConnectivity
  <2> QED
      BY <2>3 DEF Edge
<1> QED
    BY <1>1, <1>2

\* The blocks that repeaters, comparators and dust have a step to.
LEMMA StepsOfDevices ==
    ASSUME NEW W, NEW a \in DOMAIN W, NEW b \in DOMAIN W
    PROVE  /\ DustTransmits(W, a, b) => PhysicalStep(W, a, b) # {}
           /\ W[a].kind \in {"repeater", "comparator"} /\ b \in Front(W, a)
                /\ (W[b].kind = "wire" \/ Conducts(W[b])) => PhysicalStep(W, a, b) # {}
<1>1. ASSUME DustTransmits(W, a, b)
      PROVE  PhysicalStep(W, a, b) # {}
  <2>1. W[a].kind = "wire" /\ W[b].kind = "wire"
      BY <1>1 DEF DustTransmits, KindAt
  <2>2. "dust" \in PhysicalStep(W, a, b)
      BY <1>1, <2>1 DEF PhysicalStep, When, SourceKinds, SwitchKinds, ReceivesPower
  <2> QED
      BY <2>2
<1>2. ASSUME W[a].kind \in {"repeater", "comparator"}, b \in Front(W, a), W[b].kind = "wire"
      PROVE  PhysicalStep(W, a, b) # {}
  <2>1. "output" \in PhysicalStep(W, a, b)
      BY <1>2 DEF PhysicalStep, When, SourceKinds, SwitchKinds, ReceivesPower
  <2> QED
      BY <2>1
<1>3. ASSUME W[a].kind \in {"repeater", "comparator"}, b \in Front(W, a), W[b].kind # "wire",
             Conducts(W[b])
      PROVE  PhysicalStep(W, a, b) # {}
  <2>1. PhysicalStep(W, a, b) = When(Conducts(W[b]) /\ b \in Front(W, a), "output")
      BY <1>3 DEF PhysicalStep, ReceivesPower, When
  <2> QED
      BY <1>3, <2>1 DEF When
<1> QED
    BY <1>1, <1>2, <1>3

LEMMA AboveAndBelow ==
    ASSUME NEW p \in Position, NEW q \in Position
    PROVE  /\ p = Above(q) <=> q = Below(p)
           /\ \A f \in Horizontal : p = Side(q, f) => q = Side(p, Opposite[f])
<1>1. PICK x \in Int, y \in Int, z \in Int : p = <<x, y, z>>
    BY DEF Position
<1>2. PICK i \in Int, j \in Int, k \in Int : q = <<i, j, k>>
    BY DEF Position
<1>3. p = Above(q) <=> q = Below(p)
    BY <1>1, <1>2 DEF Above, Below, Plus
<1>4. ASSUME NEW f \in Horizontal, p = Side(q, f)
      PROVE  q = Side(p, Opposite[f])
  <2>1. /\ Offset[Opposite[f]] = <<-(Offset[f][1]), 0, -(Offset[f][3])>>
        /\ Offset[f][1] \in Int /\ Offset[f][2] = 0 /\ Offset[f][3] \in Int
    <3>1. CASE f = "north"
        BY <3>1 DEF Horizontal, Offset, Opposite
    <3>2. CASE f = "south"
        BY <3>2 DEF Horizontal, Offset, Opposite
    <3>3. CASE f = "east"
        BY <3>3 DEF Horizontal, Offset, Opposite
    <3>4. CASE f = "west"
        BY <3>4 DEF Horizontal, Offset, Opposite
    <3> QED
        BY <3>1, <3>2, <3>3, <3>4 DEF Horizontal
  <2> QED
      BY <2>1, <1>1, <1>2, <1>4 DEF Side, Plus
<1> QED
    BY <1>3, <1>4

\* What drives a wire, but for the sources above and below it and the blocks
\* that conduct, has an edge to it.
LEMMA DriversHaveEdges ==
    ASSUME NEW W, IsWorld(W), NEW dev, NEW power, NEW a \in DOMAIN W, NEW b \in DOMAIN W,
           W[b].kind = "wire", a \in Drivers(W, b), DirectLevelIntoDust(W, dev, power, b, a) > 0,
           ~Conducts(W[a]), W[a].kind \in SourceKinds => b \notin {Above(a), Below(a)}
    PROVE  PhysicalStep(W, a, b) # {}
<1>1. a \in Position /\ b \in Position
    BY DEF IsWorld
<1>2. \/ W[a].kind \in SourceKinds
      \/ W[a].kind \in {"repeater", "comparator"} /\ b \in Front(W, a)
    BY DEF DirectLevelIntoDust, SourceKinds, KindAt, ConductsAt
<1>3. CASE W[a].kind \in SourceKinds
  <2>1. a \notin {Above(b), Below(b)}
      BY <1>1, <1>3, AboveAndBelow
  <2>2. PICK f \in Horizontal : a = Side(b, f) /\ WireHasArm(W, b, f)
      BY <2>1 DEF Drivers
  <2>3. Opposite[f] \in Horizontal /\ Opposite[Opposite[f]] = f
      BY DEF Opposite, Horizontal
  <2>4. b = Side(a, Opposite[f]) /\ WireHasArm(W, b, Opposite[Opposite[f]])
      BY <1>1, <2>2, <2>3, AboveAndBelow
  <2>5. \E g \in Horizontal : b = Side(a, g) /\ WireHasArm(W, b, Opposite[g])
      BY <2>3, <2>4
  <2> QED
      BY <1>3, <2>5 DEF PhysicalStep, When, SourceKinds, SwitchKinds, ReceivesPower
<1>4. CASE W[a].kind \in {"repeater", "comparator"} /\ b \in Front(W, a)
    BY <1>4, StepsOfDevices
<1> QED
    BY <1>2, <1>3, <1>4

\* Where power comes from there is an edge, or the step is one of those left out.
LEMMA PowerHasAnEdge ==
    ASSUME IsWorld(world), NEW b \in DOMAIN world, NEW a \in PoweredFrom(b) \cap DOMAIN world,
           ~WithoutEdge(a, b)
    PROVE  \E e \in ExtractConnectivity(world) : e.source = a /\ e.sink = b
<1> DEFINE to == world[b].kind
<1>1. PhysicalStep(world, a, b) # {} => \E e \in ExtractConnectivity(world) : e.source = a /\ e.sink = b
    BY StepsAreEdges
<1>2. CASE to = "wire"
  <2>1. \/ a \in Feeders(world, b)
        \/ /\ a \in Drivers(world, b)
           /\ DirectLevelIntoDust(world, devices, instantaneous.power, b, a) > 0
      BY <1>2 DEF PoweredFrom
  <2>2. CASE a \in Feeders(world, b)
    <3>1. DustTransmits(world, a, b)
        BY <2>2 DEF Feeders
    <3> QED
        BY <1>1, <3>1, StepsOfDevices
  <2>3. CASE /\ a \in Drivers(world, b)
             /\ DirectLevelIntoDust(world, devices, instantaneous.power, b, a) > 0
    <3>1. ~Conducts(world[a]) /\ (world[a].kind \in SourceKinds => b \notin {Above(a), Below(a)})
        BY <1>2 DEF WithoutEdge
    <3> QED
        BY <1>1, <1>2, <2>3, <3>1, DriversHaveEdges
  <2> QED
      BY <2>1, <2>2, <2>3
<1>3. CASE to \in {"repeater", "comparator"}
  <2>1. /\ a \in Rear(world, b) \cup Sides(world, b)
        /\ to = "repeater" => a \in Rear(world, b)
      BY <1>3 DEF PoweredFrom
  <2>2. world[a].kind = "wire" \/ (to = "repeater" /\ ReceivesPower(world[a].kind))
      BY <1>3 DEF WithoutEdge
  <2> QED
      BY <1>1, <1>3, <2>1, <2>2 DEF PhysicalStep, When, ReceivesPower
<1>4. CASE to = "torch"
  <2>1. a \in SupportOf(world, b)
      BY <1>4 DEF PoweredFrom
  <2> QED
      BY <1>4, <2>1, SupportsAreEdges
<1>5. CASE to \notin {"wire", "repeater", "comparator", "torch"}
  <2>1. /\ Conducts(world[b])
        /\ \/ a \in Wires(world) /\ b \in DustWeakPowerTargets(world, a)
           \/ b \in StrongTargets(world, a)
           \/ ConductsAt(world, a)
      BY <1>5 DEF PoweredFrom
  <2>2. ~Conducts(world[a]) /\ world[a].kind # "redstone_block"
      BY <1>5, <2>1 DEF WithoutEdge
  <2>3. CASE a \in Wires(world) /\ b \in DustWeakPowerTargets(world, a)
    <3>1. world[a].kind = "wire" /\ (b = Below(a) \/ \E f \in Horizontal : b = Side(a, f))
        BY <2>3 DEF Wires, OfKind, DustWeakPowerTargets
    <3> QED
        BY <1>1, <1>5, <2>1, <3>1 DEF PhysicalStep, When
  <2>4. CASE b \in StrongTargets(world, a)
    <3>1. CASE world[a].kind \in SwitchKinds
      <4>1. b \in SupportOf(world, a)
          BY <2>4, <3>1 DEF StrongTargets, SwitchKinds
      <4> QED
          BY <3>1, <4>1, SupportsAreEdges
    <3>2. CASE world[a].kind \in {"repeater", "comparator"}
      <4>1. b \in Front(world, a)
          BY <2>4, <3>2 DEF StrongTargets, SwitchKinds
      <4> QED
          BY <1>1, <2>1, <3>2, <4>1, StepsOfDevices
    <3> QED
        BY <2>2, <2>4, <3>1, <3>2 DEF StrongTargets
  <2> QED
      BY <2>1, <2>2, <2>3, <2>4 DEF ConductsAt
<1> QED
    BY <1>2, <1>3, <1>4, <1>5

\* The connectivity graph follows the simulator: in every circuit, whatever
\* its switches and devices have done, power comes along edges of the graph,
\* except by the steps it is known to leave out.
THEOREM GraphFollowsPower == Spec => []PowerFollowsEdges
<1>1. TypeOK => PowerFollowsEdges
    BY PowerHasAnEdge DEF TypeOK, PowerFollowsEdges
<1> QED
    BY <1>1, TypesHold, PTL

-----------------------------------------------------------------------------
(* Ordered sequences of positions and numbers.                              *)

\* R orders S: of two elements exactly one comes first.
Orders(R, S) ==
    /\ \A x, y \in S : x # y => <<x, y>> \in R \/ <<y, x>> \in R
    /\ \A x, y \in S : ~(<<x, y>> \in R /\ <<y, x>> \in R)
    /\ \A x, y, z \in S : <<x, y>> \in R /\ <<y, z>> \in R => <<x, z>> \in R

Earlier(R, S, x) == {y \in S \ {x} : <<y, x>> \in R}
PlaceAmong(R, S, x) == Cardinality(Earlier(R, S, x)) + 1

\* The places of a finite set in order are 1 to its size, each one once.
LEMMA PlacesAreNumbers ==
    ASSUME NEW S, IsFiniteSet(S), NEW R, Orders(R, S)
    PROVE  /\ Cardinality(S) \in Nat
           /\ \A x \in S : PlaceAmong(R, S, x) \in 1..Cardinality(S)
           /\ \A x, y \in S : PlaceAmong(R, S, x) = PlaceAmong(R, S, y) => x = y
           /\ \A i \in 1..Cardinality(S) : \E x \in S : PlaceAmong(R, S, x) = i
<1> DEFINE size == Cardinality(S)
           place == [x \in S |-> PlaceAmong(R, S, x)]
<1>1. size \in Nat
  BY FS_CardinalityType
<1>2. \A x \in S : IsFiniteSet(Earlier(R, S, x)) /\ Cardinality(Earlier(R, S, x)) \in 0..(size - 1)
  <2> TAKE x \in S
  <2>1. IsFiniteSet(S \ {x}) /\ Cardinality(S \ {x}) = size - 1
    BY FS_RemoveElement
  <2>2. Earlier(R, S, x) \in SUBSET (S \ {x})
    BY DEF Earlier
  <2>3. IsFiniteSet(Earlier(R, S, x)) /\ Cardinality(Earlier(R, S, x)) <= Cardinality(S \ {x})
    BY <2>1, <2>2, FS_Subset
  <2>4. Cardinality(Earlier(R, S, x)) \in Nat
    BY <2>3, FS_CardinalityType
  <2> QED
    BY <1>1, <2>1, <2>3, <2>4
<1>3. \A x, y \in S : <<x, y>> \in R => PlaceAmong(R, S, x) < PlaceAmong(R, S, y)
  <2> SUFFICES ASSUME NEW x \in S, NEW y \in S, <<x, y>> \in R
               PROVE  PlaceAmong(R, S, x) < PlaceAmong(R, S, y)
    OBVIOUS
  <2>1. Earlier(R, S, x) \in SUBSET Earlier(R, S, y) /\ x \in Earlier(R, S, y) /\ x \notin Earlier(R, S, x)
    BY DEF Earlier, Orders
  <2>2. Earlier(R, S, x) # Earlier(R, S, y)
    BY <2>1
  <2>3. Cardinality(Earlier(R, S, x)) <= Cardinality(Earlier(R, S, y))
        /\ Cardinality(Earlier(R, S, x)) # Cardinality(Earlier(R, S, y))
    BY <2>1, <2>2, <1>2, FS_Subset
  <2> QED
    BY <2>3, <1>2 DEF PlaceAmong
<1>4. \A x \in S : PlaceAmong(R, S, x) \in 1..size
  BY <1>1, <1>2 DEF PlaceAmong
<1>5. \A x, y \in S : PlaceAmong(R, S, x) = PlaceAmong(R, S, y) => x = y
  <2> SUFFICES ASSUME NEW x \in S, NEW y \in S, x # y
               PROVE  PlaceAmong(R, S, x) # PlaceAmong(R, S, y)
    OBVIOUS
  <2>1. <<x, y>> \in R \/ <<y, x>> \in R
    BY DEF Orders
  <2> QED
    BY <2>1, <1>3, <1>4
<1>6. \A i \in 1..size : \E x \in S : PlaceAmong(R, S, x) = i
  <2>1. place \in Injection(S, 1..size)
    <3>1. place \in [S -> 1..size] /\ \A x \in S : place[x] = PlaceAmong(R, S, x)
      BY <1>4
    <3> HIDE DEF place, size
    <3>2. \A x, y \in S : place[x] = place[y] => x = y
      BY <3>1, <1>5
    <3> QED
      BY <3>1, <3>2 DEF Injection, IsInjective
  <2>2. IsFiniteSet(1..size) /\ Cardinality(1..size) = size
    <3>1. 1 \in Int /\ size \in Int
      BY <1>1
    <3>2. IsFiniteSet(1..size) /\ Cardinality(1..size) = IF 1 > size THEN 0 ELSE size - 1 + 1
      BY <3>1, FS_Interval
    <3> HIDE DEF size
    <3> QED
      BY <3>2, <1>1
  <2> HIDE DEF place
  <2>3. place \in Surjection(S, 1..size)
    BY <2>1, <2>2, FS_Injection
  <2> QED
    BY <2>3 DEF Surjection, place
<1> QED
  BY <1>1, <1>4, <1>5, <1>6

Distinct(s) == \A i, j \in DOMAIN s : s[i] = s[j] => i = j

\* s has every element of S once.
Enumerates(s, S) == s \in Seq(S) /\ On(s) = S /\ Distinct(s)

Placed(R, S) == {<<Cardinality({y \in S \ {x} : <<y, x>> \in R}) + 1, x>> : x \in S}
Lined(placed, size) == [i \in 1..size |-> (CHOOSE r \in placed : r[1] = i)[2]]

\* Sorting a finite set lists its elements.
LEMMA SortedEnumerates ==
    ASSUME NEW S, IsFiniteSet(S), NEW R, Orders(R, S)
    PROVE  Enumerates(Lined(Placed(R, S), Cardinality(S)), S)
<1> DEFINE placed == Placed(R, S)
           s == [i \in 1..Cardinality(S) |-> (CHOOSE r \in placed : r[1] = i)[2]]
<1>1. placed = {<<PlaceAmong(R, S, x), x>> : x \in S}
  BY DEF PlaceAmong, Earlier, Placed
<1> HIDE DEF placed
<1>2. Cardinality(S) \in Nat
  BY PlacesAreNumbers
<1>3. \A i \in DOMAIN s : s[i] \in S /\ PlaceAmong(R, S, s[i]) = i
  <2> SUFFICES ASSUME NEW i \in 1..Cardinality(S)
               PROVE  s[i] \in S /\ PlaceAmong(R, S, s[i]) = i
    OBVIOUS
  <2>1. PICK x \in S : PlaceAmong(R, S, x) = i
    BY PlacesAreNumbers
  <2>2. <<PlaceAmong(R, S, x), x>> \in placed /\ <<PlaceAmong(R, S, x), x>>[1] = i
    BY <2>1, <1>1
  <2>3. PICK r : r = (CHOOSE q \in placed : q[1] = i)
    OBVIOUS
  <2>4. r \in placed /\ r[1] = i
    BY <2>2, <2>3
  <2>5. s[i] = r[2]
    BY <2>3
  <2>6. PICK z \in S : r = <<PlaceAmong(R, S, z), z>>
    BY <1>1, <2>4
  <2> HIDE DEF s
  <2> QED
    BY <2>4, <2>5, <2>6
<1>4. DOMAIN s = 1..Cardinality(S)
  OBVIOUS
<1>5. s \in Seq(S)
  <2>1. s = [i \in 1..Cardinality(S) |-> s[i]]
    OBVIOUS
  <2> HIDE DEF s
  <2>2. s \in [1..Cardinality(S) -> S]
    BY <2>1, <1>3, <1>4
  <2> QED
    BY <2>2, <1>2
<1> HIDE DEF s
<1>6. \A x \in S : s[PlaceAmong(R, S, x)] = x /\ PlaceAmong(R, S, x) \in DOMAIN s
  BY <1>3, <1>4, PlacesAreNumbers
<1>7. On(s) = S
  BY <1>3, <1>6 DEF On
<1>8. Distinct(s)
  BY <1>3, <1>4 DEF Distinct
<1> QED
  BY <1>5, <1>7, <1>8 DEF Enumerates, Lined, s, placed

LEMMA IsSequence ==
    ASSUME NEW n \in Nat, NEW s, s = [i \in 1..n |-> s[i]]
    PROVE  s \in Seq(On(s)) /\ Len(s) = n /\ On(s) = {s[i] : i \in 1..n}
<1>1. s \in [1..n -> On(s)] /\ DOMAIN s = 1..n
  BY DEF On
<1> QED
  BY <1>1 DEF On

\* Positions in their order, each once.
LEMMA InOrderEnumerates ==
    ASSUME NEW S, IsFiniteSet(S), S \subseteq Position
    PROVE  Enumerates(InOrder(S), S)
<1> DEFINE R == {pq \in S \X S : Before(pq[1], pq[2])}
           placed == {<<Cardinality({y \in S \ {x} : Before(y, x)}) + 1, x>> : x \in S}
<1>1. \A p, q \in S : <<p, q>> \in R <=> Before(p, q)
  OBVIOUS
<1>2. \A p \in S : p = <<p[1], p[2], p[3]>> /\ p[1] \in Int /\ p[2] \in Int /\ p[3] \in Int
  BY DEF Position
<1>3. Orders(R, S)
  <2> HIDE DEF R
  <2>1. \A x, y \in S : x # y => Before(x, y) \/ Before(y, x)
    <3> SUFFICES ASSUME NEW x \in S, NEW y \in S, ~Before(x, y), ~Before(y, x)
                 PROVE  x = y
      OBVIOUS
    <3>1. x[1] = y[1] /\ x[2] = y[2] /\ x[3] = y[3]
      BY <1>2 DEF Before
    <3> QED
      BY <1>2, <3>1
  <2>2. \A x, y \in S : ~(Before(x, y) /\ Before(y, x))
    BY <1>2 DEF Before
  <2>3. \A x, y, z \in S : Before(x, y) /\ Before(y, z) => Before(x, z)
    BY <1>2 DEF Before
  <2> QED
    BY <1>1, <2>1, <2>2, <2>3 DEF Orders
<1>4. placed = Placed(R, S)
  <2>1. \A x \in S : {y \in S \ {x} : <<y, x>> \in R} = {y \in S \ {x} : Before(y, x)}
    <3> HIDE DEF R
    <3> QED
      BY <1>1
  <2> HIDE DEF R
  <2> QED
    BY <2>1 DEF Placed
<1>5. InOrder(S) = Lined(placed, Cardinality(S))
  BY DEF InOrder, Sorted, Lined
<1> HIDE DEF placed, R
<1> QED
  BY <1>3, <1>4, <1>5, SortedEnumerates

\* Numbers in their order.
LessIn(S) == {ij \in S \X S : ij[1] < ij[2]}
InCount(S) == {<<Cardinality({y \in S \ {x} : y < x}) + 1, x>> : x \in S}
Ascending(S) == Sorted(S, LAMBDA i, j : i < j)

LEMMA AscendingIs ==
    ASSUME NEW S, IsFiniteSet(S), S \subseteq Nat
    PROVE  /\ Ascending(S) = Lined(InCount(S), Cardinality(S))
           /\ Orders(LessIn(S), S) /\ InCount(S) = Placed(LessIn(S), S)
           /\ Enumerates(Ascending(S), S) /\ DOMAIN Ascending(S) = 1..Cardinality(S)
<1> DEFINE R == LessIn(S)
<1>1. \A i, j \in S : <<i, j>> \in R <=> i < j
  BY DEF LessIn
<1>2. \A i \in S : i \in Nat
  OBVIOUS
<1>3. Orders(R, S)
  <2> HIDE DEF R
  <2>1. \A x, y \in S : x # y => x < y \/ y < x
    BY <1>2
  <2>2. \A x, y \in S : ~(x < y /\ y < x)
    BY <1>2
  <2>3. \A x, y, z \in S : x < y /\ y < z => x < z
    BY <1>2
  <2> QED
    BY <1>1, <2>1, <2>2, <2>3 DEF Orders
<1>4. InCount(S) = Placed(R, S)
  <2>1. \A x \in S : {y \in S \ {x} : <<y, x>> \in R} = {y \in S \ {x} : y < x}
    <3> HIDE DEF R
    <3> QED
      BY <1>1
  <2> HIDE DEF R
  <2> QED
    BY <2>1 DEF Placed, InCount
<1>5. Ascending(S) = Lined(InCount(S), Cardinality(S))
  BY DEF Ascending, Sorted, Lined, InCount
<1>6. Enumerates(Ascending(S), S)
  BY <1>3, <1>4, <1>5, SortedEnumerates
<1>7. DOMAIN Ascending(S) = 1..Cardinality(S)
  BY <1>5 DEF Lined
<1> QED
  BY <1>3, <1>4, <1>5, <1>6, <1>7

\* A number greater than all of S comes last.
LEMMA AscendingGrows ==
    ASSUME NEW S, IsFiniteSet(S), S \subseteq Nat, NEW m \in Nat, \A i \in S : i < m
    PROVE  /\ DOMAIN Ascending(S \cup {m}) = 1..(Cardinality(S) + 1)
           /\ Cardinality(S) \in Nat
           /\ \A n \in 1..Cardinality(S) : Ascending(S \cup {m})[n] = Ascending(S)[n]
           /\ Ascending(S \cup {m})[Cardinality(S) + 1] = m
<1> DEFINE T == S \cup {m}
           size == Cardinality(S)
           old == InCount(S)
           new == InCount(T)
<1>1. m \notin S /\ IsFiniteSet(T) /\ Cardinality(T) = size + 1 /\ size \in Nat /\ T \subseteq Nat
  BY FS_AddElement, FS_CardinalityType
<1>2. \A x \in S : {y \in T \ {x} : y < x} = {y \in S \ {x} : y < x}
  OBVIOUS
<1>3. {y \in T \ {m} : y < m} = S
  BY <1>1
<1>4. new = old \cup {<<size + 1, m>>}
  <2> DEFINE place(x) == <<Cardinality({y \in T \ {x} : y < x}) + 1, x>>
  <2>1. new = {place(x) : x \in S} \cup {place(m)}
    BY DEF InCount
  <2>2. place(m) = <<size + 1, m>>
    BY <1>3
  <2>3. \A x \in S : place(x) = <<Cardinality({y \in S \ {x} : y < x}) + 1, x>>
    BY <1>2
  <2>4. {place(x) : x \in S} = old
    BY <2>3 DEF InCount
  <2> QED
    BY <2>1, <2>2, <2>4
<1>5. Ascending(S) = Lined(old, size) /\ Ascending(T) = Lined(new, size + 1)
  BY <1>1, AscendingIs
<1>6. \A r \in old : r[1] \in 1..size
  <2>1. old = Placed(LessIn(S), S) /\ Orders(LessIn(S), S)
    BY AscendingIs
  <2>2. Placed(LessIn(S), S) = {<<PlaceAmong(LessIn(S), S, x), x>> : x \in S}
    BY DEF Placed, PlaceAmong, Earlier
  <2>3. \A x \in S : PlaceAmong(LessIn(S), S, x) \in 1..size
    BY <2>1, PlacesAreNumbers
  <2> QED
    BY <2>1, <2>2, <2>3
<1> HIDE DEF old, new, T, size
<1>7. \A n \in 1..size : (CHOOSE r \in new : r[1] = n) = (CHOOSE r \in old : r[1] = n)
  <2> SUFFICES ASSUME NEW n \in 1..size
               PROVE  (CHOOSE r \in new : r[1] = n) = (CHOOSE r \in old : r[1] = n)
    OBVIOUS
  <2>1. n # size + 1
    BY <1>1
  <2>2. \A r : (r \in new /\ r[1] = n) <=> (r \in old /\ r[1] = n)
    BY <1>4, <2>1
  <2> QED
    BY <2>2
<1>8. (CHOOSE r \in new : r[1] = size + 1) = <<size + 1, m>>
  <2>1. \A r \in new : r[1] = size + 1 => r = <<size + 1, m>>
    BY <1>1, <1>4, <1>6
  <2>2. <<size + 1, m>> \in new /\ <<size + 1, m>>[1] = size + 1
    BY <1>4
  <2> QED
    BY <2>1, <2>2
<1>9. \A n \in 1..size : n \in 1..(size + 1)
  BY <1>1
<1>10. size + 1 \in 1..(size + 1)
  BY <1>1
<1>11. DOMAIN Ascending(T) = 1..(size + 1) /\ \A n \in 1..size : Ascending(S)[n] = (CHOOSE r \in old : r[1] = n)[2]
  BY <1>5 DEF Lined
<1>12. \A n \in 1..(size + 1) : Ascending(T)[n] = (CHOOSE r \in new : r[1] = n)[2]
  BY <1>5 DEF Lined
<1>13. \A n \in 1..size : Ascending(T)[n] = Ascending(S)[n]
  BY <1>7, <1>9, <1>11, <1>12
<1>14. Ascending(T)[size + 1] = m
  BY <1>8, <1>10, <1>12
<1> QED
  BY <1>1, <1>11, <1>13, <1>14 DEF T, size

\* Sequences, and one element more.
IsASequence(s) == s \in Seq(On(s))

LEMMA Appended ==
    ASSUME NEW s, IsASequence(s), NEW w
    PROVE  /\ Append(s, w) = [n \in 1..(Len(s) + 1) |-> IF n = Len(s) + 1 THEN w ELSE s[n]]
           /\ IsASequence(Append(s, w)) /\ Len(Append(s, w)) = Len(s) + 1 /\ Len(s) \in Nat /\ DOMAIN s = 1..Len(s)
<1> DEFINE S == On(s) \cup {w}
<1>1. s \in Seq(S) /\ w \in S /\ Len(s) \in Nat /\ DOMAIN s = 1..Len(s)
  BY DEF IsASequence
<1> HIDE DEF S
<1>2. Append(s, w) = [n \in 1..(Len(s) + 1) |-> IF n = Len(s) + 1 THEN w ELSE s[n]]
  <2>1. PICK t : t = Append(s, w)
    OBVIOUS
  <2>2. t \in Seq(S) /\ Len(t) = Len(s) + 1 /\ t[Len(s) + 1] = w /\ \A i \in 1..Len(s) : t[i] = s[i]
    BY <1>1, <2>1, AppendProperties
  <2>3. t = [n \in 1..(Len(s) + 1) |-> t[n]]
    BY <1>1, <2>2
  <2>4. \A n \in 1..(Len(s) + 1) : t[n] = IF n = Len(s) + 1 THEN w ELSE s[n]
    BY <1>1, <2>2
  <2> QED
    BY <2>1, <2>3, <2>4
<1>3. Append(s, w) = [n \in 1..(Len(s) + 1) |-> Append(s, w)[n]] /\ Len(s) + 1 \in Nat
  BY <1>1, <1>2
<1> QED
  BY <1>1, <1>2, <1>3, IsSequence DEF IsASequence

-----------------------------------------------------------------------------
(* Stretches of TRUE, and how they go on.                                  *)

Widths(on, S) == LET order == Ascending(S) IN [n \in DOMAIN order |-> Width(on, order[n])]

\* The stretches that have ended.
Ended(on) == {i \in Starts(on) : \E j \in DOMAIN on : j > i /\ ~on[j]}

Stops(on, i) == {j \in DOMAIN on : j > i /\ ~on[j]} \cup {Len(on)}

LEMMA StretchesAre == \A on : Stretches(on) = Widths(on, Starts(on))
BY DEF Stretches, Widths, Ascending

LEMMA StartsAre ==
    ASSUME NEW on \in Seq(BOOLEAN)
    PROVE  /\ Len(on) \in Nat /\ DOMAIN on = 1..Len(on) /\ \A i \in DOMAIN on : on[i] \in BOOLEAN
           /\ IsFiniteSet(Starts(on)) /\ Starts(on) \subseteq 1..Len(on)
           /\ IsFiniteSet(Ended(on)) /\ Ended(on) \subseteq Starts(on)
<1>1. Len(on) \in Nat /\ DOMAIN on = 1..Len(on) /\ \A i \in DOMAIN on : on[i] \in BOOLEAN
  OBVIOUS
<1>2. Starts(on) \subseteq 1..Len(on) /\ Ended(on) \subseteq Starts(on)
  BY <1>1 DEF Starts, Ended
<1>3. IsFiniteSet(1..Len(on))
  BY <1>1, FS_Interval
<1>4. IsFiniteSet(Starts(on))
  BY <1>2, <1>3, FS_Subset
<1> QED
  BY <1>1, <1>2, <1>4, FS_Subset

\* A stretch that has not ended is the last one, and goes on.
LEMMA LastStretch ==
    ASSUME NEW on \in Seq(BOOLEAN), NEW s \in Starts(on) \ Ended(on)
    PROVE  /\ Starts(on) = Ended(on) \cup {s}
           /\ \A i \in Ended(on) : i < s
           /\ \A j \in s..Len(on) : on[j]
<1>1. /\ Len(on) \in Nat /\ DOMAIN on = 1..Len(on) /\ \A i \in DOMAIN on : on[i] \in BOOLEAN
      /\ Starts(on) \subseteq 1..Len(on) /\ Ended(on) \subseteq Starts(on)
  BY StartsAre
<1>2. \A j \in s..Len(on) : on[j]
  <2> SUFFICES ASSUME NEW j \in s..Len(on), ~on[j]
               PROVE  FALSE
    OBVIOUS
  <2>1. s \in 1..Len(on) /\ on[s]
    BY <1>1 DEF Starts
  <2>2. j \in DOMAIN on /\ j > s
    BY <1>1, <2>1
  <2> QED
    BY <2>2 DEF Ended
<1>3. \A i \in Starts(on) : ~(i > s)
  <2> SUFFICES ASSUME NEW i \in Starts(on), i > s
               PROVE  FALSE
    OBVIOUS
  <2>1. i \in 1..Len(on) /\ s \in 1..Len(on) /\ (i = 1 \/ ~on[i - 1])
    BY <1>1 DEF Starts
  <2>2. i # 1 /\ i - 1 \in s..Len(on)
    BY <1>1, <2>1
  <2> QED
    BY <1>2, <2>1, <2>2
<1>4. \A i \in Starts(on) : i \notin Ended(on) => i = s
  <2> SUFFICES ASSUME NEW i \in Starts(on), i \notin Ended(on), i # s
               PROVE  FALSE
    OBVIOUS
  <2>1. i \in 1..Len(on) /\ s \in 1..Len(on) /\ (s = 1 \/ ~on[s - 1])
    BY <1>1 DEF Starts
  <2>2. i < s /\ s # 1
    BY <1>1, <1>3, <2>1
  <2>3. i \in DOMAIN on /\ on[i]
    BY DEF Starts
  <2>4. s - 1 \in DOMAIN on /\ ~on[s - 1] /\ s - 1 # i
    BY <1>1, <2>1, <2>2, <2>3
  <2>5. s - 1 > i
    BY <1>1, <2>1, <2>2, <2>4
  <2> QED
    BY <2>4, <2>5 DEF Ended
<1>5. \A i \in Ended(on) : i < s
  BY <1>1, <1>3
<1> QED
  BY <1>1, <1>2, <1>4, <1>5

\* If none goes on, all have ended.
LEMMA AllEnded ==
    ASSUME NEW on \in Seq(BOOLEAN), Len(on) > 0 => ~on[Len(on)]
    PROVE  Ended(on) = Starts(on)
<1>1. Len(on) \in Nat /\ DOMAIN on = 1..Len(on) /\ Starts(on) \subseteq 1..Len(on) /\ Ended(on) \subseteq Starts(on)
  BY StartsAre
<1>2. ASSUME NEW i \in Starts(on)
      PROVE  i \in Ended(on)
  <2>1. i \in 1..Len(on) /\ on[i]
    BY <1>1 DEF Starts
  <2>2. PICK last : last = Len(on)
    OBVIOUS
  <2>3. last \in Nat /\ i <= last /\ 1 <= i /\ i \in Nat
    BY <1>1, <2>1, <2>2
  <2>4. last > 0
    BY <2>3
  <2>5. last \in DOMAIN on /\ ~on[last]
    BY <1>1, <2>2, <2>3, <2>4
  <2>6. last > i
    BY <2>1, <2>3, <2>5
  <2> QED
    BY <2>5, <2>6 DEF Ended
<1> QED
  BY <1>1, <1>2

\* A width is the way to the first stop.
LEMMA WidthIs ==
    ASSUME NEW on, NEW i, NEW j \in Stops(on, i), \A k \in Stops(on, i) : j <= k, Stops(on, i) \subseteq Nat
    PROVE  Width(on, i) = j - i
<1> DEFINE first == CHOOSE k \in Stops(on, i) : \A n \in Stops(on, i) : k <= n
<1>1. Width(on, i) = first - i
  BY DEF Width, Stops
<1>2. first \in Stops(on, i) /\ \A n \in Stops(on, i) : first <= n
  OBVIOUS
<1> HIDE DEF first
<1>3. first = j
  BY <1>2
<1> QED
  BY <1>1, <1>3

\* The widths, a last one added.
LEMMA WidthsGrow ==
    ASSUME NEW on, NEW S, IsFiniteSet(S), S \subseteq Nat, NEW m \in Nat, \A i \in S : i < m
    PROVE  Widths(on, S \cup {m}) = Append(Widths(on, S), Width(on, m))
<1> DEFINE size == Cardinality(S)
           old == Widths(on, S)
           new == Widths(on, S \cup {m})
<1>1. /\ DOMAIN Ascending(S \cup {m}) = 1..(size + 1) /\ size \in Nat
      /\ \A n \in 1..size : Ascending(S \cup {m})[n] = Ascending(S)[n]
      /\ Ascending(S \cup {m})[size + 1] = m
  BY AscendingGrows
<1>2. DOMAIN Ascending(S) = 1..size
  BY AscendingIs
<1>3. old = [n \in 1..size |-> Width(on, Ascending(S)[n])]
  BY <1>2 DEF Widths
<1>4. new = [n \in 1..(size + 1) |-> Width(on, Ascending(S \cup {m})[n])]
  BY <1>1 DEF Widths
<1> HIDE DEF size, old, new
<1>5. Len(old) = size /\ old \in Seq(On(old)) /\ DOMAIN old = 1..size
  <2>1. old = [n \in 1..size |-> old[n]]
    BY <1>3
  <2> QED
    BY <1>1, <1>3, <2>1, IsSequence
<1>6. \A n \in 1..(size + 1) : new[n] = IF n = size + 1 THEN Width(on, m) ELSE old[n]
  <2> SUFFICES ASSUME NEW n \in 1..(size + 1)
               PROVE  new[n] = IF n = size + 1 THEN Width(on, m) ELSE old[n]
    OBVIOUS
  <2>1. CASE n = size + 1
    BY <1>1, <1>4, <2>1
  <2>2. CASE n # size + 1
    <3>1. n \in 1..size
      BY <1>1, <2>2
    <3> QED
      BY <1>1, <1>3, <1>4, <2>2, <3>1
  <2> QED
    BY <2>1, <2>2
<1>7. new = [n \in 1..(size + 1) |-> IF n = size + 1 THEN Width(on, m) ELSE old[n]]
  BY <1>4, <1>6
<1>8. Append(old, Width(on, m)) = [n \in 1..(size + 1) |-> IF n = size + 1 THEN Width(on, m) ELSE old[n]]
  BY <1>5, Appended DEF IsASequence
<1> QED
  BY <1>7, <1>8 DEF old, new

\* Widths are the same where each of them is.
LEMMA WidthsStay ==
    ASSUME NEW on, NEW next, NEW S, IsFiniteSet(S), S \subseteq Nat, \A i \in S : Width(next, i) = Width(on, i)
    PROVE  Widths(next, S) = Widths(on, S)
<1>1. Enumerates(Ascending(S), S)
  BY AscendingIs
<1>2. \A n \in DOMAIN Ascending(S) : Ascending(S)[n] \in S
  BY <1>1 DEF Enumerates, On
<1> QED
  BY <1>2 DEF Widths

-----------------------------------------------------------------------------
(* What one value more does to them.                                       *)

\* What one value more does to the stretches.
GoesOn(on, v, next) ==
    /\ next \in Seq(BOOLEAN) /\ Len(next) = Len(on) + 1 /\ next[Len(next)] = v
    /\ Starts(next) = Starts(on) \cup (IF v /\ (Len(on) > 0 => ~on[Len(on)]) THEN {Len(on) + 1} ELSE {})
    /\ Ended(next) = IF v THEN Ended(on) ELSE Starts(on)
    /\ \A i \in Ended(on) : Width(next, i) = Width(on, i)
    /\ ~v => \A s \in Starts(on) \ Ended(on) : Width(next, s) = Len(on) + 1 - s

LEMMA StretchesGoOn ==
    ASSUME NEW on \in Seq(BOOLEAN), NEW v \in BOOLEAN, NEW next, next = Append(on, v)
    PROVE  GoesOn(on, v, next)
<1> DEFINE size == Len(on)
<1>1. /\ size \in Nat /\ DOMAIN on = 1..size /\ \A i \in DOMAIN on : on[i] \in BOOLEAN
      /\ Starts(on) \subseteq 1..size /\ Ended(on) \subseteq Starts(on)
  BY StartsAre
<1>2. /\ next \in Seq(BOOLEAN) /\ Len(next) = size + 1 /\ DOMAIN next = 1..(size + 1)
      /\ \A i \in 1..size : next[i] = on[i] /\ i \in DOMAIN next
      /\ next[size + 1] = v /\ size + 1 \in DOMAIN next
  <2>1. next \in Seq(BOOLEAN) /\ Len(next) = size + 1 /\ next[size + 1] = v /\ \A i \in 1..size : next[i] = on[i]
    BY AppendProperties
  <2>2. DOMAIN next = 1..(size + 1)
    BY <2>1
  <2> QED
    BY <1>1, <2>1, <2>2
<1> HIDE DEF size
<1>3. \A i \in 1..size : i \in Starts(next) <=> i \in Starts(on)
  <2> SUFFICES ASSUME NEW i \in 1..size
               PROVE  i \in Starts(next) <=> i \in Starts(on)
    OBVIOUS
  <2>1. i # 1 => i - 1 \in 1..size
    BY <1>1
  <2> QED
    BY <1>1, <1>2, <2>1 DEF Starts
<1>4. size + 1 \in Starts(next) <=> v /\ (size > 0 => ~on[size])
  <2>1. size + 1 \in Starts(next) <=> v /\ (size + 1 = 1 \/ ~next[size])
    <3>1. (size + 1) - 1 = size
      BY <1>1
    <3> QED
      BY <1>2, <3>1 DEF Starts
  <2>2. size + 1 = 1 <=> ~(size > 0)
    BY <1>1
  <2>3. size > 0 => next[size] = on[size]
    BY <1>1, <1>2
  <2> QED
    BY <2>1, <2>2, <2>3
<1>5. Starts(next) = Starts(on) \cup (IF v /\ (size > 0 => ~on[size]) THEN {size + 1} ELSE {})
  <2>1. Starts(next) \subseteq 1..(size + 1)
    <3>1. Starts(next) \subseteq 1..Len(next)
      BY <1>2, StartsAre
    <3> QED
      BY <1>2, <3>1
  <2>2. (\A i \in 1..(size + 1) : i \in 1..size \/ i = size + 1) /\ size + 1 \notin 1..size
    BY <1>1
  <2> QED
    BY <1>1, <1>3, <1>4, <2>1, <2>2
<1>6. \A i \in 1..size : {j \in DOMAIN next : j > i /\ ~next[j]}
                           = {j \in DOMAIN on : j > i /\ ~on[j]} \cup (IF v THEN {} ELSE {size + 1})
  <2> SUFFICES ASSUME NEW i \in 1..size, NEW j \in 1..(size + 1)
               PROVE  j > i /\ ~next[j] <=> (j \in 1..size /\ j > i /\ ~on[j]) \/ (~v /\ j = size + 1)
    BY <1>1, <1>2
  <2>1. CASE j \in 1..size
    <3>1. j # size + 1
      BY <1>1, <2>1
    <3> QED
      BY <1>2, <2>1, <3>1
  <2>2. CASE j = size + 1
    <3>1. j \notin 1..size /\ j > i
      BY <1>1, <2>2
    <3> QED
      BY <1>2, <2>2, <3>1
  <2> QED
    BY <1>1, <2>1, <2>2
<1>7. \A i \in 1..size : i \in Ended(next) <=> i \in Starts(on) /\ (v => i \in Ended(on))
  <2> SUFFICES ASSUME NEW i \in 1..size
               PROVE  i \in Ended(next) <=> i \in Starts(on) /\ (v => i \in Ended(on))
    OBVIOUS
  <2>1. i \in Ended(next) <=> i \in Starts(on) /\ {j \in DOMAIN next : j > i /\ ~next[j]} # {}
    BY <1>3 DEF Ended
  <2>2. i \in Ended(on) <=> i \in Starts(on) /\ {j \in DOMAIN on : j > i /\ ~on[j]} # {}
    BY DEF Ended
  <2> QED
    BY <1>6, <2>1, <2>2
<1>8. size + 1 \notin Ended(next)
  <2>1. \A j \in DOMAIN next : ~(j > size + 1)
    BY <1>1, <1>2
  <2> QED
    BY <2>1 DEF Ended
<1>9. Ended(next) = IF v THEN Ended(on) ELSE Starts(on)
  <2>1. Ended(next) \subseteq 1..(size + 1)
    <3>1. Starts(next) \subseteq 1..Len(next) /\ Ended(next) \subseteq Starts(next)
      BY <1>2, StartsAre
    <3> QED
      BY <1>2, <3>1
  <2>2. \A i \in 1..(size + 1) : i \in 1..size \/ i = size + 1
    BY <1>1
  <2>3. \A i : i \in Ended(next) <=> i \in Starts(on) /\ (v => i \in Ended(on))
    BY <1>1, <1>7, <1>8, <2>1, <2>2
  <2> QED
    BY <1>1, <2>3
<1>10. ASSUME NEW i \in Ended(on)
       PROVE  Width(next, i) = Width(on, i)
  <2> DEFINE stops == {j \in DOMAIN on : j > i /\ ~on[j]}
  <2>1. i \in 1..size /\ stops # {} /\ stops \subseteq Nat /\ stops \subseteq 1..size
    BY <1>1 DEF Ended
  <2>2. PICK j \in stops : \A k \in stops : j <= k
    BY <2>1, LeastNatural
  <2>3. Stops(on, i) = stops \cup {size}
    BY DEF Stops, size
  <2>4. Stops(next, i) = stops \cup (IF v THEN {} ELSE {size + 1}) \cup {size + 1}
    BY <1>2, <1>6, <2>1 DEF Stops
  <2> HIDE DEF stops
  <2>5. Stops(on, i) \subseteq Nat /\ Stops(next, i) \subseteq Nat /\ j <= size /\ j \in Nat
    BY <1>1, <2>1, <2>2, <2>3, <2>4
  <2>6. j \in Stops(on, i) /\ \A k \in Stops(on, i) : j <= k
    BY <2>2, <2>3, <2>5
  <2>7. j \in Stops(next, i) /\ \A k \in Stops(next, i) : j <= k
    <3>1. \A k \in Stops(next, i) : k \in stops \/ k = size + 1
      BY <2>4
    <3>2. j <= size + 1
      BY <1>1, <2>5
    <3> QED
      BY <2>2, <2>4, <3>1, <3>2
  <2>8. Width(on, i) = j - i
    BY <2>5, <2>6, WidthIs
  <2>9. Width(next, i) = j - i
    BY <2>5, <2>7, WidthIs
  <2> QED
    BY <2>8, <2>9
<1>11. ASSUME ~v, NEW s \in Starts(on) \ Ended(on)
       PROVE  Width(next, s) = size + 1 - s
  <2>1. s \in 1..size /\ {j \in DOMAIN on : j > s /\ ~on[j]} = {}
    BY <1>1 DEF Ended
  <2>2. Stops(next, s) = {size + 1}
    BY <1>2, <1>6, <1>11, <2>1 DEF Stops
  <2>3. PICK j : j = size + 1
    OBVIOUS
  <2>4. Stops(next, s) \subseteq Nat /\ j \in Stops(next, s) /\ \A k \in Stops(next, s) : j <= k
    BY <1>1, <2>2, <2>3
  <2>5. Width(next, s) = j - s
    BY <2>4, WidthIs
  <2> QED
    BY <1>1, <2>1, <2>3, <2>5
<1> QED
  BY <1>2, <1>5, <1>9, <1>10, <1>11 DEF size, GoesOn

\* What the events of a block have told of its stretches.
PulsesFit(on, acc) ==
    /\ acc = [active |-> acc.active, widths |-> acc.widths]
    /\ acc.widths = Widths(on, Ended(on))
    /\ IF Len(on) > 0 /\ on[Len(on)] THEN \E s \in Starts(on) \ Ended(on) : acc.active = <<s - 1>>
       ELSE acc.active = <<>>

LEMMA PulsesGoOn ==
    ASSUME NEW on \in Seq(BOOLEAN), NEW v \in BOOLEAN, NEW acc, PulsesFit(on, acc), NEW event, NEW powered,
           event.tick = Len(on), (event.value.powered = powered) <=> v
    PROVE  PulsesFit(Append(on, v), Pulsed(acc, event, powered))
<1> DEFINE size == Len(on)
           under == size > 0 /\ on[size]
           new == Pulsed(acc, event, powered)
<1>1. PICK next : next = Append(on, v)
  OBVIOUS
<1>2. /\ next \in Seq(BOOLEAN) /\ Len(next) = size + 1 /\ next[Len(next)] = v
      /\ Starts(next) = Starts(on) \cup (IF v /\ ~under THEN {size + 1} ELSE {})
      /\ Ended(next) = IF v THEN Ended(on) ELSE Starts(on)
      /\ \A i \in Ended(on) : Width(next, i) = Width(on, i)
      /\ ~v => \A s \in Starts(on) \ Ended(on) : Width(next, s) = size + 1 - s
  <2>1. /\ next \in Seq(BOOLEAN) /\ Len(next) = size + 1 /\ next[Len(next)] = v
        /\ Starts(next) = Starts(on) \cup (IF v /\ (size > 0 => ~on[size]) THEN {size + 1} ELSE {})
        /\ Ended(next) = IF v THEN Ended(on) ELSE Starts(on)
        /\ \A i \in Ended(on) : Width(next, i) = Width(on, i)
        /\ ~v => \A s \in Starts(on) \ Ended(on) : Width(next, s) = size + 1 - s
    <3>1. GoesOn(on, v, next)
      BY <1>1, StretchesGoOn
    <3> QED
      BY <3>1 DEF GoesOn
  <2>2. ~under <=> (size > 0 => ~on[size])
    OBVIOUS
  <2> HIDE DEF under, size
  <2> QED
    BY <2>1, <2>2
<1>3. /\ size \in Nat /\ IsFiniteSet(Ended(on)) /\ Ended(on) \subseteq Starts(on) /\ Starts(on) \subseteq 1..size
      /\ \A i \in DOMAIN on : on[i] \in BOOLEAN
  BY StartsAre
<1>4. Widths(next, Ended(on)) = acc.widths
  <2>1. Ended(on) \subseteq Nat
    BY <1>3
  <2> QED
    BY <1>2, <1>3, <2>1, WidthsStay DEF PulsesFit
<1>5. acc = [active |-> acc.active, widths |-> acc.widths]
  BY DEF PulsesFit
<1> SUFFICES PulsesFit(next, new)
  BY <1>1
<1>6. Len(next) > 0
  BY <1>2, <1>3
<1>7. CASE v /\ ~under
  <2>1. acc.active = <<>>
    BY <1>7 DEF PulsesFit
  <2>2. new = [active |-> <<size>>, widths |-> acc.widths]
    BY <1>5, <1>7, <2>1 DEF Pulsed, StartsPulse
  <2>3. size + 1 \in Starts(next) \ Ended(next) /\ (size + 1) - 1 = size
    BY <1>2, <1>3, <1>7
  <2>4. new.active = <<(size + 1) - 1>>
    BY <2>2, <2>3
  <2> HIDE DEF new
  <2> QED
    BY <1>2, <1>4, <1>6, <1>7, <2>2, <2>3, <2>4 DEF PulsesFit
<1>8. CASE v /\ under
  <2>1. PICK s \in Starts(on) \ Ended(on) : acc.active = <<s - 1>>
    BY <1>8 DEF PulsesFit
  <2>2. new = acc
    BY <1>8, <2>1 DEF Pulsed, StartsPulse
  <2>3. s \in Starts(next) \ Ended(next)
    BY <1>2, <1>8, <2>1
  <2> HIDE DEF new
  <2> QED
    BY <1>2, <1>4, <1>5, <1>6, <1>8, <2>1, <2>2, <2>3 DEF PulsesFit
<1>9. CASE ~v /\ under
  <2>1. PICK s \in Starts(on) \ Ended(on) : acc.active = <<s - 1>>
    BY <1>9 DEF PulsesFit
  <2>2. acc.active # <<>> /\ acc.active[1] = s - 1
    BY <2>1
  <2>3. new = [active |-> <<>>, widths |-> Append(acc.widths, size - (s - 1))]
    BY <1>9, <2>2 DEF Pulsed, StartsPulse
  <2>4. Starts(on) = Ended(on) \cup {s} /\ \A i \in Ended(on) : i < s
    BY LastStretch
  <2>5. s \in Nat /\ Ended(on) \subseteq Nat /\ size - (s - 1) = size + 1 - s
    BY <1>3
  <2>6. Widths(next, Ended(on) \cup {s}) = Append(Widths(next, Ended(on)), Width(next, s))
    BY <1>3, <2>4, <2>5, WidthsGrow
  <2>7. Width(next, s) = size + 1 - s
    BY <1>2, <1>9
  <2>8. Widths(next, Ended(next)) = new.widths
    <3>1. Ended(next) = Ended(on) \cup {s}
      BY <1>2, <1>9, <2>4
    <3>2. new.widths = Append(acc.widths, size - (s - 1))
      BY <2>3
    <3> HIDE DEF new, size
    <3> QED
      BY <1>4, <2>5, <2>6, <2>7, <3>1, <3>2
  <2>9. new = [active |-> new.active, widths |-> new.widths] /\ new.active = <<>>
    BY <2>3
  <2> HIDE DEF new
  <2> QED
    BY <1>2, <1>9, <2>8, <2>9 DEF PulsesFit
<1>10. CASE ~v /\ ~under
  <2>1. acc.active = <<>>
    BY <1>10 DEF PulsesFit
  <2>2. new = acc
    BY <1>10, <2>1 DEF Pulsed, StartsPulse
  <2>3. Ended(on) = Starts(on)
    BY <1>10, AllEnded
  <2> HIDE DEF new
  <2> QED
    BY <1>2, <1>4, <1>5, <1>10, <2>1, <2>2, <2>3 DEF PulsesFit
<1> QED
  BY <1>7, <1>8, <1>9, <1>10

\* No event is needed when nothing changes.
LEMMA PulsesStay ==
    ASSUME NEW on \in Seq(BOOLEAN), NEW acc, PulsesFit(on, acc), Len(on) > 0
    PROVE  PulsesFit(Append(on, on[Len(on)]), acc)
<1>1. PICK v, event : v = on[Len(on)] /\ event = [tick |-> Len(on), value |-> [powered |-> v]]
  OBVIOUS
<1>2. v \in BOOLEAN
  <2>1. Len(on) \in Nat /\ DOMAIN on = 1..Len(on) /\ \A i \in DOMAIN on : on[i] \in BOOLEAN
    BY StartsAre
  <2>2. Len(on) \in DOMAIN on
    BY <2>1
  <2> QED
    BY <1>1, <2>1, <2>2
<1>3. event.tick = Len(on) /\ ((event.value.powered = TRUE) <=> v)
  BY <1>1, <1>2
<1>4. Pulsed(acc, event, TRUE) = acc
  <2>1. CASE v
    <3>1. PICK s : acc.active = <<s>>
      BY <1>1, <2>1 DEF PulsesFit
    <3>2. event.value.powered = TRUE /\ acc.active # <<>>
      BY <1>1, <2>1, <3>1
    <3> QED
      BY <3>2 DEF Pulsed, StartsPulse
  <2>2. CASE ~v
    <3>1. event.value.powered # TRUE /\ acc.active = <<>>
      BY <1>1, <2>2 DEF PulsesFit
    <3> QED
      BY <3>1 DEF Pulsed, StartsPulse
  <2> QED
    BY <1>2, <2>1, <2>2
<1>5. PulsesFit(Append(on, v), Pulsed(acc, event, TRUE))
  BY <1>2, <1>3, PulsesGoOn
<1> QED
  BY <1>1, <1>4, <1>5

\* Closing the pulse under way gives the stretches.
LEMMA PulsesTell ==
    ASSUME NEW on \in Seq(BOOLEAN), NEW acc, PulsesFit(on, acc), Len(on) > 0
    PROVE  Stretches(on) = IF acc.active = <<>> THEN acc.widths
                           ELSE Append(acc.widths, Len(on) - 1 - acc.active[1])
<1>1. /\ Len(on) \in Nat /\ Starts(on) \subseteq 1..Len(on) /\ DOMAIN on = 1..Len(on)
      /\ IsFiniteSet(Ended(on)) /\ Ended(on) \subseteq Starts(on)
  BY StartsAre
<1>2. CASE ~on[Len(on)]
  <2>1. Ended(on) = Starts(on)
    BY <1>2, AllEnded
  <2> QED
    BY <1>2, <2>1, StretchesAre DEF PulsesFit
<1>3. CASE on[Len(on)]
  <2>1. PICK s \in Starts(on) \ Ended(on) : acc.active = <<s - 1>>
    BY <1>3 DEF PulsesFit
  <2>2. acc.active # <<>> /\ acc.active[1] = s - 1
    BY <2>1
  <2>3. Starts(on) = Ended(on) \cup {s} /\ (\A i \in Ended(on) : i < s) /\ \A j \in s..Len(on) : on[j]
    BY LastStretch
  <2>4. s \in 1..Len(on) /\ Ended(on) \subseteq Nat
    BY <1>1
  <2>5. Widths(on, Starts(on)) = Append(acc.widths, Width(on, s))
    <3>1. Widths(on, Ended(on) \cup {s}) = Append(Widths(on, Ended(on)), Width(on, s))
      BY <1>1, <2>3, <2>4, WidthsGrow
    <3> QED
      BY <2>3, <3>1 DEF PulsesFit
  <2>6. Stops(on, s) = {Len(on)}
    <3>1. \A j \in DOMAIN on : j > s => on[j]
      BY <1>1, <2>3, <2>4
    <3> QED
      BY <3>1 DEF Stops
  <2>7. Width(on, s) = Len(on) - s
    <3>1. Stops(on, s) \subseteq Nat /\ Len(on) \in Stops(on, s) /\ \A k \in Stops(on, s) : Len(on) <= k
      BY <1>1, <2>6
    <3> QED
      BY <3>1, WidthIs
  <2>8. Len(on) - 1 - (s - 1) = Len(on) - s
    BY <1>1, <2>4
  <2> QED
    BY <2>2, <2>5, <2>7, <2>8, StretchesAre
<1> QED
  BY <1>2, <1>3

-----------------------------------------------------------------------------
(* The pulses read from events.                                            *)

NoPulse == [active |-> <<>>, widths |-> <<>>]

\* f has what each of the first n events leaves.
ReadsPulses(f, events, p, powered, n) ==
    f = [k \in 0..n |->
            IF k = 0 THEN [active |-> <<>>, widths |-> <<>>]
            ELSE IF events[k].position = p THEN Pulsed(f[k - 1], events[k], powered) ELSE f[k - 1]]

LEMMA PulsesAreDefined ==
    ASSUME NEW n \in Nat, NEW events, NEW p, NEW powered
    PROVE  \E f : ReadsPulses(f, events, p, powered, n)
<1> DEFINE S == {k \in 0..n : \E f : ReadsPulses(f, events, p, powered, k)}
           after(acc, k) == IF events[k].position = p THEN Pulsed(acc, events[k], powered) ELSE acc
<1>1. 0 \in S
  <2>1. PICK f : f = [i \in 0..0 |-> [active |-> <<>>, widths |-> <<>>]]
    OBVIOUS
  <2>2. \A i \in 0..0 : i = 0
    OBVIOUS
  <2>3. f = [i \in 0..0 |-> IF i = 0 THEN [active |-> <<>>, widths |-> <<>>] ELSE after(f[i - 1], i)]
    <3> HIDE DEF after
    <3> QED
      BY <2>1, <2>2
  <2> QED
    BY <2>3 DEF ReadsPulses
<1>2. ASSUME NEW k \in 0..n, k \in S, k < n
      PROVE  k + 1 \in S
  <2>1. PICK f : ReadsPulses(f, events, p, powered, k)
    BY <1>2
  <2>2. f = [i \in 0..k |-> IF i = 0 THEN [active |-> <<>>, widths |-> <<>>] ELSE after(f[i - 1], i)]
    BY <2>1, Zenon DEF ReadsPulses
  <2>3. PICK none : none = [active |-> <<>>, widths |-> <<>>]
    OBVIOUS
  <2>4. PICK g : g = [i \in 0..(k + 1) |-> IF i = 0 THEN none ELSE after(f[i - 1], i)]
    OBVIOUS
  <2> HIDE DEF after
  <2>5. \A i \in 0..k : i \in 0..(k + 1) /\ g[i] = f[i]
    BY <2>2, <2>3, <2>4, Z3
  <2>6. \A i \in 0..(k + 1) : i # 0 => g[i - 1] = f[i - 1]
    BY <2>5
  <2>7. g = [i \in 0..(k + 1) |-> IF i = 0 THEN none ELSE after(g[i - 1], i)]
    BY <2>4, <2>6
  <2>8. ReadsPulses(g, events, p, powered, k + 1)
    BY <2>3, <2>7, Zenon DEF ReadsPulses, after
  <2> QED
    BY <1>2, <2>8
<1> HIDE DEF S
<1>3. 0..n \subseteq S
  BY <1>1, <1>2, CountingUp
<1>4. n \in S
  BY <1>3
<1> QED
  BY <1>4 DEF S

\* Step by step.
LEMMA ReadsPulsesSteps ==
    ASSUME NEW n \in Nat, NEW events, NEW p, NEW powered, NEW f, ReadsPulses(f, events, p, powered, n)
    PROVE  /\ f[0] = NoPulse
           /\ \A k \in 1..n : f[k] = IF events[k].position = p THEN Pulsed(f[k - 1], events[k], powered) ELSE f[k - 1]
<1> DEFINE after(acc, k) == IF events[k].position = p THEN Pulsed(acc, events[k], powered) ELSE acc
<1>1. f = [i \in 0..n |-> IF i = 0 THEN [active |-> <<>>, widths |-> <<>>] ELSE after(f[i - 1], i)]
  BY Zenon DEF ReadsPulses
<1> HIDE DEF after
<1>2. f[0] = NoPulse
  BY <1>1 DEF NoPulse
<1>3. \A k \in 1..n : k \in 0..n /\ k # 0
  OBVIOUS
<1>4. \A k \in 1..n : f[k] = after(f[k - 1], k)
  BY <1>1, <1>3
<1> QED
  BY <1>2, <1>4, Zenon DEF after

\* What the first n events leave depends on no other.
LEMMA PulsesAgree ==
    ASSUME NEW n \in Nat, NEW events, NEW p, NEW powered, NEW f, ReadsPulses(f, events, p, powered, n),
           NEW m \in Nat, NEW more, NEW g, ReadsPulses(g, more, p, powered, m), n <= m,
           \A k \in 1..n : more[k] = events[k]
    PROVE  f[n] = g[n]
<1> DEFINE S == {k \in 0..n : f[k] = g[k]}
<1>1. 0 \in S
  BY ReadsPulsesSteps
<1>2. ASSUME NEW k \in 0..n, k \in S, k < n
      PROVE  k + 1 \in S
  <2>1. k + 1 \in 1..n /\ k + 1 \in 1..m /\ (k + 1) - 1 = k /\ k + 1 \in 0..n
    BY <1>2
  <2>2. f[k + 1] = IF events[k + 1].position = p THEN Pulsed(f[k], events[k + 1], powered) ELSE f[k]
    BY <2>1, ReadsPulsesSteps
  <2>3. g[k + 1] = IF more[k + 1].position = p THEN Pulsed(g[k], more[k + 1], powered) ELSE g[k]
    BY <2>1, ReadsPulsesSteps
  <2>4. f[k] = g[k] /\ more[k + 1] = events[k + 1]
    BY <1>2, <2>1
  <2>5. f[k + 1] = g[k + 1]
    BY <2>2, <2>3, <2>4
  <2> QED
    BY <2>1, <2>5
<1> HIDE DEF S
<1>3. 0..n \subseteq S
  BY <1>1, <1>2, CountingUp
<1> QED
  BY <1>3 DEF S

LEMMA PulsesAre ==
    ASSUME NEW events, Len(events) \in Nat, NEW p, NEW powered
    PROVE  \E f : ReadsPulses(f, events, p, powered, Len(events)) /\ Pulses(events, p, powered) = f[Len(events)]
<1> DEFINE f == CHOOSE g : ReadsPulses(g, events, p, powered, Len(events))
<1>1. Pulses(events, p, powered) = f[Len(events)]
  BY Zenon DEF Pulses, ReadsPulses
<1>2. ReadsPulses(f, events, p, powered, Len(events))
  BY PulsesAreDefined
<1> QED
  BY <1>1, <1>2

LEMMA NoPulses ==
    ASSUME NEW p, NEW powered
    PROVE  Pulses(<<>>, p, powered) = NoPulse
<1>1. Len(<<>>) = 0
  OBVIOUS
<1>2. PICK f : ReadsPulses(f, <<>>, p, powered, 0) /\ Pulses(<<>>, p, powered) = f[0]
  BY <1>1, PulsesAre
<1> QED
  BY <1>2, ReadsPulsesSteps

\* Two sequences, one after the other.
LEMMA Joined ==
    ASSUME NEW s, IsASequence(s), NEW t, IsASequence(t)
    PROVE  /\ Len(s) \in Nat /\ Len(t) \in Nat /\ DOMAIN s = 1..Len(s) /\ DOMAIN t = 1..Len(t)
           /\ IsASequence(s \o t) /\ Len(s \o t) = Len(s) + Len(t) /\ DOMAIN (s \o t) = 1..(Len(s) + Len(t))
           /\ \A i \in 1..Len(s) : (s \o t)[i] = s[i]
           /\ \A i \in 1..Len(t) : (s \o t)[Len(s) + i] = t[i]
<1> DEFINE S == On(s) \cup On(t)
<1>1. s \in Seq(S) /\ t \in Seq(S) /\ Len(s) \in Nat /\ Len(t) \in Nat /\ DOMAIN s = 1..Len(s) /\ DOMAIN t = 1..Len(t)
  BY DEF IsASequence
<1> HIDE DEF S
<1>2. PICK st : st = s \o t
  OBVIOUS
<1>3. st \in Seq(S) /\ Len(st) = Len(s) + Len(t)
      /\ \A i \in 1..(Len(s) + Len(t)) : st[i] = IF i <= Len(s) THEN s[i] ELSE t[i - Len(s)]
  BY <1>1, <1>2, ConcatProperties
<1>4. DOMAIN st = 1..(Len(s) + Len(t)) /\ st = [i \in 1..(Len(s) + Len(t)) |-> st[i]] /\ Len(s) + Len(t) \in Nat
  BY <1>1, <1>3
<1>5. IsASequence(st)
  BY <1>4, IsSequence DEF IsASequence
<1>6. \A i \in 1..Len(s) : st[i] = s[i]
  BY <1>1, <1>3
<1>7. \A i \in 1..Len(t) : st[Len(s) + i] = t[i]
  <2> SUFFICES ASSUME NEW i \in 1..Len(t)
               PROVE  st[Len(s) + i] = t[i]
    OBVIOUS
  <2>1. Len(s) + i \in 1..(Len(s) + Len(t)) /\ ~(Len(s) + i <= Len(s)) /\ (Len(s) + i) - Len(s) = i
    BY <1>1
  <2> QED
    BY <1>3, <2>1
<1> QED
  BY <1>1, <1>2, <1>3, <1>4, <1>5, <1>6, <1>7

\* Events of which at most one is of p.
LEMMA PulsesJoined ==
    ASSUME NEW old, IsASequence(old), NEW new, IsASequence(new), NEW p, NEW powered, NEW e,
           \A i \in DOMAIN new : new[i].position = p => new[i] = e,
           \A i, j \in DOMAIN new : new[i].position = p /\ new[j].position = p => i = j
    PROVE  Pulses(old \o new, p, powered)
             = IF \E i \in DOMAIN new : new[i].position = p THEN Pulsed(Pulses(old, p, powered), e, powered)
               ELSE Pulses(old, p, powered)
<1> DEFINE n == Len(old)
           m == Len(new)
           all == old \o new
           acc == Pulses(old, p, powered)
           seen(k) == \E i \in 1..k : new[i].position = p
<1>1. /\ n \in Nat /\ m \in Nat /\ DOMAIN new = 1..m /\ Len(all) = n + m
      /\ (\A i \in 1..n : all[i] = old[i]) /\ \A i \in 1..m : all[n + i] = new[i]
  BY Joined
<1> HIDE DEF n, m, all
<1>2. PICK f : ReadsPulses(f, all, p, powered, n + m) /\ Pulses(all, p, powered) = f[n + m]
  <2>1. Len(all) \in Nat
    BY <1>1
  <2> QED
    BY <1>1, <2>1, PulsesAre
<1>3. f[n] = acc
  <2>1. PICK g : ReadsPulses(g, old, p, powered, n) /\ acc = g[n]
    BY <1>1, PulsesAre DEF n
  <2>2. n + m \in Nat /\ n <= n + m
    BY <1>1
  <2>3. g[n] = f[n]
    BY <1>1, <1>2, <2>1, <2>2, PulsesAgree
  <2> QED
    BY <2>1, <2>3
<1> HIDE DEF acc
<1> DEFINE S == {k \in 0..m : f[n + k] = IF seen(k) THEN Pulsed(acc, e, powered) ELSE acc}
<1>4. 0 \in S
  <2>1. n + 0 = n /\ ~seen(0) /\ 0 \in 0..m
    BY <1>1
  <2> QED
    BY <1>3, <2>1
<1>5. ASSUME NEW k \in 0..m, k \in S, k < m
      PROVE  k + 1 \in S
  <2>1. /\ k + 1 \in 1..m /\ k + 1 \in 0..m /\ n + (k + 1) \in 1..(n + m) /\ (n + (k + 1)) - 1 = n + k
        /\ n + m \in Nat /\ \A i \in 1..(k + 1) : (i \in 1..k /\ i \in 1..m) \/ i = k + 1
    BY <1>1, <1>5
  <2>2. f[n + (k + 1)] = IF new[k + 1].position = p THEN Pulsed(f[n + k], new[k + 1], powered) ELSE f[n + k]
    <3>1. \A j \in 1..(n + m) : f[j] = IF all[j].position = p THEN Pulsed(f[j - 1], all[j], powered) ELSE f[j - 1]
      BY <1>2, <2>1, ReadsPulsesSteps
    <3>2. all[n + (k + 1)] = new[k + 1]
      BY <1>1, <2>1
    <3> QED
      BY <2>1, <3>1, <3>2
  <2>3. f[n + k] = IF seen(k) THEN Pulsed(acc, e, powered) ELSE acc
    BY <1>5
  <2>4. CASE new[k + 1].position = p
    <3>1. ~seen(k)
      <4> SUFFICES ASSUME NEW i \in 1..k, new[i].position = p
                   PROVE  FALSE
        OBVIOUS
      <4>1. i \in 1..m /\ i # k + 1
        BY <1>1, <2>1
      <4> QED
        BY <1>1, <2>1, <2>4, <4>1
    <3>2. seen(k + 1) /\ new[k + 1] = e
      <4>1. k + 1 \in 1..(k + 1)
        BY <2>1
      <4> QED
        BY <1>1, <2>1, <2>4, <4>1
    <3> HIDE DEF seen
    <3>3. f[n + (k + 1)] = Pulsed(acc, e, powered)
      BY <2>2, <2>3, <2>4, <3>1, <3>2
    <3> QED
      BY <2>1, <3>2, <3>3
  <2>5. CASE new[k + 1].position # p
    <3>1. seen(k + 1) <=> seen(k)
      <4>1. \A i \in 1..k : i \in 1..(k + 1)
        BY <2>1
      <4> QED
        BY <2>1, <2>5, <4>1
    <3> HIDE DEF seen
    <3>2. f[n + (k + 1)] = f[n + k]
      BY <2>2, <2>5
    <3> QED
      BY <2>1, <2>3, <3>1, <3>2
  <2> QED
    BY <2>4, <2>5
<1> HIDE DEF S
<1>6. m \in S
  <2>1. 0..m \subseteq S
    BY <1>1, <1>4, <1>5, CountingUp
  <2> QED
    BY <1>1, <2>1
<1>7. f[n + m] = IF seen(m) THEN Pulsed(acc, e, powered) ELSE acc
  BY <1>6 DEF S
<1> QED
  BY <1>1, <1>2, <1>7 DEF acc, all

-----------------------------------------------------------------------------
(* Scenarios.                                                              *)

\* A scenario is a run of the simulator: what is proved of the one holds of
\* the other (scenario.rs run_scenario).
THEOREM ScenariosAreRuns == ScenarioSpec => Spec
<1>1. ScenarioInit => Init
  BY DEF ScenarioInit
<1>2. [ScenarioNext]_scenarioVars => [Next]_vars
  <2>1. Solve => Next
    BY DEF Solve, Next
  <2>2. Act => Next
    BY DEF Act, Next
  <2>3. Advance => Next
    BY DEF Advance, Next
  <2>4. Report => UNCHANGED vars
    BY DEF Report
  <2>5. UNCHANGED scenarioVars => UNCHANGED vars
    BY DEF scenarioVars
  <2> QED
    BY <2>1, <2>2, <2>3, <2>4, <2>5 DEF ScenarioNext
<1> QED
  BY <1>1, <1>2, PTL DEF ScenarioSpec, Spec

\* Every tick that was reported is told by the trace, and the next snapshot is
\* compared with the last.
TraceInv ==
    /\ IsFiniteSet(DOMAIN world)
    /\ IsASequence(shown) /\ IsASequence(trace)
    /\ Len(shown) \in {tick, tick + 1}
    /\ DOMAIN previous = IF Len(shown) = 0 THEN {} ELSE Observed
    /\ Len(shown) > 0 => \A p \in Observed : previous[p] = shown[Len(shown)][p]
    /\ Len(shown) = 0 => trace = <<>>
    /\ \A n \in DOMAIN trace : trace[n].tick \in Nat
    /\ TraceIsExact
    /\ \A p \in Observed, powered \in BOOLEAN : PulsesFit(Times(p, powered), Pulses(trace, p, powered))

LEMMA TimesAre ==
    ASSUME IsASequence(shown), NEW p, NEW powered
    PROVE  /\ Len(shown) \in Nat /\ DOMAIN shown = 1..Len(shown)
           /\ Times(p, powered) \in Seq(BOOLEAN) /\ Len(Times(p, powered)) = Len(shown)
           /\ \A i \in DOMAIN shown : Times(p, powered)[i] = (shown[i][p].powered = powered)
<1> DEFINE on == Times(p, powered)
<1>1. Len(shown) \in Nat /\ DOMAIN shown = 1..Len(shown)
  BY DEF IsASequence
<1>2. on = [i \in 1..Len(shown) |-> shown[i][p].powered = powered]
  BY <1>1 DEF Times
<1> HIDE DEF on
<1>3. on \in [1..Len(shown) -> BOOLEAN]
  BY <1>2
<1>4. on \in Seq(BOOLEAN) /\ Len(on) = Len(shown)
  BY <1>1, <1>3
<1> QED
  BY <1>1, <1>2, <1>4 DEF on

LEMMA TraceTells ==
    ASSUME TraceInv, tick \in Nat
    PROVE  TraceIsExact /\ PulsesAreStretches
<1>1. TraceIsExact
  BY DEF TraceInv
<1>2. ASSUME Reported, NEW p \in Observed, NEW powered \in BOOLEAN
      PROVE  PulseWidths(trace, tick, p, powered) = Stretches(Times(p, powered))
  <2>1. PICK on, acc : on = Times(p, powered) /\ acc = Pulses(trace, p, powered)
    OBVIOUS
  <2>2. PulsesFit(on, acc)
    BY <2>1 DEF TraceInv
  <2>3. IsASequence(shown) /\ Len(shown) \in {tick, tick + 1} /\ Len(shown) > tick
    BY <1>2 DEF TraceInv, Reported
  <2>4. on \in Seq(BOOLEAN) /\ Len(on) = Len(shown)
    BY <2>1, <2>3, TimesAre
  <2>5. Len(on) > 0 /\ Len(on) - 1 = tick
    BY <2>3, <2>4
  <2>6. Stretches(on) = IF acc.active = <<>> THEN acc.widths ELSE Append(acc.widths, Len(on) - 1 - acc.active[1])
    BY <2>2, <2>4, <2>5, PulsesTell
  <2>7. PulseWidths(trace, tick, p, powered) = IF acc.active = <<>> THEN acc.widths ELSE Append(acc.widths, tick - acc.active[1])
    BY <2>1 DEF PulseWidths
  <2> QED
    BY <2>1, <2>5, <2>6, <2>7
<1> QED
  BY <1>1, <1>2 DEF PulsesAreStretches

LEMMA TraceAtFirst == ScenarioInit => TraceInv
<1> SUFFICES ASSUME ScenarioInit
             PROVE  TraceInv
  OBVIOUS
<1>1. world \in Worlds /\ tick = 0 /\ trace = <<>> /\ previous = <<>> /\ shown = <<>>
  BY DEF ScenarioInit, Init
<1>2. IsFiniteSet(DOMAIN world)
  BY <1>1, ScenarioAssumption
<1>3. IsASequence(<<>>) /\ Len(<<>>) = 0 /\ DOMAIN <<>> = {}
  BY DEF IsASequence
<1>4. TraceIsExact
  BY <1>1, <1>3 DEF TraceIsExact
<1>5. ASSUME NEW p \in Observed, NEW powered \in BOOLEAN
      PROVE  PulsesFit(Times(p, powered), Pulses(trace, p, powered))
  <2>1. PICK on, acc : on = Times(p, powered) /\ acc = Pulses(trace, p, powered)
    OBVIOUS
  <2>2. on \in Seq(BOOLEAN) /\ Len(on) = 0
    BY <1>1, <1>3, <2>1, TimesAre
  <2>3. acc = [active |-> <<>>, widths |-> <<>>]
    BY <1>1, <2>1, NoPulses DEF NoPulse
  <2>4. Ended(on) = {}
    <3>1. Starts(on) \subseteq 1..Len(on) /\ Ended(on) \subseteq Starts(on)
      BY <2>2, StartsAre
    <3>2. 1..Len(on) = {}
      BY <2>2
    <3> QED
      BY <3>1, <3>2
  <2>5. Widths(on, {}) = <<>>
    <3>1. DOMAIN Ascending({}) = 1..Cardinality({})
      BY AscendingIs, FS_EmptySet
    <3>2. Cardinality({}) = 0
      BY FS_EmptySet
    <3>3. DOMAIN Ascending({}) = {}
      BY <3>1, <3>2
    <3> QED
      BY <3>3 DEF Widths
  <2>6. PulsesFit(on, acc)
    BY <2>2, <2>3, <2>4, <2>5 DEF PulsesFit
  <2> QED
    BY <2>1, <2>6
<1>6. \A n \in DOMAIN trace : trace[n].tick \in Nat
  BY <1>1, <1>3
<1> QED
  BY <1>1, <1>2, <1>3, <1>4, <1>5, <1>6 DEF TraceInv

\* Where nothing is reported, the trace tells what it told.
LEMMA TraceStays ==
    ASSUME TraceInv, UNCHANGED <<trace, previous, shown>>, Observed' = Observed, DOMAIN world' = DOMAIN world,
           Len(shown) \in {tick', tick' + 1}
    PROVE  TraceInv'
BY DEF TraceInv, TraceIsExact, Times

LEMMA ObservedStay ==
    ASSUME TypeOK, [Next]_vars
    PROVE  Observed' = Observed /\ DOMAIN world' = DOMAIN world
<1>1. CASE UNCHANGED world
  BY <1>1 DEF Observed
<1>2. CASE \E p \in DOMAIN world, powered \in BOOLEAN : world' = [world EXCEPT ![p].powered = powered]
  <2>1. PICK p \in DOMAIN world, powered \in BOOLEAN : world' = [world EXCEPT ![p].powered = powered]
    BY <1>2
  <2>2. DOMAIN world' = DOMAIN world /\ \A q \in DOMAIN world : world'[q].kind = world[q].kind
    <3>1. world[p] \in Block
      BY DEF TypeOK, IsWorld
    <3>2. [world[p] EXCEPT !.powered = powered].kind = world[p].kind
      BY <3>1 DEF Block
    <3> QED
      BY <2>1, <3>2
  <2> QED
    BY <2>2 DEF Observed
<1>3. UNCHANGED world \/ \E p \in DOMAIN world, powered \in BOOLEAN : world' = [world EXCEPT ![p].powered = powered]
  <2>1. Iterate => UNCHANGED world
    BY DEF Iterate, circuit
  <2>2. AdvanceTick => UNCHANGED world
    BY DEF AdvanceTick
  <2>3. UNCHANGED vars => UNCHANGED world
    BY DEF vars, circuit
  <2>4. \A p \in DOMAIN world, powered \in BOOLEAN : SetPowered(p, powered) => world' = [world EXCEPT ![p].powered = powered]
    BY DEF SetPowered
  <2> QED
    BY <2>1, <2>2, <2>3, <2>4 DEF Next
<1> QED
  BY <1>1, <1>2, <1>3

\* The events of a report: one of every block that changed.
LEMMA ReportIs ==
    ASSUME TypeOK, TraceInv, Report, NEW new,
           new = [i \in DOMAIN InOrder(Changed) |-> Event(tick, InOrder(Changed)[i], Reading(InOrder(Changed)[i]))]
    PROVE  /\ IsASequence(new) /\ trace' = trace \o new
           /\ \A i \in DOMAIN new : new[i].position \in Changed /\ new[i] = Event(tick, new[i].position, Reading(new[i].position))
           /\ \A i, j \in DOMAIN new : new[i].position = new[j].position => i = j
           /\ \A p \in Changed : \E i \in DOMAIN new : new[i].position = p
<1> DEFINE order == InOrder(Changed)
<1>1. Enumerates(order, Changed)
  <2>1. Changed \subseteq DOMAIN world /\ DOMAIN world \subseteq Position /\ IsFiniteSet(DOMAIN world)
    BY DEF Changed, Observed, TypeOK, IsWorld, TraceInv
  <2>2. IsFiniteSet(Changed)
    BY <2>1, FS_Subset
  <2> QED
    BY <2>1, <2>2, InOrderEnumerates
<1>2. trace' = trace \o new
  BY DEF Report
<1> HIDE DEF order
<1>3. /\ order \in Seq(Changed) /\ Len(order) \in Nat /\ DOMAIN order = 1..Len(order)
      /\ \A i \in DOMAIN order : order[i] \in Changed
      /\ \A p \in Changed : \E i \in DOMAIN order : order[i] = p
      /\ \A i, j \in DOMAIN order : order[i] = order[j] => i = j
  BY <1>1 DEF Enumerates, On, Distinct
<1>4. DOMAIN new = DOMAIN order /\ \A i \in DOMAIN order : new[i] = Event(tick, order[i], Reading(order[i]))
  BY DEF order
<1>5. \A i \in DOMAIN order : new[i].position = order[i]
  BY <1>4 DEF Event
<1>6. IsASequence(new)
  <2>1. new = [i \in 1..Len(order) |-> new[i]]
    BY <1>3, <1>4
  <2> QED
    BY <1>3, <2>1, IsSequence DEF IsASequence
<1> HIDE DEF order
<1>7. \A i \in DOMAIN new : new[i].position \in Changed /\ new[i] = Event(tick, new[i].position, Reading(new[i].position))
  <2> SUFFICES ASSUME NEW i \in DOMAIN new
               PROVE  new[i].position \in Changed /\ new[i] = Event(tick, new[i].position, Reading(new[i].position))
    OBVIOUS
  <2>1. PICK p : p = order[i]
    OBVIOUS
  <2>2. p \in Changed /\ new[i] = Event(tick, p, Reading(p)) /\ new[i].position = p
    BY <1>3, <1>4, <1>5, <2>1
  <2> QED
    BY <2>2
<1>8. \A i, j \in DOMAIN new : new[i].position = new[j].position => i = j
  BY <1>3, <1>4, <1>5
<1>9. \A p \in Changed : \E i \in DOMAIN new : new[i].position = p
  BY <1>3, <1>4, <1>5
<1> QED
  BY <1>2, <1>6, <1>7, <1>8, <1>9

LEMMA ReportTells ==
    ASSUME TypeOK, TraceInv, Report
    PROVE  TraceInv'
<1> DEFINE size == Len(shown)
<1>1. PICK new : new = [i \in DOMAIN InOrder(Changed) |->
                            Event(tick, InOrder(Changed)[i], Reading(InOrder(Changed)[i]))]
  OBVIOUS
<1>2. /\ IsASequence(new) /\ trace' = trace \o new
      /\ \A i \in DOMAIN new : /\ new[i].position \in Changed /\ new[i].tick = tick
                               /\ new[i] = Event(tick, new[i].position, Reading(new[i].position))
                               /\ new[i].value = Reading(new[i].position)
      /\ \A i, j \in DOMAIN new : new[i].position = new[j].position => i = j
      /\ \A p \in Changed : \E i \in DOMAIN new : new[i].position = p
  <2>1. /\ IsASequence(new) /\ trace' = trace \o new
        /\ \A i \in DOMAIN new : new[i].position \in Changed /\ new[i] = Event(tick, new[i].position, Reading(new[i].position))
        /\ \A i, j \in DOMAIN new : new[i].position = new[j].position => i = j
        /\ \A p \in Changed : \E i \in DOMAIN new : new[i].position = p
    BY <1>1, ReportIs
  <2>2. \A p, value : Event(tick, p, value).tick = tick /\ Event(tick, p, value).value = value
    BY DEF Event
  <2> QED
    BY <2>1, <2>2
<1>3. /\ UNCHANGED <<world, tick>> /\ Observed' = Observed
      /\ previous' = [p \in DOMAIN previous \cup Changed |-> IF p \in Changed THEN Reading(p) ELSE previous[p]]
      /\ shown' = Append(shown, Readings) /\ ~(Len(shown) > tick)
  BY DEF Report, Reported, vars, circuit, Observed
<1>4. /\ IsASequence(shown) /\ IsASequence(trace) /\ size \in {tick, tick + 1}
      /\ DOMAIN previous = IF size = 0 THEN {} ELSE Observed
      /\ size > 0 => \A p \in Observed : previous[p] = shown[size][p]
      /\ size = 0 => trace = <<>>
      /\ TraceIsExact
  BY DEF TraceInv
<1>5. size = tick /\ size \in Nat /\ DOMAIN shown = 1..size
  <2>1. size \in Nat /\ DOMAIN shown = 1..size
    BY <1>4, Appended
  <2>2. tick \in Nat
    BY DEF TypeOK
  <2>3. size \in {tick, tick + 1} /\ ~(size > tick)
    BY <1>3, <1>4
  <2> HIDE DEF size
  <2>4. size = tick
    BY <2>1, <2>2, <2>3
  <2> QED
    BY <2>1, <2>4
<1>6. /\ IsASequence(shown') /\ Len(shown') = size + 1 /\ DOMAIN shown' = 1..(size + 1)
      /\ (\A i \in 1..size : shown'[i] = shown[i]) /\ shown'[size + 1] = Readings
  <2>1. /\ shown' = [n \in 1..(size + 1) |-> IF n = size + 1 THEN Readings ELSE shown[n]]
        /\ IsASequence(shown') /\ Len(shown') = size + 1
    BY <1>3, <1>4, Appended
  <2>2. (\A i \in 1..size : i \in 1..(size + 1) /\ i # size + 1) /\ size + 1 \in 1..(size + 1)
    BY <1>5
  <2> QED
    BY <2>1, <2>2
<1> HIDE DEF size
<1>7. \A p \in Observed : Readings[p] = Reading(p)
  BY DEF Readings
<1>8. \A p : p \in Changed <=> p \in Observed /\ (size = 0 \/ shown[size][p] # Reading(p))
  BY <1>4, <1>5 DEF Changed
<1>9. DOMAIN previous' = Observed /\ \A p \in Observed : previous'[p] = shown'[size + 1][p]
  <2>1. DOMAIN previous \cup Changed = Observed
    BY <1>4, <1>8
  <2>2. \A p \in Observed : previous'[p] = Reading(p)
    <3>1. \A p \in Observed : p \notin Changed => previous[p] = Reading(p)
      BY <1>4, <1>5, <1>8
    <3> QED
      BY <1>3, <2>1, <3>1
  <2> QED
    BY <1>3, <1>6, <1>7, <2>1, <2>2
<1>10. /\ Len(trace) \in Nat /\ Len(new) \in Nat /\ DOMAIN trace = 1..Len(trace) /\ DOMAIN new = 1..Len(new)
       /\ IsASequence(trace') /\ DOMAIN trace' = 1..(Len(trace) + Len(new))
       /\ \A i \in 1..Len(trace) : trace'[i] = trace[i]
       /\ \A i \in 1..Len(new) : trace'[Len(trace) + i] = new[i]
  BY <1>2, <1>4, Joined
<1>11. ASSUME NEW n \in DOMAIN trace'
       PROVE  \/ n \in DOMAIN trace /\ trace'[n] = trace[n]
              \/ \E i \in DOMAIN new : n = Len(trace) + i /\ trace'[n] = new[i]
  <2>1. CASE n \in 1..Len(trace)
    BY <1>10, <2>1
  <2>2. CASE n \notin 1..Len(trace)
    <3>1. n - Len(trace) \in DOMAIN new /\ n = Len(trace) + (n - Len(trace))
      BY <1>10, <2>2
    <3> QED
      BY <1>10, <3>1
  <2> QED
    BY <2>1, <2>2
<1>12. \A n \in DOMAIN trace : /\ trace[n].tick + 1 \in 1..size /\ trace[n].position \in Observed
                               /\ trace[n].value = shown[trace[n].tick + 1][trace[n].position]
  BY <1>4, <1>5 DEF TraceIsExact
<1>13. \A n \in DOMAIN trace : n \in DOMAIN trace' /\ trace'[n] = trace[n]
  BY <1>10
<1>14. \A i \in DOMAIN new : Len(trace) + i \in DOMAIN trace' /\ trace'[Len(trace) + i] = new[i]
  BY <1>10
<1>15. \A n \in DOMAIN trace' : trace'[n].tick \in Nat
  <2>1. \A n \in DOMAIN trace : trace[n].tick \in Nat
    BY DEF TraceInv
  <2> QED
    BY <1>2, <1>5, <1>11, <2>1
<1>16. TraceIsExact'
  <2>1. ASSUME NEW n \in DOMAIN trace'
        PROVE  /\ trace'[n].tick + 1 \in DOMAIN shown' /\ trace'[n].position \in Observed
               /\ trace'[n].value = shown'[trace'[n].tick + 1][trace'[n].position]
    <3>1. CASE n \in DOMAIN trace /\ trace'[n] = trace[n]
      <4>1. trace[n].tick + 1 \in 1..size /\ trace[n].tick + 1 \in 1..(size + 1)
        BY <1>5, <1>12, <3>1
      <4> QED
        BY <1>6, <1>12, <3>1, <4>1
    <3>2. CASE \E i \in DOMAIN new : n = Len(trace) + i /\ trace'[n] = new[i]
      <4>1. PICK i \in DOMAIN new : trace'[n] = new[i]
        BY <3>2
      <4>2. new[i].tick = size /\ new[i].position \in Observed /\ new[i].value = Reading(new[i].position)
        BY <1>2, <1>5, <1>8
      <4>3. size + 1 \in DOMAIN shown'
        BY <1>5, <1>6
      <4> QED
        BY <1>6, <1>7, <4>1, <4>2, <4>3
    <3> QED
      BY <1>11, <3>1, <3>2
  <2>2. ASSUME NEW n \in DOMAIN trace', NEW m \in DOMAIN trace', n < m
        PROVE  \/ trace'[n].tick < trace'[m].tick
               \/ trace'[n].tick = trace'[m].tick /\ trace'[n].position # trace'[m].position
    <3>1. CASE n \in DOMAIN trace /\ m \in DOMAIN trace
      <4>1. \/ trace[n].tick < trace[m].tick
            \/ trace[n].tick = trace[m].tick /\ trace[n].position # trace[m].position
        BY <1>4, <2>2, <3>1 DEF TraceIsExact
      <4> QED
        BY <1>13, <3>1, <4>1
    <3>2. CASE n \in DOMAIN trace /\ m \notin DOMAIN trace
      <4>1. PICK j \in DOMAIN new : trace'[m] = new[j]
        BY <1>11, <3>2
      <4>2. trace'[n].tick + 1 \in 1..size /\ trace'[m].tick = size
        BY <1>2, <1>5, <1>12, <1>13, <3>2, <4>1
      <4>3. PICK t : t = trace'[n].tick
        OBVIOUS
      <4>4. t < size
        <5>1. t \in Nat /\ t + 1 \in 1..size
          BY <1>13, <1>15, <3>2, <4>2, <4>3
        <5> QED
          BY <1>5, <5>1
      <4> QED
        BY <4>2, <4>3, <4>4
    <3>3. CASE n \notin DOMAIN trace
      <4>1. PICK i \in DOMAIN new : n = Len(trace) + i /\ trace'[n] = new[i]
        BY <1>11, <3>3
      <4>2. m \notin DOMAIN trace
        BY <1>10, <2>2, <4>1
      <4>3. PICK j \in DOMAIN new : m = Len(trace) + j /\ trace'[m] = new[j]
        BY <1>11, <4>2
      <4>4. i # j
        BY <1>10, <2>2, <4>1, <4>3
      <4> QED
        BY <1>2, <4>1, <4>3, <4>4
    <3> QED
      BY <3>1, <3>2, <3>3
  <2>3. ASSUME NEW i \in DOMAIN shown', NEW p \in Observed
        PROVE  (\E n \in DOMAIN trace' : trace'[n].tick = i - 1 /\ trace'[n].position = p)
                   <=> (i = 1 \/ shown'[i][p] # shown'[i - 1][p])
    <3>1. CASE i \in 1..size
      <4>1. (\E n \in DOMAIN trace : trace[n].tick = i - 1 /\ trace[n].position = p)
                <=> (i = 1 \/ shown[i][p] # shown[i - 1][p])
        BY <1>4, <1>5, <3>1 DEF TraceIsExact
      <4>2. shown'[i] = shown[i] /\ (i # 1 => shown'[i - 1] = shown[i - 1])
        BY <1>5, <1>6, <3>1
      <4>3. \A j \in DOMAIN new : new[j].tick # i - 1
        BY <1>2, <1>5, <3>1
      <4>4. (\E n \in DOMAIN trace' : trace'[n].tick = i - 1 /\ trace'[n].position = p)
                <=> \E n \in DOMAIN trace : trace[n].tick = i - 1 /\ trace[n].position = p
        BY <1>11, <1>13, <4>3
      <4> QED
        BY <4>1, <4>2, <4>4
    <3>2. CASE i = size + 1
      <4>1. i - 1 = size /\ (i = 1 <=> size = 0) /\ (size # 0 => shown'[i - 1] = shown[size])
        BY <1>5, <1>6, <3>2
      <4>2. \A n \in DOMAIN trace : trace[n].tick # size
        <5> SUFFICES ASSUME NEW n \in DOMAIN trace, trace[n].tick = size
                     PROVE  FALSE
          OBVIOUS
        <5>1. size + 1 \in 1..size
          BY <1>12
        <5> QED
          BY <1>5, <5>1
      <4>3. (\E n \in DOMAIN trace' : trace'[n].tick = size /\ trace'[n].position = p) <=> p \in Changed
        <5>1. ASSUME NEW n \in DOMAIN trace', trace'[n].tick = size, trace'[n].position = p
              PROVE  p \in Changed
          <6>1. PICK j \in DOMAIN new : trace'[n] = new[j]
            BY <1>11, <4>2, <5>1
          <6> QED
            BY <1>2, <5>1, <6>1
        <5>2. ASSUME p \in Changed
              PROVE  \E n \in DOMAIN trace' : trace'[n].tick = size /\ trace'[n].position = p
          <6>1. PICK j \in DOMAIN new : new[j].position = p
            BY <1>2, <5>2
          <6>2. new[j].tick = size
            BY <1>2, <1>5
          <6> QED
            BY <1>14, <6>1, <6>2
        <5> QED
          BY <5>1, <5>2
      <4>4. shown'[i][p] = Reading(p)
        BY <1>6, <1>7, <3>2
      <4> QED
        BY <1>8, <4>1, <4>3, <4>4
    <3>3. i \in 1..size \/ i = size + 1
      BY <1>5, <1>6
    <3> QED
      BY <3>1, <3>2, <3>3
  <2> QED
    BY <1>3, <2>1, <2>2, <2>3 DEF TraceIsExact
<1>17. ASSUME NEW p \in Observed, NEW powered \in BOOLEAN
       PROVE  PulsesFit(Times(p, powered)', Pulses(trace', p, powered))
  <2>1. PICK on, acc, next : on = Times(p, powered) /\ acc = Pulses(trace, p, powered) /\ next = Times(p, powered)'
    OBVIOUS
  <2>2. PICK v, e : v = (Reading(p).powered = powered) /\ e = Event(tick, p, Reading(p))
    OBVIOUS
  <2>3. PulsesFit(on, acc)
    BY <2>1 DEF TraceInv
  <2>4. on \in Seq(BOOLEAN) /\ Len(on) = size /\ \A i \in 1..size : on[i] = (shown[i][p].powered = powered)
    BY <1>4, <1>5, <2>1, TimesAre DEF size
  <2>5. next = Append(on, v)
    <3>1. next = [i \in 1..(size + 1) |-> shown'[i][p].powered = powered]
      BY <1>6, <2>1 DEF Times
    <3>2. on \in Seq(On(on))
      <4>1. DOMAIN on = 1..size /\ on = [i \in 1..size |-> on[i]]
        BY <2>4
      <4> QED
        BY <1>5, <4>1, IsSequence
    <3>3. Append(on, v) = [i \in 1..(size + 1) |-> IF i = size + 1 THEN v ELSE on[i]]
      BY <2>4, <3>2, Appended DEF IsASequence
    <3>4. \A i \in 1..(size + 1) : (shown'[i][p].powered = powered) = (IF i = size + 1 THEN v ELSE on[i])
      <4> SUFFICES ASSUME NEW i \in 1..(size + 1)
                   PROVE  (shown'[i][p].powered = powered) = (IF i = size + 1 THEN v ELSE on[i])
        OBVIOUS
      <4>1. CASE i = size + 1
        BY <1>6, <1>7, <2>2, <4>1
      <4>2. CASE i # size + 1
        <5>1. i \in 1..size
          BY <1>5, <4>2
        <5> QED
          BY <1>6, <2>4, <4>2, <5>1
      <4> QED
        BY <4>1, <4>2
    <3> QED
      BY <3>1, <3>3, <3>4
  <2>6. Pulses(trace', p, powered) = IF p \in Changed THEN Pulsed(acc, e, powered) ELSE acc
    <3>1. \A i \in DOMAIN new : new[i].position = p => new[i] = e
      BY <1>2, <2>2
    <3>2. \A i, j \in DOMAIN new : new[i].position = p /\ new[j].position = p => i = j
      BY <1>2
    <3>3. (\E i \in DOMAIN new : new[i].position = p) <=> p \in Changed
      BY <1>2
    <3>4. Pulses(trace \o new, p, powered)
            = IF \E i \in DOMAIN new : new[i].position = p THEN Pulsed(Pulses(trace, p, powered), e, powered)
              ELSE Pulses(trace, p, powered)
      <4>1. IsASequence(trace) /\ IsASequence(new)
        BY <1>2, <1>4
      <4> QED
        BY <3>1, <3>2, <4>1, PulsesJoined
    <3>5. Pulses(trace \o new, p, powered) = IF \E i \in DOMAIN new : new[i].position = p THEN Pulsed(acc, e, powered) ELSE acc
      BY <2>1, <3>4, Zenon
    <3>6. trace' = trace \o new
      BY <1>2
    <3> QED
      BY <3>3, <3>5, <3>6
  <2>7. e.tick = Len(on) /\ ((e.value.powered = powered) <=> v) /\ v \in BOOLEAN
    BY <1>5, <2>2, <2>4 DEF Event
  <2>8. CASE p \in Changed
    <3>1. PulsesFit(Append(on, v), Pulsed(acc, e, powered))
      BY <2>3, <2>4, <2>7, PulsesGoOn
    <3> QED
      BY <2>1, <2>5, <2>6, <2>8, <3>1
  <2>9. CASE p \notin Changed
    <3>1. size # 0 /\ shown[size][p] = Reading(p)
      BY <1>8, <2>9
    <3>2. size > 0 /\ size \in 1..size
      BY <1>5, <3>1
    <3>3. on[Len(on)] = v
      BY <2>2, <2>4, <3>1, <3>2
    <3>4. PulsesFit(Append(on, v), acc)
      BY <2>3, <2>4, <3>2, <3>3, PulsesStay
    <3> QED
      BY <2>1, <2>5, <2>6, <2>9, <3>4
  <2> QED
    BY <2>8, <2>9
<1>18. IsFiniteSet(DOMAIN world') /\ Len(shown') \in {tick', tick' + 1} /\ Len(shown') # 0
  BY <1>3, <1>5, <1>6 DEF TraceInv
<1> QED
  BY <1>3, <1>6, <1>9, <1>10, <1>15, <1>16, <1>17, <1>18 DEF TraceInv

\* The trace says exactly what the blocks showed, at every tick, and the
\* widths of pulses are those of the stretches, in every scenario of every
\* circuit (scenario.rs run_scenario and pulse_widths).
THEOREM TracesAreExact == ScenarioSpec => [](TraceIsExact /\ PulsesAreStretches)
<1>1. ScenarioInit => TypeOK /\ TraceInv
  BY InitTypes, TraceAtFirst DEF ScenarioInit
<1>2. TypeOK /\ TraceInv /\ [ScenarioNext]_scenarioVars => (TypeOK /\ TraceInv)'
  <2> SUFFICES ASSUME TypeOK, TraceInv, [ScenarioNext]_scenarioVars
               PROVE  TypeOK' /\ TraceInv'
    OBVIOUS
  <2>1. [Next]_vars
    BY DEF ScenarioNext, Solve, Act, Advance, Report, Next, scenarioVars
  <2>2. TypeOK' /\ Observed' = Observed /\ DOMAIN world' = DOMAIN world
    BY <2>1, StepTypes, ObservedStay
  <2>3. tick \in Nat /\ Len(shown) \in {tick, tick + 1}
    BY DEF TypeOK, TraceInv
  <2>4. CASE Report
    BY <2>2, <2>4, ReportTells
  <2>5. CASE Solve \/ Act \/ UNCHANGED scenarioVars
    <3>1. UNCHANGED <<trace, previous, shown, tick>>
      BY <2>5 DEF Solve, Act, Iterate, SetPowered, scenarioVars, vars, circuit
    <3> QED
      BY <2>2, <2>3, <3>1, TraceStays
  <2>6. CASE Advance
    <3>1. UNCHANGED <<trace, previous, shown>> /\ tick' = tick + 1 /\ Len(shown) > tick
      BY <2>6 DEF Advance, AdvanceTick, Reported
    <3>2. Len(shown) = tick'
      BY <2>3, <3>1
    <3> QED
      BY <2>2, <3>1, <3>2, TraceStays
  <2> QED
    BY <2>2, <2>4, <2>5, <2>6 DEF ScenarioNext
<1>3. TypeOK /\ TraceInv => TraceIsExact /\ PulsesAreStretches
  BY TraceTells DEF TypeOK
<1> QED
  BY <1>1, <1>2, <1>3, PTL DEF ScenarioSpec
=============================================================================
