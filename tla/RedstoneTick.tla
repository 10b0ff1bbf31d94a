----------------------------- MODULE RedstoneTick -----------------------------
(***************************************************************************)
(* RedstoneTickSimulator (dustroute-translate sim.rs): the state a circuit *)
(* has at a redstone tick, and the calls new, set_powered and advance_tick *)
(* with solve_instantaneous iterating inside them, one iteration a step.   *)
(***************************************************************************)
EXTENDS RedstoneSolver, Sequences, FiniteSets

CONSTANTS
    Worlds,          \* the circuits a simulator may be created with
    MaxIterations,   \* the bound every call gives the solver
    LampDelay,       \* ticks an unpowered lamp stays lit
    BurnoutToggles,  \* so many toggles of a torch
    BurnoutWindow,   \* within so many ticks make it a candidate
    MaxTicks         \* bound on the ticks simulated

ASSUME SimulatorAssumption ==
    /\ MaxIterations \in Nat \ {0}
    /\ \A W \in Worlds : IsWorld(W) /\ \A p \in OfKind(W, "comparator") : W[p].level \in Signals
    /\ LampDelay \in Nat /\ BurnoutToggles \in Nat \ {0} /\ BurnoutWindow \in Nat /\ MaxTicks \in Nat

VARIABLES
    world,
    tick,
    devices,        \* repeater_powered, torch_lit and comparator_output
    queue,          \* repeater_queues
    toggles,        \* torch_toggle_ticks
    burnout,        \* torch_burnout_candidates
    lampLit,
    offDeadline,    \* lamp_off_deadline, on the lamps that have one
    instantaneous,  \* the electrical state of the last solve
    solve,          \* the loop of solve_instantaneous, NotSolving outside of it
    failed,         \* a call returned InstantaneousSolveDidNotConverge
    sampled,        \* history: the inputs a repeater read while not locked
    toggled,        \* history: the ticks at which a torch changed
    lastPowered     \* history: the last tick at which a lamp was found powered

circuit == <<world, tick, devices, queue, toggles, burnout, sampled, toggled>>
vars == <<circuit, lampLit, offDeadline, instantaneous, solve, failed, lastPowered>>

Repeaters == OfKind(world, "repeater")
Torches == OfKind(world, "torch")
Lamps == OfKind(world, "lamp")
Never == 0 - LampDelay - 1

InitiallyLit(W) ==
    [repeater |-> [p \in OfKind(W, "repeater") |-> W[p].powered],
     torch |-> [p \in OfKind(W, "torch") |-> W[p].powered],
     comparator |-> [p \in OfKind(W, "comparator") |-> W[p].level]]

\* A delay outside of 1..4 is taken to the nearest end.
Delay(W, p) == IF W[p].delay < 1 THEN 1 ELSE AtMost(W[p].delay, 4)

NotSolving == [call |-> "none"]
Running == solve.call # "none"
Idle == ~Running /\ ~failed

\* Enter solve_instantaneous from the call "new", "set" or "tick".
Solving(W, dev, call) ==
    [signals |-> FirstSignals(W, dev), power |-> <<>>, iteration |-> 1, call |-> call]

Init ==
    /\ world \in Worlds
    /\ tick = 0
    /\ devices = InitiallyLit(world)
    /\ queue = [p \in Repeaters |-> [i \in 1..Delay(world, p) |-> devices.repeater[p]]]
    /\ toggles = [p \in Torches |-> <<>>]
    /\ burnout = {}
    /\ lampLit = [p \in Lamps |-> FALSE]
    /\ offDeadline = <<>>
    /\ instantaneous = [signals |-> <<>>, power |-> <<>>]
    /\ solve = Solving(world, devices, "new")
    /\ failed = FALSE
    /\ sampled = [p \in Repeaters |-> <<>>]
    /\ toggled = [p \in Torches |-> {}]
    /\ lastPowered = [p \in Lamps |-> Never]

-----------------------------------------------------------------------------
(* solve_instantaneous.                                                    *)

NextPower == PoweredBlocks(world, devices, solve.signals)
NextLevels == NextSignals(world, devices, solve.signals, NextPower)

\* What a call does with a result: new sets the lamps, advance_tick updates
\* them and set_powered leaves them alone.
LampsStart(power) ==
    /\ lampLit' = [p \in Lamps |-> IsPowered(power, p)]
    /\ lastPowered' = [p \in Lamps |-> IF IsPowered(power, p) THEN tick ELSE Never]
    /\ UNCHANGED offDeadline

\* The deadline an unpowered lamp has, or gets now.
Deadline(p) == IF p \in DOMAIN offDeadline THEN offDeadline[p] ELSE tick + LampDelay

LampsFollow(power) ==
    LET fading == {p \in Lamps : ~IsPowered(power, p) /\ lampLit[p]}
        off == {p \in fading : tick >= Deadline(p)}
    IN  /\ lampLit' = [p \in Lamps |-> IsPowered(power, p) \/ p \in fading \ off]
        /\ offDeadline' = [p \in fading \ off |-> Deadline(p)]
        /\ lastPowered' = [p \in Lamps |-> IF IsPowered(power, p) THEN tick ELSE lastPowered[p]]

Converged ==
    /\ instantaneous' = [signals |-> NextLevels, power |-> NextPower]
    /\ solve' = NotSolving
    /\ \/ solve.call = "new" /\ LampsStart(NextPower)
       \/ solve.call = "tick" /\ LampsFollow(NextPower)
       \/ solve.call = "set" /\ UNCHANGED <<lampLit, offDeadline, lastPowered>>
    /\ UNCHANGED failed

\* After the last iteration the call returns an error and keeps the old
\* electrical state.
Iterated ==
    /\ solve' = IF solve.iteration = MaxIterations THEN NotSolving
                ELSE [signals |-> NextLevels, power |-> NextPower,
                      iteration |-> solve.iteration + 1, call |-> solve.call]
    /\ failed' = (solve.iteration = MaxIterations)
    /\ UNCHANGED <<instantaneous, lampLit, offDeadline, lastPowered>>

Iterate ==
    /\ Running
    /\ IF NextLevels = solve.signals /\ NextPower = solve.power THEN Converged ELSE Iterated
    /\ UNCHANGED circuit

-----------------------------------------------------------------------------
(* set_powered: a switch is thrown between two ticks.                      *)

\* Mutant: the level is not solved again.
SetPoweredUnsolved(p, powered) ==
    /\ Idle
    /\ world' = [world EXCEPT ![p].powered = powered]
    /\ UNCHANGED <<tick, devices, queue, toggles, burnout, sampled, toggled,
                   lampLit, offDeadline, instantaneous, failed, lastPowered, solve>>

SetPowered(p, powered) ==
    /\ Idle
    /\ world' = [world EXCEPT ![p].powered = powered]
    /\ solve' = Solving(world', devices, "set")
    /\ UNCHANGED <<tick, devices, queue, toggles, burnout, sampled, toggled,
                   lampLit, offDeadline, instantaneous, failed, lastPowered>>

-----------------------------------------------------------------------------
(* advance_tick: every device reads the state of the tick before.          *)

Requested(p) == \E q \in Rear(world, p) : RepeaterInputLevel(world, instantaneous, q) > 0

Locked(p) ==
    \E s \in Sides(world, p) :
        /\ p \in Front(world, s)
        /\ \/ KindAt(world, s) = "repeater" /\ devices.repeater[s]
           \/ KindAt(world, s) = "comparator" /\ devices.comparator[s] > 0

\* Mutant: a locked repeater goes on reading its input.
NextQueueUnlocked(p) == Append(Tail(queue[p]), Requested(p))

NextQueue(p) == IF Locked(p) THEN queue[p] ELSE Append(Tail(queue[p]), Requested(p))

NextRepeater(p) == IF Locked(p) THEN devices.repeater[p] ELSE Head(NextQueue(p))

NextTorch(p) == ~TorchSupportIsPowered(world, instantaneous, p)

\* The queue of a comparator has one place, the value it puts out.
NextComparator(p) ==
    LET rear == Best({ElectricalLevelAt(instantaneous, q) : q \in Rear(world, p)})
        side == Best({ElectricalLevelAt(instantaneous, q) : q \in Sides(world, p)})
    IN  IF world[p].subtract THEN SaturatingSub(rear, side)
        ELSE IF rear >= side THEN rear ELSE 0

NextDevices ==
    [repeater |-> [p \in Repeaters |-> NextRepeater(p)],
     torch |-> [p \in Torches |-> NextTorch(p)],
     comparator |-> [p \in DOMAIN devices.comparator |-> NextComparator(p)]]

\* Mutant: the toggles are never dropped.
NextTogglesKept(p) ==
    IF NextTorch(p) = devices.torch[p] THEN toggles[p] ELSE Append(toggles[p], tick + 1)

\* Toggles that left the window are taken from the front, up to the first
\* that did not.
InWindow(ticks) ==
    LET old(i) == tick + 1 - ticks[i] > BurnoutWindow
        first == CHOOSE i \in 1..Len(ticks) : ~old(i) /\ \A j \in 1..(i - 1) : old(j)
    IN  SubSeq(ticks, first, Len(ticks))

\* A torch that changes adds a toggle.
NextToggles(p) ==
    IF NextTorch(p) = devices.torch[p] THEN toggles[p]
    ELSE InWindow(Append(toggles[p], tick + 1))

AdvanceTick ==
    LET changing == {p \in Torches : NextTorch(p) # devices.torch[p]}
    IN  /\ Idle
        /\ tick < MaxTicks
        /\ queue' = [p \in Repeaters |-> NextQueue(p)]
        /\ toggles' = [p \in Torches |-> NextToggles(p)]
        /\ burnout' = burnout \cup {p \in changing : Len(toggles'[p]) >= BurnoutToggles}
        /\ devices' = NextDevices
        /\ tick' = tick + 1
        /\ solve' = Solving(world, devices', "tick")
        /\ sampled' = [p \in Repeaters |-> IF Locked(p) THEN sampled[p] ELSE Append(sampled[p], Requested(p))]
        /\ toggled' = [p \in Torches |-> IF p \in changing THEN toggled[p] \cup {tick + 1} ELSE toggled[p]]
        /\ UNCHANGED <<world, lampLit, offDeadline, instantaneous, failed, lastPowered>>

Next ==
    \/ Iterate
    \/ \E p \in DOMAIN world, powered \in BOOLEAN :
          world[p].kind \in SwitchKinds /\ SetPowered(p, powered)
    \/ AdvanceTick

Spec == Init /\ [][Next]_vars

-----------------------------------------------------------------------------
(* Properties.                                                             *)

TypeOK ==
    /\ IsWorld(world)
    /\ tick \in 0..MaxTicks /\ failed \in BOOLEAN
    /\ devices \in DeviceStates(world)
    /\ DOMAIN queue = Repeaters
    /\ \A p \in Repeaters : queue[p] \in [1..Delay(world, p) -> BOOLEAN]
    /\ sampled \in [Repeaters -> Seq(BOOLEAN)]
    /\ lampLit \in [Lamps -> BOOLEAN] /\ lastPowered \in [Lamps -> Int]
    /\ DOMAIN offDeadline \subseteq Lamps /\ burnout \subseteq Torches
    /\ solve.call \in {"none", "new", "set", "tick"}
    /\ Running => /\ ~failed /\ solve.iteration \in 1..MaxIterations
                  /\ solve.signals \in [DOMAIN world -> Signals]
                  /\ solve.power \in [Conductors(world) -> Power] \cup {<<>>}
    /\ ~failed /\ solve.call # "new" =>
          /\ instantaneous.signals \in [DOMAIN world -> Signals]
          /\ instantaneous.power \in [Conductors(world) -> Power]

\* "instantaneous network did not converge" is never returned: torches and
\* repeaters feed their own inputs, but only a tick later, and within a tick
\* levels only rise.
NeverFails == ~failed

\* What the blocks beside wire d drive it with.
Driven(d) ==
    LET power == [q \in Conductors(world) |-> [strong |-> StrongPower(world, devices, q)]]
    IN  Best({DirectLevelIntoDust(world, devices, power, d, n) : n \in Drivers(world, d)})

\* The wires from which a level reaches wire d in n transfers.
Upstream(feeders, d) ==
    LET up[n \in 0..MaxSignal] == IF n = 0 THEN {d} ELSE UNION {feeders[e] : e \in up[n - 1]}
    IN  up

\* Whenever no call is running, the electrical state is that of the switches
\* and devices as they are now: a wire has what its best driver gives, less
\* one for every transfer on the shortest way from it.
SettledIsShortestWay ==
    LET wires == Wires(world)
        feeders == [d \in wires |-> Feeders(world, d)]
        driven == [d \in wires |-> Driven(d)]
    IN  Idle =>
            /\ feeders \in [wires -> SUBSET wires]
            /\ driven \in [wires -> Signals]
            /\ \A d \in wires :
                  LET up == Upstream(feeders, d)
                  IN  instantaneous.signals[d]
                        = Best(UNION {{SaturatingSub(driven[e], n) : e \in up[n]} : n \in 0..MaxSignal})
            /\ instantaneous.power = PoweredBlocks(world, devices, instantaneous.signals)

\* A repeater puts out what it read `delay` unlocked ticks before, however
\* often it was locked in between and whatever its input did meanwhile.
RepeaterDelays ==
    \A p \in Repeaters :
        LET read == Len(sampled[p])
            delay == Delay(world, p)
        IN  devices.repeater[p] = IF read < delay THEN world[p].powered ELSE sampled[p][read - delay + 1]

\* Between calls a lamp is lit exactly if it was powered at this tick or at
\* one of the LampDelay ticks before: flickering shortens nothing.
LampFadesOnTime ==
    Idle => \A p \in Lamps : lampLit[p] <=> tick - lastPowered[p] <= LampDelay

\* The candidates for burnout are the torches that, at one of their toggles,
\* had toggled often enough within the window before it.
BurnoutIsCounted ==
    burnout = {p \in Torches : \E t \in toggled[p] :
                  Cardinality({u \in toggled[p] : u <= t /\ t - u <= BurnoutWindow}) >= BurnoutToggles}
=============================================================================
