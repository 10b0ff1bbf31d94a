------------------------------- MODULE Scenario -------------------------------
(***************************************************************************)
(* A scenario (dustroute-translate scenario.rs): switches are thrown while *)
(* the simulator runs, and at every tick the blocks observed are written   *)
(* into a trace when they changed.  Beside it the trace that is made of    *)
(* the block updates the bot records in Minecraft (dustroute-mcp           *)
(* transition.rs), and the comparison of the two.  The actions of the      *)
(* scenario are chosen as it runs, and its duration is MaxTicks.           *)
(***************************************************************************)
EXTENDS RedstoneAnalysis

CONSTANT MaxActions   \* bound on the actions that change a switch

ASSUME ScenarioAssumption == MaxActions \in Nat /\ \A W \in Worlds : IsFiniteSet(DOMAIN W)

VARIABLES
    acted,    \* how many actions have changed a switch
    trace,    \* the events written so far: [tick, position, value]
    previous, \* what every block observed showed when an event of it was written last
    initial,  \* history: what the blocks observed showed before tick 0
    shown     \* history: what they showed at each tick

scenarioVars == <<vars, acted, trace, previous, initial, shown>>

Seqs == INSTANCE SequencesExt

\* Blocks whose state in Minecraft is what the simulator says of them: not a
\* comparator or a plate, which show powered and no level, nor a block of
\* redstone, which shows nothing.
Observed == {p \in DOMAIN world :
                world[p].kind \in {"wire", "lever", "button", "torch", "repeater", "lamp"}}

Reading(p) ==
    LET strength == SignalAt(instantaneous.signals, p)
    IN  [strength |-> strength,
         powered |-> strength > 0 \/ IsPowered(instantaneous.power, p) \/ (p \in Lamps /\ lampLit[p])]

Readings == [p \in Observed |-> Reading(p)]

Event(t, p, value) == [tick |-> t, position |-> p, value |-> value]

EventsOf(events, p) == SelectSeq(events, LAMBDA e : e.position = p)

Reported == Len(shown) > tick

ScenarioInit ==
    /\ Init
    /\ acted = 0
    /\ trace = <<>>
    /\ previous = <<>>
    /\ initial = <<>>
    /\ shown = <<>>

Solve ==
    /\ Iterate
    /\ initial' = IF solve.call = "new" /\ Idle' THEN Readings' ELSE initial
    /\ UNCHANGED <<acted, trace, previous, shown>>

Finished == tick = MaxTicks /\ Reported

\* The actions of tick 0 come before its snapshot, those of a later tick
\* before the advance to it.
Act ==
    /\ Reported \/ tick = 0
    /\ ~Finished
    /\ \E p \in DOMAIN world, powered \in BOOLEAN :
          /\ world[p].kind \in SwitchKinds
          /\ SetPowered(p, powered)
          /\ acted' = IF world' = world THEN acted ELSE acted + 1
    /\ acted' <= MaxActions
    /\ UNCHANGED <<trace, previous, initial, shown>>

Advance ==
    /\ Reported
    /\ AdvanceTick
    /\ UNCHANGED <<acted, trace, previous, initial, shown>>

\* The observed blocks that do not show what they showed in their last event.
Changed == {p \in Observed : p \notin DOMAIN previous \/ previous[p] # Reading(p)}

Report ==
    LET order == InOrder(Changed)
    IN  /\ Idle /\ ~Reported
        /\ trace' = trace \o [i \in DOMAIN order |-> Event(tick, order[i], Reading(order[i]))]
        /\ previous' = [p \in DOMAIN previous \cup Changed |-> IF p \in Changed THEN Reading(p) ELSE previous[p]]
        /\ shown' = Append(shown, Readings)
        /\ UNCHANGED <<vars, acted, initial>>

ScenarioNext == Solve \/ Act \/ Advance \/ Report

ScenarioSpec == ScenarioInit /\ [][ScenarioNext]_scenarioVars

-----------------------------------------------------------------------------
(* pulse_widths: how long p was powered, or was not, each time.            *)

StartsPulse(event, powered, active) == event.value.powered = powered /\ active = <<>>

\* The pulse under way, and the widths of those before it, after an event.
Pulsed(acc, event, powered) ==
    IF StartsPulse(event, powered, acc.active) THEN [acc EXCEPT !.active = <<event.tick>>]
    ELSE IF event.value.powered # powered /\ acc.active # <<>>
    THEN [active |-> <<>>, widths |-> Append(acc.widths, event.tick - acc.active[1])]
    ELSE acc

Pulses(events, p, powered) ==
    LET upTo[n \in 0..Len(events)] ==
            IF n = 0 THEN [active |-> <<>>, widths |-> <<>>]
            ELSE IF events[n].position = p THEN Pulsed(upTo[n - 1], events[n], powered) ELSE upTo[n - 1]
    IN  upTo[Len(events)]

PulseWidths(events, duration, p, powered) ==
    LET end == Pulses(events, p, powered)
    IN  IF end.active = <<>> THEN end.widths ELSE Append(end.widths, duration - end.active[1])

-----------------------------------------------------------------------------
(* compare_scenario_traces: the kinds of the differences.                  *)

Occurrences(events, e) == Cardinality({i \in DOMAIN events : events[i] = e})

SameEvents(expected, actual) ==
    \A e \in Seqs!ToSet(expected) \cup Seqs!ToSet(actual) : Occurrences(expected, e) = Occurrences(actual, e)

Difference(e, a) ==
    CASE e.position = a.position /\ e.value = a.value -> "event_tick"
      [] e.tick = a.tick /\ e.value = a.value -> "event_order"
      [] OTHER -> "event"

Compare(expected, actual) ==
    LET e == expected.events
        a == actual.events
        differing == {i \in DOMAIN e \cap DOMAIN a : e[i] # a[i]}
    IN  (IF expected.final = actual.final THEN {} ELSE {"final"})
        \cup (IF Len(e) = Len(a) THEN {} ELSE {"event_count"})
        \cup {IF SameEvents(e, a) THEN "event_order" ELSE Difference(e[i], a[i]) : i \in differing}

-----------------------------------------------------------------------------
(* scenario_trace_from_recording_with_initial.  An update tells the game   *)
(* tick since the recording began and what the block showed before and     *)
(* after.                                                                  *)

\* strength_state and powered_state of a block of an update.
Updated(p, value) ==
    [strength |-> CASE world[p].kind = "wire" -> value.strength
                    [] world[p].kind = "lamp" -> 0
                    [] OTHER -> IF value.powered THEN MaxSignal ELSE 0,
     powered |-> IF world[p].kind = "wire" THEN value.strength > 0 ELSE value.powered]

\* What a block of the snapshot shows: a lamp has a strength here.
Captured(p, value) ==
    LET strength == IF world[p].kind = "wire" THEN value.strength
                    ELSE IF value.powered THEN MaxSignal ELSE 0
    IN  [strength |-> strength, powered |-> strength > 0]

\* Mutant: an update between two redstone ticks goes to the one before.
TickBefore(gameTick) == gameTick \div 2

RedstoneTickOf(gameTick) == (gameTick + 1) \div 2

Baseline(recording, p) ==
    LET updates == EventsOf(recording, p)
    IN  IF updates = <<>> THEN Captured(p, initial[p]) ELSE updates[1].before

\* At tick 0 an update replaces the event that the block began with.
Taken(acc, update) ==
    LET t == RedstoneTickOf(update.gameTick)
        event == Event(t, update.position, update.after)
    IN  [events |-> IF t > 0 THEN Append(acc.events, event)
                    ELSE [i \in DOMAIN acc.events |->
                            IF acc.events[i].position = update.position THEN event ELSE acc.events[i]],
         final |-> [acc.final EXCEPT ![update.position] = update.after]]

LiveTrace(recording, duration) ==
    LET order == InOrder(Observed)
        first == [p \in Observed |-> Baseline(recording, p)]
        kept == SelectSeq(recording, LAMBDA u : RedstoneTickOf(u.gameTick) <= duration)
        step(acc, u) == IF acc.final[u.position] = u.after THEN acc ELSE Taken(acc, u)
    IN  Seqs!FoldLeft(step, [events |-> [i \in DOMAIN order |-> Event(0, order[i], first[order[i]])],
                        final |-> first], kept)

-----------------------------------------------------------------------------
(* Properties.                                                             *)

\* The dust that changes at tick t.
SlippingDust(t) ==
    {p \in Wires(world) : shown[t + 1][p] # (IF t = 0 THEN initial[p] ELSE shown[t][p])}

\* Dust slips at one tick of a run, to one side, or at none.
NoSlip == [at |-> -1, to |-> "after"]
Slips == {NoSlip} \cup {slip \in [at : 0..MaxTicks, to : {"before", "after"}] :
                          SlippingDust(slip.at) # {} /\ (slip.at = 0 => slip.to = "after")}

\* The updates of tick t in a world that does what the simulator does: the
\* bot sees them in either order, in the game tick of t or in the one before.
\* Where the server is late or early, dust is seen on the other side of the
\* boundary to the next redstone tick, or to the one before.
Updates(t, early, backwards, slip) ==
    LET before(p) == Updated(p, IF t = 0 THEN initial[p] ELSE shown[t][p])
        after(p) == Updated(p, shown[t + 1][p])
        slipping == IF t = slip.at THEN SlippingDust(t) ELSE {}
        punctual == {p \in Observed : before(p) # after(p)} \ slipping
        update(p, gameTick) == [gameTick |-> gameTick, position |-> p, before |-> before(p), after |-> after(p)]
        seen(S, gameTick) ==
            LET order == InOrder(S)
                turn(i) == IF backwards THEN Len(order) + 1 - i ELSE i
            IN  [i \in DOMAIN order |-> update(order[turn(i)], gameTick)]
        onTime == seen(punctual, IF t > 0 /\ early THEN 2 * t - 1 ELSE 2 * t)
    IN  IF slip.to = "after" THEN onTime \o seen(slipping, 2 * t + 1)
                             ELSE seen(slipping, 2 * t - 2) \o onTime

Recording(early, backwards, slip) ==
    Seqs!FlattenSeq([i \in DOMAIN shown |-> Updates(i - 1, early, backwards, slip)])

SimulatedTrace(duration) ==
    [events |-> SelectSeq(trace, LAMBDA e : e.tick <= duration), final |-> shown[duration + 1]]

\* When p was powered, or was not.
Times(p, powered) == [i \in DOMAIN shown |-> shown[i][p].powered = powered]

\* Where stretches of TRUE start, the ticks from the start of one to its end
\* (the last one may be cut short), and those of all, one after the other.
Starts(on) == {i \in DOMAIN on : on[i] /\ (i = 1 \/ ~on[i - 1])}

Width(on, i) ==
    LET stops == {j \in DOMAIN on : j > i /\ ~on[j]} \cup {Len(on)}
    IN  (CHOOSE j \in stops : \A k \in stops : j <= k) - i

Stretches(on) ==
    LET order == Sorted(Starts(on), LAMBDA i, j : i < j)
    IN  [n \in DOMAIN order |-> Width(on, order[n])]

\* The trace says what was shown: a block has an event at the first tick, and
\* at every tick at which it shows something else than at the one before; it
\* has no other, and they stand in the order of the ticks.
TraceIsExact ==
    /\ \A n \in DOMAIN trace :
          /\ trace[n].tick + 1 \in DOMAIN shown /\ trace[n].position \in Observed
          /\ trace[n].value = shown[trace[n].tick + 1][trace[n].position]
    /\ \A n, m \in DOMAIN trace :
          n < m => \/ trace[n].tick < trace[m].tick
                   \/ trace[n].tick = trace[m].tick /\ trace[n].position # trace[m].position
    /\ \A i \in DOMAIN shown, p \in Observed :
          (\E n \in DOMAIN trace : trace[n].tick = i - 1 /\ trace[n].position = p)
              <=> (i = 1 \/ shown[i][p] # shown[i - 1][p])

\* The widths of the pulses read from the events are those of the stretches
\* in which the block was powered, whatever its level did meanwhile.
PulsesAreStretches ==
    Reported => \A p \in Observed, powered \in BOOLEAN :
        PulseWidths(trace, tick, p, powered) = Stretches(Times(p, powered))

\* The slip takes an update of dust into the trace or out of it.
CrossesEnd(slip, duration) ==
    \/ slip = [at |-> duration, to |-> "after"]
    \/ slip = [at |-> duration + 1, to |-> "before"]

\* The slip shows in a trace of this duration.
Slipped(slip, duration) ==
    /\ slip # NoSlip
    /\ slip.at <= duration \/ CrossesEnd(slip, duration)

\* A trace tells what happened, event by event and in the widths of the
\* pulses.  The trace recorded in a world that does what the simulator does
\* differs from the simulated one in the order of events only ("exact
\* within-tick vanilla update ordering remains live-observation evidence",
\* README.md), on whichever side of a tick the bot saw an update.  Dust seen
\* on the other side of the boundary between two redstone ticks "remains a
\* visible trace difference without incorrectly claiming a final-state
\* mismatch" (docs/mcp-api-v1.md), unless that boundary is the end of the
\* trace.  A lamp already lit in the snapshot is not compared, and dust that
\* slips is tried in one order within the tick.
TracesTellTheRun ==
    /\ TraceIsExact
    /\ PulsesAreStretches
    /\ Finished /\ (\A p \in Lamps : ~initial[p].powered) =>
          \A early, backwards \in BOOLEAN : \A slip \in IF backwards THEN {NoSlip} ELSE Slips :
              LET recording == Recording(early, backwards, slip)
              IN  \A duration \in {MaxTicks - 1, MaxTicks} \cap Nat :
                      LET differences == Compare(SimulatedTrace(duration), LiveTrace(recording, duration))
                      IN  /\ differences \subseteq {"event_order"} <=> ~Slipped(slip, duration)
                          /\ "final" \in differences <=> CrossesEnd(slip, duration)
=============================================================================
