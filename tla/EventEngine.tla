------------------------------ MODULE EventEngine ------------------------------
(***************************************************************************)
(* The physics event queue and engine of dustroute-minecraft (time/): a    *)
(* queue per game tick, a counter of sub-tick orders per tick, and the     *)
(* loop of run_until_idle, which pops an event, hands it to the caller's   *)
(* handler and applies what the handler answers.  Targets and kinds of     *)
(* events only matter to the handler, which answers whatever it likes.     *)
(***************************************************************************)
EXTENDS Integers, Sequences

CONSTANTS
    Positions, Blocks,  \* the cells of the world and what can stand in them
    FirstWorld,         \* the world given to the engine
    LastTick,           \* the largest tick: u64::MAX in the code
    Outcomes,           \* what the handler may answer
    MaxEvents,          \* max_events: how many events an engine processes
    MaxExternal,        \* bound on the events scheduled from outside
    External,           \* the cause of those
    NoOutcome

Ticks == 0..LastTick
Change == [position : Positions, after : Blocks]
Outcome == [changes : Seq(Change), queued : Seq(Nat)]
Event == [id : Nat, tick : Ticks, sub : Nat, cause : Nat \cup {External}]
Transition == [tick : Ticks, sub : Nat, position : Positions, before : Blocks, after : Blocks, cause : Nat]

ASSUME EngineAssumption ==
    /\ FirstWorld \in [Positions -> Blocks]
    /\ LastTick \in Nat
    /\ MaxEvents \in Nat
    /\ MaxExternal \in Nat
    /\ Outcomes \subseteq Outcome
    /\ External \notin Nat
    /\ NoOutcome \notin Outcome

VARIABLES
    world,    \* the block in every cell
    queue,    \* for every tick the events scheduled in it, in order
    nextId,   \* the id of the next event
    nextSub,  \* for every tick the sub-tick order of its next event
    trace,    \* the state transitions so far
    processed,\* processed_events
    outcome,  \* what is left of the handler's answer to the event popped last
    running,  \* is run_until_idle on the stack
    popped,   \* history: the events popped, current_time is that of the last
    external  \* history: how many events came from outside

queueVars == <<queue, nextId, nextSub>>
vars == <<world, queue, nextId, nextSub, trace, processed, outcome, running, popped, external>>

Pending == UNION {{queue[t][i] : i \in DOMAIN queue[t]} : t \in Ticks}
Popped == {popped[i] : i \in DOMAIN popped}
Current == popped[Len(popped)]
CurrentTick == IF popped = <<>> THEN 0 ELSE Current.tick

\* Mutant: the tick wraps around.
WrappingAdd(tick, delay) == (tick + delay) % (LastTick + 1)

SaturatingAdd(tick, delay) == IF tick + delay > LastTick THEN LastTick ELSE tick + delay

\* PhysicsEventQueue::schedule
Schedule(t, cause) ==
    /\ queue' = [queue EXCEPT ![t] = Append(@, [id |-> nextId, tick |-> t, sub |-> nextSub[t], cause |-> cause])]
    /\ nextId' = nextId + 1
    /\ nextSub' = [nextSub EXCEPT ![t] = @ + 1]

\* The first tick of the BTreeMap.
IsNextTick(t) == queue[t] # <<>> /\ \A u \in Ticks : u < t => queue[u] = <<>>

\* The time of an event, ordered as PhysicsTime is.
Earlier(e, f) == e.tick < f.tick \/ (e.tick = f.tick /\ e.sub < f.sub)

Init ==
    /\ world = FirstWorld
    /\ queue = [t \in Ticks |-> <<>>]
    /\ nextId = 0
    /\ nextSub = [t \in Ticks |-> 0]
    /\ trace = <<>>
    /\ processed = 0
    /\ outcome = NoOutcome
    /\ running = FALSE
    /\ popped = <<>>
    /\ external = 0

\* Mutant: the tick asked for is taken as it is.
ScheduleExternalAnyTime(t) ==
    /\ ~running
    /\ external < MaxExternal
    /\ external' = external + 1
    /\ Schedule(t, External)
    /\ UNCHANGED <<world, trace, processed, outcome, running, popped>>

\* schedule_external: never in a tick that has passed.
ScheduleExternal(t) ==
    /\ ~running
    /\ external < MaxExternal
    /\ external' = external + 1
    /\ Schedule(IF t < CurrentTick THEN CurrentTick ELSE t, External)
    /\ UNCHANGED <<world, trace, processed, outcome, running, popped>>

Run ==
    /\ ~running
    /\ running' = TRUE
    /\ UNCHANGED <<world, queue, nextId, nextSub, trace, processed, outcome, popped, external>>

\* Mutant: an error of the limit does not leave the loop.
ReturnNever ==
    /\ running
    /\ outcome = NoOutcome
    /\ Pending = {} \/ processed >= MaxEvents
    /\ UNCHANGED vars

\* The loop is over: the queue is empty, or the limit is reached.
Return ==
    /\ running
    /\ outcome = NoOutcome
    /\ Pending = {} \/ processed >= MaxEvents
    /\ running' = FALSE
    /\ UNCHANGED <<world, queue, nextId, nextSub, trace, processed, outcome, popped, external>>

\* Pop the next event and ask the handler, which reads the world as it is.
Pop ==
    /\ running
    /\ outcome = NoOutcome
    /\ processed < MaxEvents
    /\ \E t \in Ticks :
        /\ IsNextTick(t)
        /\ popped' = Append(popped, Head(queue[t]))
        /\ queue' = [queue EXCEPT ![t] = Tail(@)]
    /\ outcome' \in Outcomes
    /\ UNCHANGED <<world, nextId, nextSub, trace, processed, running, external>>

\* Apply the next change of the outcome; one that changes nothing leaves no transition.
ApplyChange ==
    /\ outcome # NoOutcome
    /\ outcome.changes # <<>>
    /\ LET change == Head(outcome.changes)
           before == world[change.position]
       IN  /\ world' = [world EXCEPT ![change.position] = change.after]
           /\ trace' = IF before = change.after THEN trace
                       ELSE Append(trace, [tick |-> Current.tick, sub |-> Current.sub,
                                           position |-> change.position, before |-> before,
                                           after |-> change.after, cause |-> Current.id])
    /\ outcome' = [outcome EXCEPT !.changes = Tail(@)]
    /\ UNCHANGED <<queue, nextId, nextSub, processed, running, popped, external>>

\* Schedule the next event of the outcome, once the changes are made.
QueueNext ==
    /\ outcome # NoOutcome
    /\ outcome.changes = <<>>
    /\ outcome.queued # <<>>
    /\ Schedule(SaturatingAdd(Current.tick, Head(outcome.queued)), Current.id)
    /\ outcome' = [outcome EXCEPT !.queued = Tail(@)]
    /\ UNCHANGED <<world, trace, processed, running, popped, external>>

CountEvent ==
    /\ outcome # NoOutcome
    /\ outcome.changes = <<>>
    /\ outcome.queued = <<>>
    /\ outcome' = NoOutcome
    /\ processed' = processed + 1
    /\ UNCHANGED <<world, queue, nextId, nextSub, trace, running, popped, external>>

Loop == Return \/ Pop \/ ApplyChange \/ QueueNext \/ CountEvent

Next == Run \/ Loop \/ \E t \in Ticks : ScheduleExternal(t)

\* A loop that was entered goes on; nobody has to schedule or to run.
Spec == Init /\ [][Next]_vars /\ WF_vars(Loop)

-----------------------------------------------------------------------------
\* Transition i is the last of the first n of s at cell p; none of them is at p.
LastAt(s, p, n, i) ==
    /\ i \in 1..n
    /\ s[i].position = p
    /\ \A j \in 1..n : j > i => s[j].position # p
Untouched(s, p, n) == \A i \in 1..n : s[i].position # p

\* The events as EventOrder knows them.
Ticket(e) == [id |-> e.id, tick |-> e.tick]
Tickets == {Ticket(e) : e \in Pending}
PoppedTickets == [i \in DOMAIN popped |-> Ticket(popped[i])]
Order == INSTANCE EventOrder WITH pending <- Tickets, popped <- PoppedTickets, issued <- nextId

\* Types of the state.
TypeOK ==
    /\ world \in [Positions -> Blocks]
    /\ queue \in [Ticks -> Seq(Event)]
    /\ nextId \in Nat
    /\ nextSub \in [Ticks -> Nat]
    /\ trace \in Seq(Transition)
    /\ processed \in 0..MaxEvents
    /\ outcome \in Outcome \cup {NoOutcome}
    /\ running \in BOOLEAN
    /\ popped \in Seq(Event)
    /\ external \in 0..MaxExternal

\* An event another one caused comes after it: the cause was popped, has a
\* smaller id and an earlier time, whatever delays were asked for and even
\* when saturating_add cuts them at the last tick (engine.rs, run_until_idle).
CauseBeforeEffect ==
    \A e \in Pending \cup Popped : e.cause # External =>
        \E c \in Popped : c.id = e.cause /\ c.id < e.id /\ Earlier(c, e)

\* The trace tells the whole story: every cell holds what its last transition
\* left, or what it held at first, and every transition starts from what the
\* one before it left (the changes loop of run_until_idle).
TraceTellsWorld ==
    /\ \A p \in Positions :
        /\ Untouched(trace, p, Len(trace)) => world[p] = FirstWorld[p]
        /\ \A i \in DOMAIN trace : LastAt(trace, p, Len(trace), i) => world[p] = trace[i].after
    /\ \A k \in DOMAIN trace : LET p == trace[k].position IN
        /\ trace[k].before # trace[k].after
        /\ Untouched(trace, p, k - 1) => trace[k].before = FirstWorld[p]
        /\ \A i \in 1..(k - 1) : LastAt(trace, p, k - 1, i) => trace[k].before = trace[i].after

\* The trace is in time order, and every transition carries the time of the
\* popped event it names as its cause (StateTransition in trace.rs).
TraceIsCausal ==
    /\ \A i, j \in DOMAIN trace : i < j => ~Earlier(trace[j], trace[i])
    /\ \A i \in DOMAIN trace : \E c \in Popped :
        c.id = trace[i].cause /\ c.tick = trace[i].tick /\ c.sub = trace[i].sub

\* No two events have the same place in time, so the order of the trace does
\* not depend on the container (PhysicsTime is the key of every consumer).
TimesAreUnique ==
    \A e, f \in Pending \cup Popped : (e.tick = f.tick /\ e.sub = f.sub) => e = f

\* Queue and engine implement the order of events: tick by tick, first come
\* first served inside a tick, never in the past (test
\* orders_by_tick_then_insertion_order).
ImplementsOrder == Order!Spec

\* run_until_idle returns, even from an unbounded chain of updates (test
\* stops_an_unbounded_update_chain).
RunEnds == running ~> ~running
=============================================================================
