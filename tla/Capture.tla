------------------------------- MODULE Capture -------------------------------
(***************************************************************************)
(* The regions players select and the circuits that are captured from      *)
(* them: set_region, clear_region, resolve_looked_at_circuit, the tools    *)
(* that capture a circuit, and the cache they share (service.rs,           *)
(* selection.rs).  Requests are served by tasks of their own.  The maps    *)
(* selections, selection_dimensions and circuits have a lock each, and no  *)
(* lock is kept over two of them except in set_region: every lock is an    *)
(* action, and other requests come between.                                *)
(***************************************************************************)
EXTENDS Naturals, Sequences, FiniteSets, SequencesExt

CONSTANTS
    Clients,       \* tasks that serve requests
    Players,
    Spots,         \* the blocks players look at
    Dimensions,
    DimensionOf,   \* [Spots -> Dimensions]
    Allowed,       \* allowed_dimensions of the policy
    None,
    MaxCircuits,   \* MAX_CIRCUIT_SNAPSHOTS (64 in the program)
    TimeToLive,    \* CIRCUIT_SNAPSHOT_TTL (15 minutes)
    MaxTime,       \* bound: how long the clock runs
    MaxStores      \* bound: how many circuits are stored

ASSUME CaptureAssumption ==
    /\ IsFiniteSet(Players) /\ IsFiniteSet(Spots)
    /\ DimensionOf \in [Spots -> Dimensions]
    /\ Allowed \subseteq Dimensions
    /\ None \notin Spots \cup Dimensions
    /\ MaxCircuits \in Nat \ {0}
    /\ TimeToLive \in Nat \ {0}
    /\ MaxTime \in Nat /\ MaxStores \in Nat

VARIABLES
    selection,     \* [Players -> the corners marked: none, one, or two]
    dimension,     \* [Players -> the dimension of the selection, or None]
    stored,        \* every circuit ever stored; its index is its circuit_id
    held,          \* the ids of the circuits the cache still has
    calls,         \* [Clients -> what the client's request has done]
    now,           \* the clock
    overlap        \* history: the players of whom two requests overlapped

vars == <<selection, dimension, stored, held, calls, now, overlap>>

\* A request: where it stands, what it has read, and the id it asks for.
NoCall == [at |-> "Idle", player |-> None, captures |-> FALSE, target |-> None, bounds |-> {},
           dimension |-> None, expires |-> 0, clock |-> 0, id |-> 0]

-----------------------------------------------------------------------------

\* Between the first and the last lock that a request takes on a selection.
InMiddle(c) ==
    \/ calls[c].at \in {"SetDimension", "ClearDimension", "ReadDimension"}
    \/ calls[c].at = "ReadBounds" /\ calls[c].captures

\* Client c takes a lock on the selection of its player, or on its dimension.
Touches(c, player) ==
    overlap' = IF \E d \in Clients \ {c} : calls[d].player = player /\ InMiddle(d)
               THEN overlap \cup {player}
               ELSE overlap

Goto(c, stage) == calls' = [calls EXCEPT ![c].at = stage]

\* The request is answered.
Answer(c) == calls' = [calls EXCEPT ![c] = NoCall]

Init ==
    /\ selection = [p \in Players |-> <<>>]
    /\ dimension = [p \in Players |-> None]
    /\ stored = <<>>
    /\ held = {}
    /\ calls = [c \in Clients |-> NoCall]
    /\ now = 0
    /\ overlap = {}

-----------------------------------------------------------------------------
(* set_region: the player's gaze is observed, then one corner is marked.    *)

\* observe_player and authorize_dimension; then the request goes on at stage.
Observe(c, stage, captures) ==
    \E p \in Players, s \in Spots :
        /\ calls[c].at = "Idle"
        /\ DimensionOf[s] \in Allowed
        /\ calls' = [calls EXCEPT ![c] = [NoCall EXCEPT !.at = stage, !.player = p,
                                                        !.target = s, !.captures = captures]]
        /\ UNCHANGED <<selection, dimension, stored, held, now, overlap>>

MarkFirst(c) ==
    LET p == calls[c].player IN
    /\ calls[c].at = "First"
    /\ selection' = [selection EXCEPT ![p] = <<calls[c].target>>]
    /\ dimension' = [dimension EXCEPT ![p] = DimensionOf[calls[c].target]]
    /\ Touches(c, p)
    /\ Answer(c)
    /\ UNCHANGED <<stored, held, now>>

\* Mutant: the player may change the dimension between the corners.
TakesSecondAnywhere(p, s) == Len(selection[p]) = 1

\* A second corner needs a first one, in the dimension of the selection.
TakesSecond(p, s) == Len(selection[p]) = 1 /\ dimension[p] = DimensionOf[s]

MarkSecond(c) ==
    LET p == calls[c].player IN
    /\ calls[c].at = "Second"
    /\ selection' = IF TakesSecond(p, calls[c].target)
                    THEN [selection EXCEPT ![p] = Append(@, calls[c].target)]
                    ELSE selection
    /\ Touches(c, p)
    /\ Answer(c)
    /\ UNCHANGED <<dimension, stored, held, now>>

-----------------------------------------------------------------------------
(* clear_region: the session, then its dimension.                           *)

ClearSelection(c) ==
    \E p \in Players :
        /\ calls[c].at = "Idle"
        /\ selection' = [selection EXCEPT ![p] = <<>>]
        /\ Touches(c, p)
        /\ calls' = [calls EXCEPT ![c] = [NoCall EXCEPT !.at = "ClearDimension", !.player = p]]
        /\ UNCHANGED <<dimension, stored, held, now>>

ClearDimension(c) ==
    /\ calls[c].at = "ClearDimension"
    /\ dimension' = [dimension EXCEPT ![calls[c].player] = None]
    /\ Touches(c, calls[c].player)
    /\ Answer(c)
    /\ UNCHANGED <<selection, stored, held, now>>

-----------------------------------------------------------------------------
(* resolve_looked_at_circuit: the component is discovered, and its bounds   *)
(* become the player's selection.  capture_looked_at_circuit calls it, then *)
(* reads the selection back.                                                *)

SetBounds(c) ==
    LET p == calls[c].player IN
    /\ calls[c].at = "SetBounds"
    /\ selection' = [selection EXCEPT ![p] = <<calls[c].target, calls[c].target>>]
    /\ Touches(c, p)
    /\ Goto(c, "SetDimension")
    /\ UNCHANGED <<dimension, stored, held, now>>

NewDimension(p, s) == DimensionOf[s]

SetDimension(c) ==
    LET p == calls[c].player IN
    /\ calls[c].at = "SetDimension"
    /\ dimension' = [dimension EXCEPT ![p] = NewDimension(p, calls[c].target)]
    /\ Touches(c, p)
    /\ IF calls[c].captures THEN Goto(c, "ReadBounds") ELSE Answer(c)
    /\ UNCHANGED <<selection, stored, held, now>>

-----------------------------------------------------------------------------
(* selected_region, and the capture of what it says: by a capture, by       *)
(* show_region and by a conversion of the selected region.                  *)

ShowRegion(c) ==
    \E p \in Players :
        /\ calls[c].at = "Idle"
        /\ calls' = [calls EXCEPT ![c] = [NoCall EXCEPT !.at = "ReadBounds", !.player = p]]
        /\ UNCHANGED <<selection, dimension, stored, held, now, overlap>>

ReadBounds(c) ==
    LET p == calls[c].player IN
    /\ calls[c].at = "ReadBounds"
    /\ IF Len(selection[p]) = 2
       THEN calls' = [calls EXCEPT ![c].at = "ReadDimension",
                                   ![c].bounds = ToSet(selection[p])]
       ELSE Answer(c)
    /\ Touches(c, p)
    /\ UNCHANGED <<selection, dimension, stored, held, now>>

ReadDimension(c) ==
    LET p == calls[c].player IN
    /\ calls[c].at = "ReadDimension"
    /\ IF dimension[p] = None
       THEN Answer(c)
       ELSE calls' = [calls EXCEPT ![c].at = "Scan", ![c].dimension = dimension[p]]
    /\ Touches(c, p)
    /\ UNCHANGED <<selection, dimension, stored, held, now>>

\* scan_region answers; the lifetime of the circuit begins.
Scan(c) ==
    /\ calls[c].at = "Scan"
    /\ calls' = [calls EXCEPT ![c].at = "StoreClock", ![c].expires = now + TimeToLive]
    /\ UNCHANGED <<selection, dimension, stored, held, now, overlap>>

\* A region the policy refuses, nothing to discover, or a failing bridge.
AwaitFails(c) ==
    /\ calls[c].at \in {"First", "Second", "SetBounds", "Scan"}
    /\ Answer(c)
    /\ UNCHANGED <<selection, dimension, stored, held, now, overlap>>

-----------------------------------------------------------------------------
(* store_circuit and load_circuit: the clock is read before the lock.       *)

ReadClock(c) ==
    /\ calls[c].at = "StoreClock"
    /\ calls' = [calls EXCEPT ![c].at = "Store", ![c].clock = now]
    /\ UNCHANGED <<selection, dimension, stored, held, now, overlap>>

\* retain: what the cache keeps of its circuits at the time a request read.
Alive(c) == {i \in held : stored[i].expires > calls[c].clock}

HasRoom(ids) == Cardinality(ids) < MaxCircuits

\* Mutant: the circuits that have longest to live make room.
AfterEvictingNewest(ids) ==
    {kept \in SUBSET ids :
        /\ HasRoom(kept)
        /\ \A gone \in ids \ kept :
              /\ ~HasRoom(kept \cup {gone})
              /\ \A i \in kept : stored[i].expires <= stored[gone].expires}

\* What is left when those that expire first are removed until there is room.
AfterEviction(ids) ==
    {kept \in SUBSET ids :
        /\ HasRoom(kept)
        /\ \A gone \in ids \ kept :
              /\ ~HasRoom(kept \cup {gone})
              /\ \A i \in kept : stored[gone].expires <= stored[i].expires}

Store(c) ==
    \E kept \in AfterEviction(Alive(c)) :
        /\ calls[c].at = "Store"
        /\ Len(stored) < MaxStores
        /\ stored' = Append(stored, [player |-> calls[c].player, expires |-> calls[c].expires])
        /\ held' = kept \cup {Len(stored) + 1}
        /\ Answer(c)
        /\ UNCHANGED <<selection, dimension, now, overlap>>

\* A tool that is given a circuit_id.
AskFor(c) ==
    \E p \in Players, id \in 1..MaxStores :
        /\ calls[c].at = "Idle"
        /\ calls' = [calls EXCEPT ![c] = [NoCall EXCEPT !.at = "Load", !.player = p, !.id = id,
                                                        !.clock = now]]
        /\ UNCHANGED <<selection, dimension, stored, held, now, overlap>>

\* The circuit asked for, if it is there and belongs to the player.
Loadable(c) == {i \in Alive(c) : i = calls[c].id /\ stored[i].player = calls[c].player}

Load(c) ==
    /\ calls[c].at = "Load"
    /\ held' = Alive(c)
    /\ IF Loadable(c) = {} THEN Answer(c) ELSE Goto(c, "Loaded")
    /\ UNCHANGED <<selection, dimension, stored, now, overlap>>

\* The tool works on its copy of the circuit, and answers.
Work(c) ==
    /\ calls[c].at = "Loaded"
    /\ Answer(c)
    /\ UNCHANGED <<selection, dimension, stored, held, now, overlap>>

Tick ==
    /\ now < MaxTime
    /\ now' = now + 1
    /\ UNCHANGED <<selection, dimension, stored, held, calls, overlap>>

Next ==
    \/ \E c \in Clients :
        \/ Observe(c, "First", FALSE)
        \/ Observe(c, "Second", FALSE)
        \/ \E captures \in BOOLEAN : Observe(c, "SetBounds", captures)
        \/ MarkFirst(c)
        \/ MarkSecond(c)
        \/ ClearSelection(c)
        \/ ClearDimension(c)
        \/ SetBounds(c)
        \/ SetDimension(c)
        \/ ShowRegion(c)
        \/ ReadBounds(c)
        \/ ReadDimension(c)
        \/ Scan(c)
        \/ AwaitFails(c)
        \/ ReadClock(c)
        \/ Store(c)
        \/ AskFor(c)
        \/ Load(c)
        \/ Work(c)
    \/ Tick

Spec == Init /\ [][Next]_vars

-----------------------------------------------------------------------------

\* As long as no two requests of a player overlapped, the corners of a
\* selection stand in the dimension that is on record for it: the two maps
\* never come apart.
SelectionIsInItsDimension ==
    \A p \in Players \ overlap :
        (\A c \in Clients : calls[c].player = p => ~InMiddle(c)) =>
            \A s \in ToSet(selection[p]) : DimensionOf[s] = dimension[p]

\* The cache never has more than MAX_CIRCUIT_SNAPSHOTS circuits, and for that
\* it gives up as little as it can: a circuit_id stays good for its whole
\* lifetime, unless that many others were stored later or live at least as long.
CacheKeepsItsPromise ==
    /\ Cardinality(held) <= MaxCircuits
    /\ \A i \in DOMAIN stored : i \notin held /\ stored[i].expires > now =>
          Cardinality({j \in DOMAIN stored \ {i} :
                          j > i \/ stored[j].expires >= stored[i].expires}) >= MaxCircuits
=============================================================================
