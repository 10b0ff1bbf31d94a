------------------------------ MODULE EventOrder ------------------------------
(***************************************************************************)
(* What the physics event queue promises whoever schedules on it: events   *)
(* leave it tick by tick, and inside a tick in the order in which they     *)
(* were scheduled; nothing is scheduled in a tick that has passed, and     *)
(* nothing is lost or served twice.  An event is its id and its tick.      *)
(***************************************************************************)
EXTENDS Integers, Sequences

CONSTANTS Ticks \* the game ticks there are

VARIABLES
    pending,  \* the events scheduled and not yet served
    popped,   \* the events served, in order
    issued    \* how many events were scheduled

order == <<pending, popped, issued>>

Before(e, f) == e.tick < f.tick \/ (e.tick = f.tick /\ e.id < f.id)

Init ==
    /\ pending = {}
    /\ popped = <<>>
    /\ issued = 0

Schedule(t) ==
    /\ popped = <<>> \/ popped[Len(popped)].tick <= t
    /\ pending' = pending \cup {[id |-> issued, tick |-> t]}
    /\ issued' = issued + 1
    /\ UNCHANGED popped

Serve(e) ==
    /\ \A f \in pending \ {e} : Before(e, f)
    /\ pending' = pending \ {e}
    /\ popped' = Append(popped, e)
    /\ UNCHANGED issued

Next == (\E t \in Ticks : Schedule(t)) \/ (\E e \in pending : Serve(e))

Spec == Init /\ [][Next]_order
=============================================================================
