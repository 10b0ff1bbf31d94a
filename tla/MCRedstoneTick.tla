---------------------------- MODULE MCRedstoneTick ----------------------------
(* Four circuits for TLC: a repeater with a lock and a lamp, a torch that    *)
(* switches itself off, a comparator with a staircase over glass, and dust   *)
(* that falls from a block into a ring driven from two sides.                *)
EXTENDS Scenario, TLC

Plain(kind) ==
    [kind |-> kind, look |-> "default", facing |-> "none", powered |-> FALSE, level |-> MaxSignal,
     delay |-> 1, subtract |-> FALSE, support |-> {}, arms |-> <<>>]

Wire == Plain("wire")
Solid == Plain("solid")
Glass == [Plain("transparent") EXCEPT !.look = "glass"]
Resting(kind, offset) == [Plain(kind) EXCEPT !.support = {offset}]
Down == <<0, -1, 0>>
Facing(kind, facing, delay) == [Plain(kind) EXCEPT !.facing = facing, !.delay = delay]

Relay ==
    <<0, 1, 0>> :> Resting("lever", Down) @@ <<1, 1, 0>> :> Wire
    @@ <<2, 1, 0>> :> Facing("repeater", "east", 2) @@ <<3, 1, 0>> :> Plain("lamp")
    @@ <<2, 1, -1>> :> Facing("repeater", "south", 1) @@ <<2, 1, -2>> :> Resting("lever", Down)

Clock ==
    <<0, 0, 0>> :> Solid @@ <<-1, 0, 0>> :> Resting("lever", <<1, 0, 0>>)
    @@ <<1, 0, 0>> :> [Resting("torch", <<-1, 0, 0>>) EXCEPT !.powered = TRUE]
    @@ <<1, 1, 0>> :> Wire @@ <<0, 1, 0>> :> Wire

Staircase ==
    <<0, 0, 0>> :> Plain("redstone_block")
    @@ <<1, 0, 0>> :> [Facing("comparator", "east", 1) EXCEPT !.level = 0, !.subtract = TRUE]
    @@ <<1, 0, 1>> :> Wire @@ <<0, 0, 1>> :> [Resting("pressure_plate", Down) EXCEPT !.level = 7]
    @@ <<2, 0, 0>> :> Wire @@ <<3, 0, 0>> :> Glass @@ <<3, 1, 0>> :> Wire @@ <<4, 1, 0>> :> Plain("lamp")

Ring ==
    <<0, 2, 0>> :> Resting("lever", Down) @@ <<1, 2, 0>> :> Wire @@ <<1, 1, 0>> :> Solid
    @@ <<2, 1, 0>> :> Wire @@ <<3, 1, 0>> :> Wire @@ <<3, 1, 1>> :> Wire @@ <<2, 1, 1>> :> Wire
    @@ <<3, 1, 2>> :> Resting("lever", Down)

Circuits == {Tabulated(UpdateWireShapes(W)) : W \in {Relay, Clock, Staircase, Ring}}
=============================================================================
