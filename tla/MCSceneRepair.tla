----------------------------- MODULE MCSceneRepair -----------------------------
(* Lines of dust, a ring, a step of a staircase, a clock, and gates        *)
(* between the boundary cells that isolate them, each seen whole or cut    *)
(* off.                                                                    *)
EXTENDS SceneRepair

Lowest(S, i) == Least({p[i] : p \in S})
Highest(S, i) == Greatest({p[i] : p \in S})

\* The box around S with a margin, which leaves no frontier.
BoundsAround(S, margin) ==
    [min |-> [i \in 1..3 |-> Lowest(S, i) - margin], max |-> [i \in 1..3 |-> Highest(S, i) + margin]]

\* Nothing rests on what may be lost.
Devices(blocks) == {p \in DOMAIN blocks : blocks[p].kind \in {"wire", "repeater", "torch"}}

Built(blocks, role) ==
    [world |-> Tabulated(UpdateWireShapes(blocks)), bounds |-> BoundsAround(DOMAIN blocks, 1), role |-> role,
     loose |-> Devices(blocks), targets |-> {}]

Lever == [Plain("lever") EXCEPT !.support = {<<0, -1, 0>>}]

LineBlocks ==
    Fill(Row(0..5, 0, {0}), "solid") @@ <<0, 1, 0>> :> Lever
    @@ Fill(Row(1..3, 1, {0}), "wire") @@ <<4, 1, 0>> :> Facing("repeater", "east") @@ <<5, 1, 0>> :> Plain("wire")
Line == [Built(LineBlocks, "buffer") EXCEPT !.targets = {<<2, 1, 0>>}]

\* The line without its ends and what it stands on.
CutLine ==
    [Line EXCEPT !.bounds = [min |-> <<1, 1, 0>>, max |-> <<4, 1, 0>>], !.targets = {}]

\* A gap behind a repeater that nothing drives.
DeadLine ==
    Built(Fill(Row(0..3, 0, {0}), "solid") @@ <<0, 1, 0>> :> Facing("repeater", "east")
          @@ Fill({<<1, 1, 0>>, <<3, 1, 0>>}, "wire"),
          "unclassified")

\* Two ways to a repeater that leads into itself: without the dust at the
\* end of one of them both are still one traversal group.
Ring ==
    [Built(Fill((0..5) \X {0} \X (0..2), "solid") @@ <<0, 1, 0>> :> Plain("redstone_block")
           @@ <<4, 1, 0>> :> Facing("repeater", "east")
           @@ Fill({<<1, 1, 1>>, <<5, 1, 1>>} \cup Row({1, 2, 3, 5}, 1, {0}) \cup Row(1..5, 1, {2}), "wire"),
           "unclassified") EXCEPT !.loose = {<<2, 1, 0>>}]

Stairs ==
    Built(Fill({<<0, 0, 0>>, <<1, 1, 0>>, <<2, 1, 0>>, <<-1, 0, 0>>, <<3, 1, 0>>}, "solid")
          @@ Fill({<<0, 1, 0>>, <<1, 2, 0>>, <<2, 2, 0>>, <<3, 2, 0>>}, "wire") @@ <<-1, 1, 0>> :> Lever,
          "buffer")

Clock ==
    Built(Fill({<<0, 1, 0>>, <<0, 1, 1>>, <<1, 0, 1>>}, "solid") @@ <<1, 1, 0>> :> Torch("east", <<-1, 0, 0>>)
          @@ Fill({<<1, 1, 1>>, <<0, 2, 1>>, <<0, 2, 0>>}, "wire"),
          "unclassified")

Abutting(cells) ==
    LET placed[n \in 0..Len(cells)] ==
            IF n = 0 THEN <<>>
            ELSE LET so == placed[n - 1]
                 IN  PlacedBlocks([cell |-> cells[n][1], origin |-> cells[n][2], rotation |-> 0]) @@ so
    IN  placed[Len(cells)]

Bounded(origin) == <<BufferedBoundaryCell, origin>>
NotGate ==
    Built(Abutting(<<Bounded(<<-3, -1, 0>>), <<NotTopCell, <<0, 0, 0>>>>, Bounded(<<2, 0, 0>>)>>), "not")
NandGate ==
    [Built(Abutting(<<Bounded(<<-3, -1, 0>>), Bounded(<<-3, -1, 4>>),
                      <<NandCell, <<0, 0, 0>>>>, Bounded(<<4, -1, 2>>)>>),
           "nand") EXCEPT !.loose = {<<-1, 0, 0>>, <<1, 0, 0>>, <<2, 0, 1>>}]

MCCircuits == {Line, CutLine, DeadLine, Ring, Stairs, Clock, NotGate, NandGate}
=============================================================================
