--------------------------------- MODULE Cells ---------------------------------
(***************************************************************************)
(* The cells a circuit is placed with (dustroute-translate cells.rs,       *)
(* cell_library.rs, port_realization.rs, physical.rs): blocks around an    *)
(* origin, with ports.  A port is a record of the position of its wire or  *)
(* of the block it powers, its kind, and the side it is reached from,      *)
(* "none" for the dust of a terminal.                                      *)
(***************************************************************************)
EXTENDS RedstoneSolver, Sequences, FiniteSets, TLC

\* Block::new and World::place: what a block is unless something is set.
Plain(kind) ==
    [kind |-> kind, look |-> "default", facing |-> "none", powered |-> kind = "torch",
     level |-> MaxSignal, delay |-> 1, subtract |-> FALSE,
     support |-> IF kind \in {"wire", "repeater", "comparator"} THEN {<<0, -1, 0>>} ELSE {},
     arms |-> <<>>]

Facing(kind, facing) == [Plain(kind) EXCEPT !.facing = facing]
Torch(facing, support) == [Facing("torch", facing) EXCEPT !.support = {support}]

Fill(positions, kind) == [p \in positions |-> Plain(kind)]
Row(xs, y, zs) == xs \X {y} \X zs

Port(pos, kind, facing) == [pos |-> pos, kind |-> kind, facing |-> facing]
IsPort(port) ==
    /\ port.pos \in Position /\ port.kind \in {"wire", "block_power"}
    /\ port.facing \in Horizontal \cup (IF port.kind = "wire" THEN {"none"} ELSE {})
Cell(blocks, inputs, outputs) == [blocks |-> Tabulated(UpdateWireShapes(blocks)), inputs |-> inputs, outputs |-> outputs]

TerminalCell ==
    [blocks |-> <<0, 0, 0>> :> Plain("transparent") @@ <<0, 1, 0>> :> Plain("wire"),
     inputs |-> [in |-> Port(<<0, 1, 0>>, "wire", "none")],
     outputs |-> [out |-> Port(<<0, 1, 0>>, "wire", "none")]]

NotTopCell ==
    Cell(Fill(Row({0, 1}, 0, {0}), "solid") @@ <<0, 1, 0>> :> Torch("up", <<0, -1, 0>>)
         @@ <<1, 1, 0>> :> Plain("wire"),
         [a |-> Port(<<0, 0, 0>>, "block_power", "west")],
         [out |-> Port(<<1, 1, 0>>, "wire", "east")])

NotCell ==
    [blocks |-> Fill({<<0, 0, 0>>, <<2, -1, 0>>}, "solid") @@ <<1, 0, 0>> :> Torch("east", <<-1, 0, 0>>)
                @@ <<2, 0, 0>> :> Plain("wire"),
     inputs |-> [a |-> Port(<<0, 0, 0>>, "block_power", "west")],
     outputs |-> [out |-> Port(<<2, 0, 0>>, "wire", "east")]]

BufferedBoundaryCell ==
    Cell(Fill(Row(0..2, 0, {0}), "solid") @@ Fill(Row({0, 2}, 1, {0}), "wire")
         @@ <<1, 1, 0>> :> Facing("repeater", "east"),
         [in |-> Port(<<0, 1, 0>>, "wire", "west")],
         [out |-> Port(<<2, 1, 0>>, "wire", "east")])

OrBufferedCell ==
    Cell(Fill(Row(0..5, 0, 0..2), "solid")
         @@ Fill(Row(0..2, 1, {0, 2}) \cup {<<2, 1, 1>>, <<3, 1, 1>>, <<5, 1, 1>>}, "wire")
         @@ <<4, 1, 1>> :> Facing("repeater", "east"),
         [a |-> Port(<<0, 1, 0>>, "wire", "west"), b |-> Port(<<0, 1, 2>>, "wire", "west")],
         [out |-> Port(<<5, 1, 1>>, "wire", "east")])

\* Mutant: the bar ends one short.
TorchMergeShort ==
    Fill({<<0, 0, 0>>, <<0, 0, 4>>} \cup Row(2..3, -1, 0..4), "solid")
    @@ [p \in {<<1, 0, 0>>, <<1, 0, 4>>} |-> Torch("east", <<-1, 0, 0>>)]
    @@ Fill(Row({2}, 0, 0..3) \cup {<<3, 0, 2>>}, "wire")

\* Two torches that light a common bar of dust.
TorchMerge ==
    Fill({<<0, 0, 0>>, <<0, 0, 4>>} \cup Row(2..3, -1, 0..4), "solid")
    @@ [p \in {<<1, 0, 0>>, <<1, 0, 4>>} |-> Torch("east", <<-1, 0, 0>>)]
    @@ Fill(Row({2}, 0, 0..4) \cup {<<3, 0, 2>>}, "wire")

TwoBlockInputs ==
    [a |-> Port(<<0, 0, 0>>, "block_power", "west"), b |-> Port(<<0, 0, 4>>, "block_power", "west")]

NandCell == Cell(TorchMerge, TwoBlockInputs, [out |-> Port(<<3, 0, 2>>, "wire", "east")])

AndCell ==
    Cell(TorchMerge @@ Fill({<<4, -1, 2>>, <<5, 0, 2>>, <<7, -1, 2>>}, "solid")
         @@ <<4, 0, 2>> :> Facing("repeater", "east") @@ <<6, 0, 2>> :> Torch("east", <<-1, 0, 0>>)
         @@ <<7, 0, 2>> :> Plain("wire"),
         TwoBlockInputs,
         [out |-> Port(<<7, 0, 2>>, "wire", "east")])

\* baseline_cell_for: there is no cell for an xor.
BaselineCell ==
    [input |-> BufferedBoundaryCell, output |-> BufferedBoundaryCell, not |-> NotTopCell,
     and |-> AndCell, or |-> OrBufferedCell, nand |-> NandCell]

\* default_cell_library.
Candidates == [not |-> <<NotTopCell, NotCell>>, and |-> <<AndCell>>, or |-> <<OrBufferedCell>>, nand |-> <<NandCell>>]

-----------------------------------------------------------------------------
(* PlacedCell: a cell at an origin, turned about the vertical axis.        *)

Turns == <<"north", "east", "south", "west">>
TurnFacing(f, rotation) ==
    IF f \in Horizontal
    THEN LET i == CHOOSE j \in 1..4 : Turns[j] = f IN Turns[((i - 1 + rotation) % 4) + 1]
    ELSE f

TurnPos(p, rotation) ==
    CASE rotation = 0 -> p
      [] rotation = 1 -> <<-p[3], p[2], p[1]>>
      [] rotation = 2 -> <<-p[1], p[2], -p[3]>>
      [] rotation = 3 -> <<p[3], p[2], -p[1]>>

TurnBlock(b, rotation) ==
    [b EXCEPT !.facing = TurnFacing(@, rotation),
              !.support = {TurnPos(o, rotation) : o \in @},
              !.arms = [f \in {TurnFacing(g, rotation) : g \in DOMAIN b.arms} |->
                            b.arms[CHOOSE g \in DOMAIN b.arms : TurnFacing(g, rotation) = f]]]

At(placed, p) == Plus(placed.origin, TurnPos(p, placed.rotation))
Unturn(placed, q) ==
    TurnPos(<<q[1] - placed.origin[1], q[2] - placed.origin[2], q[3] - placed.origin[3]>>,
            (4 - placed.rotation) % 4)

PlacedBlocks(placed) ==
    [q \in {At(placed, p) : p \in DOMAIN placed.cell.blocks} |->
        TurnBlock(placed.cell.blocks[Unturn(placed, q)], placed.rotation)]

\* An endpoint is a port of a placed cell, with the id of the cell; a
\* boundary endpoint has the cell 0.
Endpoint(placed, id, name, port) ==
    [cell |-> id, port |-> name, pos |-> At(placed, port.pos), kind |-> port.kind,
     facing |-> TurnFacing(port.facing, placed.rotation)]
Boundary(name, pos) == [cell |-> 0, port |-> name, pos |-> pos, kind |-> "wire", facing |-> "none"]

InputEndpoint(cells, c, name) == Endpoint(cells[c], c, name, cells[c].cell.inputs[name])
OutputEndpoint(cells, c, name) == Endpoint(cells[c], c, name, cells[c].cell.outputs[name])

CellWorld(cells) ==
    LET placed[S \in SUBSET DOMAIN cells] ==
            IF S = {} THEN <<>>
            ELSE LET c == CHOOSE d \in S : TRUE IN PlacedBlocks(cells[c]) @@ placed[S \ {c}]
    IN  placed[DOMAIN cells]

-----------------------------------------------------------------------------
(* Where a route reaches a port.                                           *)

Terminal(port) == IF port.kind = "wire" THEN port.pos ELSE Side(port.pos, port.facing)
Approach(port) == IF port.facing = "none" THEN Terminal(port) ELSE Side(Terminal(port), port.facing)
=============================================================================
