----------------------------- MODULE RedstoneWorld -----------------------------
(***************************************************************************)
(* The blocks of a circuit and the geometry of redstone between them       *)
(* (dustroute-minecraft world.rs and blocks/, dustroute-translate wire.rs  *)
(* and connectivity.rs).  A world is a function from the positions of its  *)
(* blocks, triples of integers, to blocks; air is not stored.  A block is  *)
(* a record of its                                                         *)
(*   kind      the BlockKind,                                              *)
(*   look      what observed_name and the slab and stairs states make of   *)
(*             its traits, "default" for a name without traits of its own, *)
(*   facing    a horizontal direction, "up", "down" or "none",             *)
(*   powered, level, delay, subtract, support: the block state, support is *)
(*             the set of its support_offset, empty or a singleton,        *)
(*   arms      wire_connections, a function on some of the directions.     *)
(***************************************************************************)
EXTENDS Integers, TLC

Horizontal == {"north", "east", "south", "west"}

Offset == [north |-> <<0, 0, -1>>, east |-> <<1, 0, 0>>, south |-> <<0, 0, 1>>, west |-> <<-1, 0, 0>>]

Opposite == [north |-> "south", east |-> "west", south |-> "north", west |-> "east"]

Plus(p, d) == <<p[1] + d[1], p[2] + d[2], p[3] + d[3]>>
Side(p, f) == Plus(p, Offset[f])
Above(p) == Plus(p, <<0, 1, 0>>)
Below(p) == Plus(p, <<0, -1, 0>>)
Adjacent(p) == {Above(p), Below(p)} \cup {Side(p, f) : f \in Horizontal}

Position == Int \X Int \X Int
SwitchKinds == {"lever", "button", "pressure_plate"}
Kinds == SwitchKinds \cup {"solid", "transparent", "wire", "torch", "repeater", "comparator", "lamp",
                           "redstone_block", "piston"}
Looks == {"default", "glass", "top_slab", "bottom_slab", "double_slab", "top_stairs", "bottom_stairs"}
Shapes == {"none", "side", "up"}

Block ==
    [kind : Kinds, look : Looks, facing : Horizontal \cup {"up", "down", "none"}, powered : BOOLEAN,
     level : 0..255, delay : 0..255, subtract : BOOLEAN, support : SUBSET Position,
     arms : UNION {[arms -> Shapes] : arms \in SUBSET Horizontal}]

IsWorld(W) == DOMAIN W \subseteq Position /\ W \in [DOMAIN W -> Block]

\* f, for TLC as a table.
Tabulated(f) == f @@ <<>>

KindAt(W, p) == IF p \in DOMAIN W THEN W[p].kind ELSE "air"
OfKind(W, k) == {p \in DOMAIN W : W[p].kind = k}
Wires(W) == OfKind(W, "wire")

-----------------------------------------------------------------------------
(* Traits.                                                                 *)

SupportsComponents(k) == k \in {"solid", "transparent", "lamp", "redstone_block", "piston"}
ReceivesPower(k) == k \in {"solid", "lamp"}

\* conducts_weak_power, conducts_strong_power and strong_power_drives_dust
\* are the same for every block.
Conducts(b) == b.look = "double_slab" \/ (b.look = "default" /\ ReceivesPower(b.kind))

WireRise(b) ==
    IF b.look \in {"top_slab", "top_stairs"} THEN "side"
    ELSE IF \/ b.look \in {"double_slab", "glass"}
            \/ (b.look = "default" /\ SupportsComponents(b.kind))
         THEN "up"
         ELSE "none"

BlocksWireRise(b) == b.look = "double_slab" \/ (b.look = "default" /\ b.kind = "solid")

ConductsAt(W, p) == p \in DOMAIN W /\ Conducts(W[p])
Conductors(W) == {p \in DOMAIN W : Conducts(W[p])}
SupportOf(W, p) == {Plus(p, d) : d \in W[p].support}

-----------------------------------------------------------------------------
(* Repeaters and comparators.                                              *)

HasFront(W, p) == p \in DOMAIN W /\ W[p].facing \in Horizontal
Front(W, p) == IF HasFront(W, p) THEN {Side(p, W[p].facing)} ELSE {}
Rear(W, p) == IF HasFront(W, p) THEN {Side(p, Opposite[W[p].facing])} ELSE {}
Sides(W, p) ==
    IF HasFront(W, p)
    THEN {Side(p, f) : f \in Horizontal \ {W[p].facing, Opposite[W[p].facing]}}
    ELSE {}

-----------------------------------------------------------------------------
(* Wires.                                                                  *)

ComponentConnects(W, p, f) ==
    \/ KindAt(W, p) \in SwitchKinds \cup {"torch", "redstone_block"}
    \/ /\ KindAt(W, p) \in {"repeater", "comparator"}
       /\ W[p].facing \in {f, Opposite[f]}

InferWireConnection(W, p, f) ==
    LET side == Side(p, f)
        rises == /\ side \in DOMAIN W /\ WireRise(W[side]) # "none"
                 /\ KindAt(W, Above(side)) = "wire"
                 /\ ~(Above(p) \in DOMAIN W /\ BlocksWireRise(W[Above(p)]))
        drops == KindAt(W, side) = "air" /\ KindAt(W, Below(side)) = "wire"
    IN  IF KindAt(W, side) = "wire" \/ ComponentConnects(W, side, f) THEN "side"
        ELSE IF rises THEN WireRise(W[side])
        ELSE IF drops THEN "side" ELSE "none"

ResolvedWireConnection(W, p, f) ==
    IF KindAt(W, p) # "wire" THEN "none"
    ELSE IF f \in DOMAIN W[p].arms THEN W[p].arms[f] ELSE InferWireConnection(W, p, f)

WireHasArm(W, p, f) == ResolvedWireConnection(W, p, f) # "none"

\* dust_transfer, one operator per kind of transfer: a and b are wires.
Spreads(W, a, b, f) ==
    b = Side(a, f) /\ WireHasArm(W, a, f) /\ WireHasArm(W, b, Opposite[f])

Rises(W, a, b, f) ==
    /\ b = Above(Side(a, f))
    /\ Side(a, f) \in DOMAIN W
    /\ WireRise(W[Side(a, f)]) # "none"
    /\ WireRise(W[Side(a, f)]) = ResolvedWireConnection(W, a, f)

Falls(W, a, b, f) ==
    /\ b = Below(Side(a, f))
    /\ Below(a) \in DOMAIN W
    /\ WireRise(W[Below(a)]) # "none"
    /\ WireRise(W[Below(a)]) = ResolvedWireConnection(W, b, Opposite[f])
    /\ Conducts(W[Below(a)])

DustTransmits(W, a, b) ==
    /\ KindAt(W, a) = "wire" /\ KindAt(W, b) = "wire"
    /\ \E f \in Horizontal : Spreads(W, a, b, f) \/ Rises(W, a, b, f) \/ Falls(W, a, b, f)

\* A wire with a single arm gets the opposite one too.
WireShape(W, p) ==
    LET connected == {f \in Horizontal : InferWireConnection(W, p, f) # "none"}
        arms == IF \E f \in Horizontal : connected = {f}
                THEN connected \cup {Opposite[f] : f \in connected}
                ELSE connected
    IN  [f \in arms |-> IF f \in connected THEN InferWireConnection(W, p, f) ELSE "side"]

UpdateWireShapes(W) ==
    [p \in DOMAIN W |-> IF W[p].kind = "wire" THEN [W[p] EXCEPT !.arms = WireShape(W, p)] ELSE W[p]]
=============================================================================
