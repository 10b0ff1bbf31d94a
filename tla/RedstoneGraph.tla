----------------------------- MODULE RedstoneGraph -----------------------------
(***************************************************************************)
(* What dustroute-translate reads off a world without simulating it: the   *)
(* connectivity graph (connectivity.rs), the scene of components with the  *)
(* ports their connections use (dustroute-physical scene.rs), and the      *)
(* report on required inputs that nothing drives (liveness.rs).  An edge   *)
(* keeps the ConnectionKind its EdgeKind is turned into; the three kinds   *)
(* of dust connections are one.                                            *)
(***************************************************************************)
EXTENDS RedstoneWorld, Sequences, FiniteSets

\* The order of Pos.
Before(p, q) ==
    \/ p[1] < q[1]
    \/ p[1] = q[1] /\ p[2] < q[2]
    \/ p[1] = q[1] /\ p[2] = q[2] /\ p[3] < q[3]
FirstOf(S) == CHOOSE p \in S : \A q \in S \ {p} : Before(p, q)

On(path) == {path[i] : i \in DOMAIN path}

\* S as a sequence, the first of it first: the place of an element is one
\* more than the number of those before it.
Sorted(S, first(_, _)) ==
    LET placed == {<<Cardinality({y \in S \ {x} : first(y, x)}) + 1, x>> : x \in S}
    IN  [i \in 1..Cardinality(S) |-> (CHOOSE r \in placed : r[1] = i)[2]]

InOrder(S) == Sorted(S, Before)

-----------------------------------------------------------------------------
(* The graph.                                                              *)

\* Mutant: the stencil misses a diagonal.
OffsetsWithoutRise ==
    {<<-1, -1, 0>>, <<-1, 0, 0>>, <<-1, 1, 0>>, <<0, -1, -1>>, <<0, -1, 0>>, <<0, -1, 1>>,
     <<0, 0, -1>>, <<0, 0, 1>>, <<0, 1, -1>>, <<0, 1, 1>>, <<1, -1, 0>>, <<1, 0, 0>>}

\* LOCAL_CONNECTION_OFFSETS.
LocalConnectionOffsets ==
    {<<-1, -1, 0>>, <<-1, 0, 0>>, <<-1, 1, 0>>, <<0, -1, -1>>, <<0, -1, 0>>, <<0, -1, 1>>,
     <<0, 0, -1>>, <<0, 0, 1>>, <<0, 1, -1>>, <<0, 1, 1>>, <<1, -1, 0>>, <<1, 0, 0>>, <<1, 1, 0>>}

SourceKinds == SwitchKinds \cup {"torch", "redstone_block"}
When(condition, kind) == IF condition THEN {kind} ELSE {}

\* physical_step: the kind of the transfer from a to b, if there is one.
PhysicalStep(W, a, b) ==
    LET from == W[a].kind
        to == W[b].kind
        toward(f) == b = Side(a, f)
    IN  CASE from = "wire" /\ to = "wire" -> When(DustTransmits(W, a, b), "dust")
          [] from = "wire" /\ to = "repeater" -> When(a \in Rear(W, b), "input")
          [] from = "wire" /\ to = "comparator" -> When(a \in Rear(W, b) \cup Sides(W, b), "input")
          [] from \in {"repeater", "comparator"} /\ to = "wire" -> When(b \in Front(W, a), "output")
          [] from = "wire" /\ to \notin {"wire", "repeater", "comparator"} ->
               When(Conducts(W[b]) /\ (b = Below(a) \/ \E f \in Horizontal : toward(f)), "weak_power")
          [] ReceivesPower(from) /\ to = "repeater" -> When(a \in Rear(W, b), "input")
          [] from \in {"repeater", "comparator"} /\ to # "wire" ->
               When(Conducts(W[b]) /\ b \in Front(W, a), "output")
          [] from \in SourceKinds /\ to = "wire" ->
               When(\E f \in Horizontal : toward(f) /\ WireHasArm(W, b, Opposite[f]), "source")
          [] OTHER -> {}

Edge(a, b, kind) == [source |-> a, sink |-> b, kind |-> kind]

ExtractConnectivity(W) ==
    (UNION {UNION {{Edge(a, b, kind) : kind \in PhysicalStep(W, a, b)} :
                     b \in {Plus(a, o) : o \in LocalConnectionOffsets} \cap DOMAIN W} :
              a \in DOMAIN W})
    \cup (UNION {{Edge(s, p, "control") : s \in SupportOf(W, p)} : p \in OfKind(W, "torch")})
    \cup (UNION {{Edge(p, s, "source") : s \in SupportOf(W, p)} :
                   p \in {q \in DOMAIN W : W[q].kind \in SwitchKinds}})

-----------------------------------------------------------------------------
(* Components, ports and connections of the scene.                         *)

RedstoneKinds == SourceKinds \cup {"wire", "repeater", "comparator", "lamp", "piston"}

Flat(f) == IF f = "up" THEN <<0, 1, 0>> ELSE IF f = "down" THEN <<0, -1, 0>> ELSE Offset[f]
Faces == Horizontal \cup {"up", "down"}
Back == [f \in Faces |-> IF f = "up" THEN "down" ELSE IF f = "down" THEN "up" ELSE Opposite[f]]

\* facing_between: a step one up or down and one to the side faces the side.
FacingBetween(a, b) ==
    {f \in Faces : b = Plus(a, Flat(f))}
    \cup {f \in Horizontal : b \in {Above(Side(a, f)), Below(Side(a, f))}}

ControlFace(b) ==
    IF \E f \in Faces : f # "down" /\ b.support = {Flat(f)}
    THEN CHOOSE f \in Faces : b.support = {Flat(f)} ELSE "down"

\* ports_for, without the structural ones: the role of the port on a face.
Ports(b) ==
    LET facing == IF b.facing = "none" THEN "north" ELSE b.facing
        port(role, faces) == {[role |-> role, face |-> f] : f \in faces}
    IN  CASE b.kind = "wire" -> port("bidirectional", Faces)
          [] b.kind \in {"repeater", "comparator"} ->
               port("output", {facing}) \cup port("input", {Back[facing]})
               \cup port("control", Horizontal \ {facing, Back[facing]})
          [] b.kind = "torch" -> port("output", Horizontal) \cup port("control", {ControlFace(b)})
          [] b.kind \in SwitchKinds \cup {"redstone_block"} -> port("output", Horizontal)
          [] b.kind = "piston" -> port("input", Horizontal)
          [] OTHER -> IF Conducts(b) THEN port("bidirectional", Faces) ELSE {}

HasPort(b, face, roles) == \E port \in Ports(b) : port.face = face /\ port.role \in roles

SinkRoles(kind) == IF kind = "control" THEN {"control"} ELSE {"input", "bidirectional", "control"}

\* port_connection: an edge between ports that exist, with the sink's face.
PortConnections(W, edges) ==
    UNION {{[source |-> e.source, sink |-> e.sink, face |-> Back[f]] :
              f \in {g \in FacingBetween(e.source, e.sink) :
                       /\ HasPort(W[e.source], g, {"output", "bidirectional"})
                       /\ HasPort(W[e.sink], Back[g], SinkRoles(e.kind))}} :
           e \in {d \in edges : d.source \in DOMAIN W /\ d.sink \in DOMAIN W}}

-----------------------------------------------------------------------------
(* analyze_signal_liveness: links is the set of connections of the scene.  *)

Forward(links, S) == {c.sink : c \in {d \in links : d.source \in S}}

Reachable(links, S) ==
    LET reach[T \in SUBSET (S \cup {c.sink : c \in links})] ==
            LET next == T \cup Forward(links, T) IN IF next = T THEN T ELSE reach[next]
    IN  reach[S]

DriveSources(W, frontier) == {p \in DOMAIN W : W[p].kind \in SourceKinds} \cup frontier

\* The directed region of p: what it reaches and is reached from.
Region(reach, p) == {q \in reach[p] : p \in reach[q]}

\* Dust that ends a region nothing else feeds is taken for an input from
\* outside of the circuit.
InferPrimaryInputs(W, links, sources) ==
    LET nodes == Wires(W) \cup {c.source : c \in links} \cup {c.sink : c \in links}
        reach == Tabulated([p \in nodes |-> Reachable(links, {p})])
        fed(region) == \E c \in links : /\ c.sink \in region /\ c.source \notin region
                                        /\ W[c.source].kind \notin {"solid", "transparent"}
        beside(p) == {c.sink : c \in {d \in links : d.source = p}}
                     \cup {c.source : c \in {d \in links : d.sink = p}}
        ends(p, region) == /\ ~fed(region)
                           /\ region \cap sources = {}
                           /\ Cardinality(beside(p) \cap region) <= 1
    IN  {p \in Wires(W) : ends(p, Region(reach, p))}

DeviceKinds == {"repeater", "comparator", "piston", "torch"}

\* The required inputs of a device: the control port for a torch.
RequiredFaces(b) ==
    {port.face : port \in {q \in Ports(b) : q.role = "input" \/ (b.kind = "torch" /\ q.role = "control")}}

RequiredInputs(W) == {input \in (DOMAIN W) \X Faces :
    W[input[1]].kind \in DeviceKinds /\ input[2] \in RequiredFaces(W[input[1]])}

\* The immediate sources of an input, a pair of a position and a face.
Feeding(links, input) == {c.source : c \in {d \in links : d.sink = input[1] /\ d.face = input[2]}}

Liveness(W, links, frontier) ==
    LET sources == DriveSources(W, frontier)
        inferred == InferPrimaryInputs(W, links, sources)
        live == Reachable(links, sources \cup inferred)
    IN  [reachable |-> Reachable(links, sources), inferred |-> inferred,
         undriven |-> {input \in RequiredInputs(W) : Feeding(links, input) \cap live = {}}]

=============================================================================
