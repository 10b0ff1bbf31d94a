------------------------------- MODULE LogicGraph -------------------------------
(***************************************************************************)
(* Graphs of gates (dustroute-ir logic.rs, with the operators of expr.rs). *)
(* The nodes of a graph are a sequence, a node's id is its place in it,    *)
(* and a graph is a record of the nodes and of its named outputs, in       *)
(* order.                                                                  *)
(***************************************************************************)
EXTENDS Integers, Sequences, FiniteSets

Count(S) == Cardinality(S)

\* What an operator does with the values of its arguments.
Apply(op, name, values, env) ==
    CASE op \in {"var", "input"} -> env[name]
      [] op = "true" -> TRUE
      [] op = "false" -> FALSE
      [] op = "output" -> values[1]
      [] op = "not" -> ~values[1]
      [] op = "and" -> \A i \in DOMAIN values : values[i]
      [] op = "or" -> \E i \in DOMAIN values : values[i]
      [] op = "xor" -> Count({i \in DOMAIN values : values[i]}) % 2 = 1
      [] op = "nand" -> \E i \in DOMAIN values : ~values[i]

-----------------------------------------------------------------------------
(* DagBuilder: a gate that is there already is used again.                 *)

LogicKinds == {"input", "output", "not", "and", "or", "xor", "nand"}

\* Names as the reader of a circuit makes them; most gates have none.
NoName == <<>>
Names == ({"in", "o"} \X Nat) \cup {NoName}

Node(kind, inputs, name) == [kind |-> kind, inputs |-> inputs, name |-> name]
Nodes == [kind : LogicKinds, inputs : Seq(Nat), name : Names]
Places(nodes, node) == {i \in DOMAIN nodes : nodes[i] = node}

Intern(nodes, kind, inputs, name) ==
    LET same == Places(nodes, Node(kind, inputs, name))
    IN  IF same = {} THEN [nodes |-> Append(nodes, Node(kind, inputs, name)), id |-> Len(nodes) + 1]
        ELSE [nodes |-> nodes, id |-> CHOOSE i \in same : TRUE]

-----------------------------------------------------------------------------
(* LogicDag.                                                               *)

Least(S) == CHOOSE n \in S : \A m \in S : n <= m
Greatest(S) == CHOOSE n \in S : \A m \in S : m <= n
Elements(s) == {s[i] : i \in DOMAIN s}

\* topological_order: of the nodes that are ready, the one of the least id.
TopologicalOrder(nodes) ==
    LET order[n \in 0..Len(nodes)] ==
            IF n = 0 THEN <<>>
            ELSE LET done == Elements(order[n - 1])
                 IN  Append(order[n - 1],
                            Least({i \in DOMAIN nodes \ done : Elements(nodes[i].inputs) \subseteq done}))
    IN  order[Len(nodes)]

LogicDepths(nodes) ==
    LET depth[i \in DOMAIN nodes] ==
            IF nodes[i].inputs = <<>> THEN 0 ELSE 1 + Greatest({depth[j] : j \in Elements(nodes[i].inputs)})
    IN  depth

Evaluate(nodes, env) ==
    LET value[i \in DOMAIN nodes] ==
            Apply(nodes[i].kind, nodes[i].name,
                  [k \in DOMAIN nodes[i].inputs |-> value[nodes[i].inputs[k]]], env)
    IN  value

\* The five gates an xor becomes.
XorGates(nodes, a, b, name) ==
    LET notRight == Intern(nodes, "not", <<b>>, NoName)
        notLeft == Intern(notRight.nodes, "not", <<a>>, NoName)
        left == Intern(notLeft.nodes, "and", <<a, notRight.id>>, NoName)
        right == Intern(left.nodes, "and", <<notLeft.id, b>>, NoName)
    IN  Intern(right.nodes, "or", <<left.id, right.id>>, name)

LowerXor(dag) ==
    LET order == TopologicalOrder(dag.nodes)
        lower(nodes, mapped, node) ==
            LET args == [k \in DOMAIN node.inputs |-> mapped[node.inputs[k]]]
            IN  IF node.kind = "xor" THEN XorGates(nodes, args[1], args[2], node.name)
                ELSE Intern(nodes, node.kind, args, node.name)
        done[n \in 0..Len(order)] ==
            IF n = 0 THEN [nodes |-> <<>>, mapped |-> [i \in DOMAIN dag.nodes |-> 0]]
            ELSE LET next == lower(done[n - 1].nodes, done[n - 1].mapped, dag.nodes[order[n]])
                 IN  [nodes |-> next.nodes, mapped |-> [done[n - 1].mapped EXCEPT ![order[n]] = next.id]]
        all == done[Len(order)]
    IN  [nodes |-> all.nodes,
         outputs |-> [i \in DOMAIN dag.outputs |-> [dag.outputs[i] EXCEPT !.node = all.mapped[@]]]]
=============================================================================
