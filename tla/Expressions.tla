------------------------------ MODULE Expressions ------------------------------
(***************************************************************************)
(* Boolean expressions and how they are lowered to graphs of gates         *)
(* (dustroute-ir expr.rs).  An expression is a record of its operator, its *)
(* name (none unless it is a variable) and its arguments.                  *)
(***************************************************************************)
EXTENDS LogicGraph

Operators == {"var", "true", "false", "not", "and", "or", "xor", "nand"}
Expr(op, args) == [op |-> op, name |-> NoName, args |-> args]
Var(name) == [op |-> "var", name |-> name, args |-> <<>>]
Const(value) == Expr(IF value THEN "true" ELSE "false", <<>>)

\* How deep the expressions are that a circuit is read as.
ExprDepth == 3

Exprs ==
    LET deep[d \in 0..ExprDepth] ==
            [op : Operators, name : Names, args : IF d = 0 THEN {<<>>} ELSE Seq(deep[d - 1])]
    IN  deep[ExprDepth]

EvaluateExpr(expr, env) ==
    LET value[e \in Exprs] == Apply(e.op, e.name, [i \in DOMAIN e.args |-> value[e.args[i]]], env)
    IN  value[expr]

Total(sizes) ==
    LET upto[i \in 0..Len(sizes)] == IF i = 0 THEN 1 ELSE upto[i - 1] + sizes[i]
    IN  upto[Len(sizes)]

Size(expr) ==
    LET size[e \in Exprs] == Total([i \in DOMAIN e.args |-> size[e.args[i]]])
    IN  size[expr]

-----------------------------------------------------------------------------
(* lower_expression and logic_from_expressions.                            *)

\* Lowering gives a graph and the id of a node in it, 0 for an error.
LowerGate(kind, left, right) ==
    IF left.id = 0 \/ right.id = 0 THEN [right EXCEPT !.id = 0]
    ELSE Intern(right.nodes, kind, <<left.id, right.id>>, NoName)

LowerNot(value) == IF value.id = 0 THEN value ELSE Intern(value.nodes, "not", <<value.id>>, NoName)

\* lower_operator: a gate for every argument but the first; parts is what
\* the lowering of each does to a graph.
LowerOperator(parts, nodes, kind) ==
    LET chained[i \in DOMAIN parts] ==
            LET with(left) == LowerGate(kind, left, parts[i][left.nodes])
            IN  IF i = 1 THEN parts[1][nodes] ELSE with(chained[i - 1])
    IN  chained[Len(parts)]

LowerBy(parts, expr) ==
    [nodes \in Seq(Nodes) |->
        IF expr.op = "var" THEN Intern(nodes, "input", <<>>, expr.name)
        ELSE IF expr.op \in {"true", "false"} \/ expr.args = <<>> THEN [nodes |-> nodes, id |-> 0]
        ELSE CASE expr.op = "not" -> LowerNot(parts[1][nodes])
               [] expr.op = "nand" /\ Len(expr.args) # 2 -> LowerNot(LowerOperator(parts, nodes, "and"))
               [] OTHER -> LowerOperator(parts, nodes, expr.op)]

LowerExpression(graph, expr) ==
    LET lower[e \in Exprs] == LowerBy([i \in DOMAIN e.args |-> lower[e.args[i]]], e)
    IN  lower[expr][graph]

\* logic_from_expressions: outputs is a sequence of [name, expr].
LogicFromExpressions(outputs) ==
    LET built[i \in 0..Len(outputs)] ==
            IF i = 0 THEN [nodes |-> <<>>, outputs |-> <<>>, ok |-> TRUE]
            ELSE LET before == built[i - 1]
                     value == LowerExpression(before.nodes, outputs[i].expr)
                     gate == Intern(value.nodes, "output", <<value.id>>, outputs[i].name)
                 IN  IF ~before.ok \/ value.id = 0 THEN [before EXCEPT !.ok = FALSE]
                     ELSE [nodes |-> gate.nodes, ok |-> TRUE,
                           outputs |-> Append(before.outputs, [name |-> outputs[i].name, node |-> gate.id])]
    IN  built[Len(outputs)]
=============================================================================
