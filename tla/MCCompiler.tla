------------------------------ MODULE MCCompiler ------------------------------
(* Graphs of one and two gates, placed as the default configuration places *)
(* them and closer together, and nets between terminals that are in each   *)
(* other's way.                                                            *)
EXTENDS Compiler

In(n) == Node("input", <<>>, <<"in", n>>)
Gate(kind, inputs) == Node(kind, inputs, NoName)
Outputs(nodes) == [k \in DOMAIN nodes |-> [name |-> k, node |-> nodes[k]]]
Dag(nodes, outputs) == [nodes |-> nodes, outputs |-> Outputs(outputs)]
TwoInputs(kind) == Dag(<<In(0), In(1), Gate(kind, <<1, 2>>)>>, <<3>>)

Not == Dag(<<In(0), Gate("not", <<1>>)>>, <<2>>)
Through == Dag(<<In(0)>>, <<1>>)
Forked == Dag(<<In(0), Gate("not", <<1>>)>>, <<1, 2>>)

\* Graphs with the spacing and the gap they are placed at.
Circuits ==
    {<<dag, 12, 8>> : dag \in {Not, Through, TwoInputs("nand"), TwoInputs("and"), TwoInputs("or")}}
    \cup {<<Forked, 5, 3>>, <<Not, 4, 3>>}

\* Nets between terminals: each is a sequence of the places of its source
\* and its sinks.
CellsFor(nets) ==
    [nk \in UNION {{<<n, k>> : k \in DOMAIN nets[n]} : n \in DOMAIN nets} |->
        Place("terminal", TerminalCell, nets[nk[1]][nk[2]])]
JobFor(nets, n) ==
    [source |-> OutputEndpoint(CellsFor(nets), <<n, 1>>, "out"),
     sinks |-> [k \in 1..(Len(nets[n]) - 1) |-> InputEndpoint(CellsFor(nets), <<n, k + 1>>, "in")]]

\* A net that was there before, on row z.
Row9(z) == MakeNet(JobFor(<<<<<<0, 0, z>>, <<4, 0, z>>>>>>, 1), <<[i \in 1..5 |-> <<i - 1, 1, z>>]>>)

Crossing == <<<<<<2, 0, 0>>, <<0, 0, 1>>>>, <<<<4, 0, 1>>, <<3, 0, 3>>>>, <<<<1, 0, 3>>, <<2, 0, 2>>>>>>
Straight == <<<<<<2, 0, 0>>, <<2, 0, 4>>>>>>
Again == <<<<<<3, 0, 2>>, <<2, 0, 1>>>>, <<<<0, 0, 1>>, <<1, 0, 3>>>>, <<<<3, 0, 0>>, <<0, 0, 4>>>>>>
Stubborn == <<<<<<3, 0, 4>>, <<4, 0, 1>>>>, <<<<0, 0, 1>>, <<0, 0, 4>>>>, <<<<2, 0, 1>>, <<1, 0, 3>>>>>>
Branching == <<<<<<3, 0, 1>>, <<4, 0, 0>>, <<1, 0, 0>>>>, <<<<1, 0, 4>>, <<0, 0, 1>>>>, <<<<4, 0, 3>>, <<2, 0, 2>>>>>>

SideBySide == <<<<<<2, 0, 0>>, <<0, 0, 0>>>>, <<<<2, 0, 1>>, <<4, 0, 1>>>>>>

\* The nets, the width of a rip-up and the rows of the nets before them.
Layouts ==
    {<<Crossing, 2, {}>>, <<Crossing, 2, {6}>>, <<Straight, 1, {2}>>, <<Again, 1, {}>>,
     <<Stubborn, 2, {}>>, <<Branching, 2, {}>>, <<SideBySide, 1, {}>>}

MCProblems ==
    {CompileProblem(c[1], c[2], c[3], 128, 3, 1000) : c \in Circuits}
    \cup {RouteProblem(CellsFor(l[1]), [n \in DOMAIN l[1] |-> JobFor(l[1], n)],
                       [n \in {9 : z \in l[3]} |-> Row9(CHOOSE z \in l[3] : TRUE)], 8, l[2], 60) : l \in Layouts}
=============================================================================
