------------------------------ MODULE MCOptimizer ------------------------------
(* Circuits of one gate, placed by the compiler or between two boundaries  *)
(* as the tests of the optimizer place them, with their routes recorded.   *)
EXTENDS Optimizer

In(n) == Node("input", <<>>, <<"in", n>>)
Gate(kind, inputs) == Node(kind, inputs, NoName)
Dag(nodes, outputs) == [nodes |-> nodes, outputs |-> [k \in DOMAIN outputs |-> [name |-> k, node |-> outputs[k]]]]
Not == Dag(<<In(0), Gate("not", <<1>>)>>, <<2>>)

\* add_route for every sink of every net.
RoutesOf(jobs) ==
    LET nets == Sorted(DOMAIN jobs, LAMBDA n, m : n < m)
    IN  Concat([i \in DOMAIN nets |->
            [k \in DOMAIN jobs[nets[i]].sinks |-> [source |-> jobs[nets[i]].source, sink |-> jobs[nets[i]].sinks[k]]]])
Recorded(given) == [given EXCEPT !.routes = RoutesOf(given.jobs)]

\* A chain of inverters between two boundary endpoints.
Chain(placed, from, to) ==
    LET in == Boundary("in", from)
        out == Boundary("out", to)
        count == Len(placed)
        job(n) == [source |-> IF n = 1 THEN in ELSE OutputEndpoint(placed, n - 1, "out"),
                   sinks |-> <<IF n > count THEN out ELSE InputEndpoint(placed, n, "a")>>]
        dag == Dag([i \in 1..(count + 1) |-> IF i = 1 THEN In(0) ELSE Gate("not", <<i - 1>>)], <<count + 1>>)
    IN  [RouteProblem(placed, [n \in 1..(count + 1) |-> job(n)], <<>>, 128, 3, 1000) EXCEPT
            !.graph = dag, !.inputs = <<"in", 0>> :> in, !.outputs = <<out>>]

At2(cell, x, z) == Place("not", cell, <<x, 2, z>>)

\* Chains with the places of their two ends.
Chains ==
    {<<<<At2(NotTopCell, 0, 0)>>, <<-4, 3, 1>>, <<5, 3, 0>>>>,
     <<<<At2(NotCell, 0, 0), At2(NotTopCell, 8, -2)>>, <<-4, 2, 1>>, <<13, 3, 0>>>>,
     <<<<At2(NotCell, 0, 0), At2(NotTopCell, 8, 2), At2(NotTopCell, 13, 0)>>, <<-5, 2, 0>>, <<18, 3, 0>>>>}

\* An inverter that is better off beside a net that is not its own.
Bystander ==
    LET cells == <<At2(NotTopCell, 0, -2)>>
        ends == <<Boundary("in", <<-3, 2, 1>>), Boundary("out", <<4, 3, 1>>), Boundary("b", <<0, 3, 1>>),
                  Boundary("c", <<0, 3, 2>>)>>
        jobs == <<[source |-> ends[1], sinks |-> <<InputEndpoint(cells, 1, "a")>>],
                  [source |-> OutputEndpoint(cells, 1, "out"), sinks |-> <<ends[2]>>],
                  [source |-> ends[3], sinks |-> <<ends[4]>>]>>
    IN  [RouteProblem(cells, jobs, <<>>, 128, 3, 1000) EXCEPT
            !.graph = Dag(<<In(0), In(1), Gate("not", <<1>>)>>, <<3, 2>>),
            !.inputs = <<"in", 0>> :> ends[1] @@ <<"in", 1>> :> ends[3], !.outputs = <<ends[2], ends[4]>>]

\* An inverter with the spacing and the gap it is compiled at.
Inverters == {CompileProblem(Not, at[1], at[2], 128, 3, 1000) : at \in {<<5, 3>>, <<8, 5>>}}

MCProblems ==
    LET compiled == Inverters
    IN  compiled \cup {Recorded(given) : given \in compiled \cup {Bystander} \cup {Chain(c[1], c[2], c[3]) : c \in Chains}}

MCPlan ==
    <<[axis |-> 1, sign |-> -1, anchors |-> "inputs", steps |-> 3],
      [axis |-> 0, sign |-> 0, anchors |-> "none", steps |-> 3]>>
=============================================================================
