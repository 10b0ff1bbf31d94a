---------------------------- MODULE MCEventEngine ----------------------------
\* EventEngine on two cells that are on or off, over three ticks.
EXTENDS EventEngine
CONSTANTS p1, p2
Off == [p \in {p1, p2} |-> FALSE]
Flip(p, b) == [position |-> p, after |-> b]
Answers ==
    {[changes |-> c, queued |-> q] :
        c \in {<<>>, <<Flip(p1, TRUE)>>, <<Flip(p2, TRUE), Flip(p1, FALSE)>>},
        q \in {<<>>, <<0>>, <<2, 1>>}}
=============================================================================
