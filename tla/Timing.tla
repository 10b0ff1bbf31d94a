-------------------------------- MODULE Timing --------------------------------
(***************************************************************************)
(* What is said of the timing of a captured circuit without simulating it  *)
(* (dustroute-ir physical_projection.rs): whether its signals feed back,   *)
(* and whether paths of unequal delay meet.  links are the connections of  *)
(* the scene, pairs of them the dependencies of its components.            *)
(***************************************************************************)
EXTENDS Reading

Dependencies(links) == {<<c.source, c.sink>> : c \in links}

\* signal_kind: what only carries a signal.
Passive(W, p) == W[p].kind \in {"wire", "solid", "transparent", "lamp"}

ComponentDelay(b) ==
    CASE b.kind = "repeater" -> b.delay
      [] b.kind \in {"torch", "piston"} -> 1
      [] OTHER -> 0

\* Passive components that lead to each other are one.
PassiveGroup(W, pairs, p) ==
    LET twoWay(q) == {r \in Sinks(pairs, q) : Passive(W, r) /\ <<r, q>> \in pairs}
        group[S \in SUBSET ({p} \cup Ends(pairs))] ==
            LET more == S \cup UNION {twoWay(q) : q \in S} IN IF more = S THEN S ELSE group[more]
    IN  IF Passive(W, p) THEN group[{p}] ELSE {p}

\* Mutant: what torches are controlled by is left out.
FeedbackWithoutControl(W, pairs) ==
    LET group == [p \in Ends(pairs) |-> FirstOf(PassiveGroup(W, pairs, p))]
        quotient == {<<group[e[1]], group[e[2]]>> : e \in {d \in pairs : W[d[2]].kind # "torch"}}
        between == {e \in quotient : e[1] # e[2]}
        cyclic == UNION {C \in On(SignalComponents(between)) : Cardinality(C) > 1}
    IN  {p \in Ends(pairs) : group[p] \in cyclic /\ ~Passive(W, p)}

\* The devices on a cycle of the groups.
ActiveFeedback(W, pairs) ==
    LET group == [p \in Ends(pairs) |-> FirstOf(PassiveGroup(W, pairs, p))]
        quotient == {<<group[e[1]], group[e[2]]>> : e \in pairs}
        between == {e \in quotient : e[1] # e[2]}
        cyclic == UNION {C \in On(SignalComponents(between)) : Cardinality(C) > 1}
    IN  {p \in Ends(pairs) : group[p] \in cyclic /\ ~Passive(W, p)}

-----------------------------------------------------------------------------
(* Delays along the paths from where nothing comes in, as far as every     *)
(* dependency of a component has been followed: what lies behind dust that *)
(* leads both ways is not reached.  A range is <<least, greatest>>.        *)

Arrivals(W, pairs, ranges, p) ==
    {<<ranges[q][1] + ComponentDelay(W[q]), ranges[q][2] + ComponentDelay(W[q])>> :
        q \in Sources(pairs, p) \cap DOMAIN ranges}

Spread(arrivals) ==
    IF arrivals = {} THEN <<0, 0>>
    ELSE <<Least({r[1] : r \in arrivals}), Greatest({r[2] : r \in arrivals})>>

DelayRanges(W, pairs) ==
    LET followed(ranges) == {p \in Ends(pairs) \ DOMAIN ranges : Sources(pairs, p) \subseteq DOMAIN ranges}
        pass[n \in 0..Cardinality(Ends(pairs))] ==
            IF n = 0 THEN <<>>
            ELSE LET so == pass[n - 1]
                 IN  [p \in followed(so) |-> Spread(Arrivals(W, pairs, so, p))] @@ so
    IN  pass[Cardinality(Ends(pairs))]

ReconvergentDelays(W, pairs) ==
    LET ranges == DelayRanges(W, pairs)
        spread(p) == Spread(Arrivals(W, pairs, ranges, p))
    IN  {p \in Ends(pairs) : Cardinality(Sources(pairs, p)) > 1 /\ spread(p)[1] # spread(p)[2]}

\* timing_assessment.
Timing(W, links) ==
    LET pairs == Dependencies(links)
        feedback == ActiveFeedback(W, pairs)
        stateful == {p \in DOMAIN W : \/ W[p].kind \in {"comparator", "piston"}
                                      \/ W[p].kind = "repeater" /\ LockedAt(W, InitialDevices(W), p)}
    IN  [feedback |-> feedback,
         scope |-> IF feedback \cup stateful # {} THEN "temporal_required"
                   ELSE IF ReconvergentDelays(W, pairs) # {} THEN "timing_sensitive" ELSE "steady_state_safe"]
=============================================================================
