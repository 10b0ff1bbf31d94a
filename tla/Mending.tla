-------------------------------- MODULE Mending --------------------------------
(***************************************************************************)
(* What mending a circuit promises: by the counts it is judged by, a mend  *)
(* leaves it better than it was (RepairImpact::improves, dustroute-physical *)
(* patch.rs), so that mending on and on never comes back to where it       *)
(* started.  Whatever else happens to the circuit starts it anew.          *)
(***************************************************************************)
EXTENDS Naturals

VARIABLES
    health,     \* the counts of the circuit
    first       \* the counts when something else happened to it last

vars == <<health, first>>

Health == [fragments : Nat, supports : Nat, undriven : Nat, reachable : Nat]

NotWorse(before, after) ==
    /\ after.supports <= before.supports
    /\ after.undriven <= before.undriven
    /\ after.reachable >= before.reachable

\* improves: something is better and, but for the fragments, nothing worse.
Better(before, after) ==
    /\ NotWorse(before, after)
    /\ \/ after.fragments < before.fragments
       \/ after.supports < before.supports
       \/ after.undriven < before.undriven
       \/ after.reachable > before.reachable

Init == health \in Health /\ first = health

Mend ==
    /\ health' \in Health
    /\ Better(health, health')
    /\ UNCHANGED first

Disturb ==
    /\ health' \in Health
    /\ first' = health'

Next == Mend \/ Disturb

Spec == Init /\ [][Next]_vars
=============================================================================
