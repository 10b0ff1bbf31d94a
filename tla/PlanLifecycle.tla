---------------------------- MODULE PlanLifecycle ----------------------------
(***************************************************************************)
(* What the mutation lifecycle of the MCP API promises a client, whatever  *)
(* happens on the bridge (docs/mcp-api-v1.md, realised in service.rs):     *)
(* new_* creates a plan, show_* records its preview, an invocation applies *)
(* a plan that was shown and is not applied, an undo takes back one that   *)
(* is.  A preview serves at most one mutation.                             *)
(***************************************************************************)
CONSTANTS Plans

VARIABLES
    known,   \* the plans created
    shown,   \* those with a preview still good
    applied  \* those applied and not undone

lifecycle == <<known, shown, applied>>

Init ==
    /\ known = {}
    /\ shown = {}
    /\ applied = {}

New(p) ==
    /\ p \notin known
    /\ known' = known \cup {p}
    /\ UNCHANGED <<shown, applied>>

Show(p) ==
    /\ p \in known
    /\ shown' = shown \cup {p}
    /\ UNCHANGED <<known, applied>>

\* The plan was found stale: it has to be shown again.
Withdraw(p) ==
    /\ p \in shown
    /\ shown' = shown \ {p}
    /\ UNCHANGED <<known, applied>>

Apply(p) ==
    /\ p \in shown \ applied
    /\ applied' = applied \cup {p}
    /\ shown' = shown \ {p}
    /\ UNCHANGED known

Undo(p) ==
    /\ p \in applied
    /\ applied' = applied \ {p}
    /\ shown' = shown \ {p}
    /\ UNCHANGED known

Next == \E p \in Plans : New(p) \/ Show(p) \/ Withdraw(p) \/ Apply(p) \/ Undo(p)

Spec == Init /\ [][Next]_lifecycle
=============================================================================
