------------------------------ MODULE Placement ------------------------------
(***************************************************************************)
(* Circuit placements of dustroute-mcp (service.rs): new_placement plans   *)
(* an overlay and its exact undo, show_operation previews it, and          *)
(* mutate_placement writes or undoes it.                                   *)
(*                                                                         *)
(* mutate_placement runs under mutation_lock, so one call is in flight at  *)
(* a time; it is cut at its awaits on the bridge.  new_placement and       *)
(* show_operation do not take that lock and interleave with it.            *)
(***************************************************************************)
EXTENDS BotWorld

CONSTANTS
    Server,       \* the one process that holds the plans
    Plans,        \* operation ids
    MaxAttempts,  \* PLACEMENT_VERIFY_ATTEMPTS
    NoPlan        \* an id not planned yet

\* A PlacementPlan: the captured blocks and the designed ones.
Plan == [before : Todo, after : Todo]

ASSUME PlacementAssumption ==
    /\ Servers = {Server}
    /\ MaxAttempts \in Nat \ {0}
    /\ NoPlan \notin Plan

\* What a compiled circuit may ask for, at its place in the world.
Designs == [Cells -> (Blocks \ {Air}) \cup {Keep}]

VARIABLES
    plans,      \* [Plans -> [before, after : Todo] or NoPlan]
    applied,    \* the plans marked TRUE in applied_plans
    previewed,  \* previewed_plans
    call,       \* the call that holds mutation_lock
    touched     \* history: the cells written since the plan was last checked

serverVars == <<plans, applied, previewed, call>>
vars == <<world, job, late, edits, plans, applied, previewed, call, touched>>

Places == {"baseline", "submit", "writing", "verify", "record"}
Call == [place : Places, plan : Plans, undo : BOOLEAN, attempts : 0..MaxAttempts]
Free == [place |-> "free"]

Planned == {p \in Plans : plans[p] # NoPlan}

\* The blocks the call expects to find, and those it writes.
Source(c) == IF c.undo THEN plans[c.plan].after ELSE plans[c.plan].before
Target(c) == IF c.undo THEN plans[c.plan].before ELSE plans[c.plan].after

Init ==
    /\ BotInit
    /\ plans = [p \in Plans |-> NoPlan]
    /\ applied = {}
    /\ previewed = {}
    /\ call = Free
    /\ touched = [p \in Plans |-> {}]

\* History: a write at c concerns every plan.
Touch(c) == touched' = [p \in Plans |-> touched[p] \cup {c}]
\* History: a scan has just confirmed every cell of p.
Confirm(p) == touched' = [touched EXCEPT ![p] = {}]

-----------------------------------------------------------------------------
(* plan_world_overlay: a change wherever the scanned block differs from    *)
(* the design, and the inverse of each change for undo.                    *)
Overlay(design) ==
    LET differs(c) == design[c] # Keep /\ design[c] # world[c]
    IN  [before |-> [c \in Cells |-> IF differs(c) THEN world[c] ELSE Keep],
         after  |-> [c \in Cells |-> IF differs(c) THEN design[c] ELSE Keep]]

NewPlacement(p, design) ==
    /\ plans[p] = NoPlan
    /\ plans' = [plans EXCEPT ![p] = Overlay(design)]
    /\ Confirm(p)
    /\ UNCHANGED <<botVars, applied, previewed, call>>

ShowOperation(p) ==
    /\ p \in Planned
    /\ previewed' = previewed \cup {p}
    /\ UNCHANGED <<botVars, plans, applied, call, touched>>

-----------------------------------------------------------------------------
(* mutate_placement *)

\* The books allow the call: an apply of a previewed plan that is not
\* applied, or an undo of one that is.
Allowed(p, undo) ==
    /\ undo <=> p \in applied
    /\ undo \/ p \in previewed

\* The lock is taken and the call asks for a scan.  (A refused call changes
\* nothing.)
Begin(p, undo) ==
    /\ call = Free
    /\ p \in Planned
    /\ Allowed(p, undo)
    /\ call' = [place |-> "baseline", plan |-> p, undo |-> undo, attempts |-> 0]
    /\ UNCHANGED <<botVars, plans, applied, previewed, touched>>

Goto(place) == call' = [call EXCEPT !.place = place]
At(place) == call.place = place

Return ==
    /\ call' = Free
    /\ Abandon(Server)

\* verify_placement_changes against the blocks before the change.
BaselineMatches ==
    /\ At("baseline")
    /\ Matches(Source(call))
    /\ Goto("submit")
    /\ Confirm(call.plan)
    /\ UNCHANGED <<botVars, plans, applied, previewed>>

BaselineStale ==
    /\ At("baseline")
    /\ ~Matches(Source(call))
    /\ previewed' = previewed \ {call.plan}
    /\ Return
    /\ UNCHANGED <<plans, applied, touched>>

\* write_blocks is sent.
SubmitWrites ==
    /\ At("submit")
    /\ Goto("writing")
    /\ Submit(Server, Target(call))
    /\ UNCHANGED <<plans, applied, previewed, touched>>

\* The bot has queued every command; the world may still lag behind.
WriteAnswered ==
    /\ At("writing")
    /\ Goto("verify")
    /\ UNCHANGED <<botVars, plans, applied, previewed, touched>>

\* Mutant: a write is waited for as long as it takes, without a timeout.
BridgeFailsButWrites ==
    /\ call.place \in {"baseline", "verify"}
    /\ Return
    /\ UNCHANGED <<plans, applied, previewed, touched>>

\* A bridge request ends in an error or a timeout: the call is given up, the
\* books stay as they are.
BridgeFails ==
    /\ call.place \in {"baseline", "writing", "verify"}
    /\ Return
    /\ UNCHANGED <<plans, applied, previewed, touched>>

\* Mutant: the scan is taken for a success whatever it shows.
VerifiedBlindly ==
    /\ At("verify")
    /\ Goto("record")
    /\ Confirm(call.plan)
    /\ UNCHANGED <<botVars, plans, applied, previewed>>

\* verify_placement_changes_eventually: one attempt.
Verified ==
    /\ At("verify")
    /\ Matches(Target(call))
    /\ Goto("record")
    /\ Confirm(call.plan)
    /\ UNCHANGED <<botVars, plans, applied, previewed>>

VerifyAgain ==
    /\ At("verify")
    /\ ~Matches(Target(call))
    /\ call.attempts + 1 < MaxAttempts
    /\ call' = [call EXCEPT !.attempts = @ + 1]
    /\ UNCHANGED <<botVars, plans, applied, previewed, touched>>

VerifyGivesUp ==
    /\ At("verify")
    /\ ~Matches(Target(call))
    /\ call.attempts + 1 >= MaxAttempts
    /\ Return
    /\ UNCHANGED <<plans, applied, previewed, touched>>

\* Mutant: the preview survives the mutation.
RecordKeepsPreview ==
    /\ At("record")
    /\ applied' = IF call.undo THEN applied \ {call.plan}
                               ELSE applied \cup {call.plan}
    /\ Return
    /\ UNCHANGED <<plans, previewed, touched>>

\* applied_plans is set, the preview is used up, the lock is released.
Record ==
    /\ At("record")
    /\ applied' = IF call.undo THEN applied \ {call.plan}
                               ELSE applied \cup {call.plan}
    /\ previewed' = previewed \ {call.plan}
    /\ Return
    /\ UNCHANGED <<plans, touched>>

-----------------------------------------------------------------------------
\* The bot, its late jobs and the other players.
Outside ==
    \/ \E c \in Cells :
        /\ \/ BotWrites(Server, c)
           \/ \E todo \in late : LateWrites(todo, c)
           \/ \E block \in Blocks : PlayerEdits(c, block)
        /\ Touch(c)
        /\ UNCHANGED serverVars
    \/ \E todo \in late : LateStops(todo) /\ UNCHANGED <<serverVars, touched>>

CallStep ==
    \/ BaselineMatches \/ BaselineStale \/ SubmitWrites \/ WriteAnswered
    \/ BridgeFails \/ Verified \/ VerifyAgain \/ VerifyGivesUp \/ Record

Next ==
    \/ \E p \in Plans, design \in Designs : NewPlacement(p, design)
    \/ \E p \in Plans : ShowOperation(p)
    \/ \E p \in Plans, undo \in BOOLEAN : Begin(p, undo)
    \/ CallStep
    \/ Outside

\* What a call does whatever the bot answers, and if it never does: a bridge
\* request ends at its timeout (BotBridge::request).
OwnStep == SubmitWrites \/ BridgeFails \/ Record

\* The server's own steps are fair.  Nothing obliges the bot to answer, the
\* world to hold still, or the players to do anything.
Spec == Init /\ [][Next]_vars /\ WF_vars(OwnStep)

-----------------------------------------------------------------------------
TypeOK ==
    /\ BotTypeOK
    /\ plans \in [Plans -> Plan \cup {NoPlan}]
    /\ applied \in SUBSET Plans
    /\ previewed \in SUBSET Plans
    /\ call \in Call \cup {Free}
    /\ touched \in [Plans -> SUBSET Cells]

\* What the books say of plan p, or are about to say: from the successful
\* verification on, the call has decided.
IsApplied(p) ==
    IF call.place = "record" /\ call.plan = p THEN ~call.undo ELSE p \in applied

\* The blocks plan p has in the world according to the books.
Expected(p) == IF IsApplied(p) THEN plans[p].after ELSE plans[p].before

\* The books match the world: wherever nobody has written since plan p was
\* last checked against the world, the world holds exactly what applied_plans
\* says - the plan's blocks when it is applied, the captured ones when not.
\* So an undo finds its baseline, and it restores what was there before the
\* plan (mutate_placement, with its strict baseline and its verification).
BooksMatchWorld ==
    \A p \in Planned : \A c \in Pending(Expected(p)) \ touched[p] :
        world[c] = Expected(p)[c]

\* No block goes into the world for a plan whose preview is used up: through
\* the whole of an apply the plan stays previewed, whatever is shown, planned
\* or called meanwhile.
ApplyIsPreviewed ==
    call # Free /\ ~call.undo => call.plan \in previewed

\* A call never changes direction under way: it works on a plan that is
\* applied exactly when it is an undo.
CallMatchesBooks ==
    call # Free => (call.undo <=> call.plan \in applied)

\* The placements keep the promise of the mutation lifecycle: only a plan
\* that was shown since its last mutation is ever applied, only an applied
\* one is undone, each once, whatever the bridge and the world do.
Lifecycle == INSTANCE PlanLifecycle WITH known <- Planned, shown <- previewed
ImplementsLifecycle == Lifecycle!Spec

\* Every call returns and releases mutation_lock, also when the bot hangs at
\* any of its requests: the timeout of each of them is what ends the call.
LockReleased == call # Free ~> call = Free
=============================================================================
