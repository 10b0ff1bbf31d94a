------------------------------ MODULE Transition ------------------------------
(***************************************************************************)
(* Live transition tests of dustroute-mcp: invoke_transition_test toggles  *)
(* one lever through the bot, records the block updates and toggles it     *)
(* back; restore_transition_test brings the region back to the captured    *)
(* snapshot (service.rs).  The bot has a single recording slot             *)
(* (mineflayer/bridge.js).                                                 *)
(*                                                                         *)
(* A bridge request either answers or ends in an error, and an error says  *)
(* nothing about its effect: it may have happened, may never happen, or    *)
(* happen later.  Runs and restores hold mutation_lock; a preview holds    *)
(* the lock of transition_plans while it awaits the bot.                   *)
(***************************************************************************)
EXTENDS Naturals

CONSTANTS
    Plans,         \* operation ids: one per proposed lever transition
    Rests,         \* states of the region beside the lever
    PlayersBuild,  \* whether other players change the region
    MaxLate,       \* bound on the lever clicks still under way unawaited
    None

\* What is stored of a plan.
StoredTransitionPlan ==
    [original : BOOLEAN, rest : Rests, previewed : BOOLEAN, executed : BOOLEAN, verified : BOOLEAN]

ASSUME TransitionAssumption ==
    /\ None \notin Plans \cup StoredTransitionPlan
    /\ PlayersBuild \in BOOLEAN
    /\ MaxLate \in Nat

VARIABLES
    lever,      \* whether the lever is powered
    rest,       \* the rest of the region
    slot,       \* the plan whose run the bot records, or None
    late,       \* lever clicks whose request ended before they took effect
    plans,      \* [Plans -> StoredTransitionPlan or None]
    showing,    \* the plan whose preview holds transition_plans, or None
    call,       \* the run or restore that holds mutation_lock
    disturbed,  \* history: plans whose region changed since it was last compared
    lost        \* history: a start or stop of the recording was not answered

bot == <<lever, rest, slot, late>>
vars == <<lever, rest, slot, late, plans, showing, call, disturbed, lost>>

Known == {p \in Plans : plans[p] # None}
RegionMatches(p) == lever = plans[p].original /\ rest = plans[p].rest

Free == [place |-> "free"]
Busy(p) == call # Free /\ call.plan = p
\* good: nothing has failed to restore so far; traced: the recording was got.
NewCall(place, p) == [place |-> place, plan |-> p, good |-> TRUE,
                      traced |-> FALSE, clicks |-> 0]
Lever == plans[call.plan].original
At(place) == call.place = place
Goto(place, good) == call' = [call EXCEPT !.place = place, !.good = good]

Init ==
    /\ lever \in BOOLEAN
    /\ rest \in Rests
    /\ slot = None
    /\ late = 0
    /\ plans = [p \in Plans |-> None]
    /\ showing = None
    /\ call = Free
    /\ disturbed = Plans
    /\ lost = FALSE

-----------------------------------------------------------------------------
(* The lever and the region *)

\* The call's click reaches the lever and the call goes on; history counts
\* the clicks its own recording saw.
Click(place, good) ==
    /\ lever' = ~lever
    /\ disturbed' = Plans
    /\ call' = [call EXCEPT !.place = place, !.good = good,
                            !.clicks = @ + IF slot = call.plan THEN 1 ELSE 0]

\* A request to click that ends in an error: the click may have happened,
\* may be lost, or may come late (activateLever gives up after five ticks).
ClickUnanswered(place) ==
    \/ Click(place, FALSE) /\ UNCHANGED late
    \/ /\ late' \in {late, late + 1} \cap 0..MaxLate
       /\ Goto(place, FALSE)
       /\ UNCHANGED <<lever, disturbed>>

LateClick ==
    /\ late > 0
    /\ late' = late - 1
    /\ lever' = ~lever
    /\ disturbed' = Plans
    /\ UNCHANGED <<rest, slot, plans, showing, call, lost>>

\* Redstone settles, a latch flips, a clock ticks.
RegionChanges ==
    /\ rest' \in Rests \ {rest}
    /\ disturbed' = Plans
    /\ UNCHANGED <<lever, slot, late, plans, showing, call, lost>>

PlayerToggles ==
    /\ PlayersBuild
    /\ lever' = ~lever
    /\ disturbed' = Plans
    /\ UNCHANGED <<rest, slot, late, plans, showing, call, lost>>

\* The bot loses its connection: the recording is gone, late clicks too.
Disconnect ==
    /\ slot # None \/ late > 0
    /\ slot' = None
    /\ late' = 0
    /\ UNCHANGED <<lever, rest, plans, showing, call, disturbed, lost>>

-----------------------------------------------------------------------------
(* Proposals and previews *)

\* create_transition_proposals from a region just scanned.
NewTransitionTest(p) ==
    /\ plans[p] = None
    /\ showing = None
    /\ plans' = [plans EXCEPT ![p] =
          [original |-> lever, rest |-> rest,
           previewed |-> FALSE, executed |-> FALSE, verified |-> FALSE]]
    /\ UNCHANGED <<bot, showing, call, disturbed, lost>>

ShowBegin(p) ==
    /\ showing = None
    /\ p \in Known
    /\ showing' = p
    /\ UNCHANGED <<bot, plans, call, disturbed, lost>>

\* Mutant: the preview is finished under mutation_lock too.
ShowEndUnderBoth ==
    /\ showing # None
    /\ call = Free
    /\ \/ plans' = [plans EXCEPT ![showing].previewed = TRUE]
       \/ UNCHANGED plans
    /\ showing' = None
    /\ UNCHANGED <<bot, call, disturbed, lost>>

\* The preview is drawn, or refused by the bot, or not answered in time.
ShowEnd ==
    /\ showing # None
    /\ \/ plans' = [plans EXCEPT ![showing].previewed = TRUE]
       \/ UNCHANGED plans
    /\ showing' = None
    /\ UNCHANGED <<bot, call, disturbed, lost>>

-----------------------------------------------------------------------------
(* invoke_transition_test *)

\* The plan is cloned and its flags allow the run.
BeginRun(p) ==
    /\ call = Free
    /\ showing = None
    /\ p \in Known
    /\ plans[p].previewed
    /\ ~plans[p].executed
    /\ call' = NewCall("check", p)
    /\ UNCHANGED <<bot, plans, showing, disturbed, lost>>

\* get_block and approach_lever: the lever stands as proposed, in reach.
CheckLever ==
    /\ At("check")
    /\ \/ lever = Lever /\ Goto("start", TRUE)
       \/ call' = Free                       \* changed, or the bridge failed
    /\ UNCHANGED <<bot, plans, showing, disturbed, lost>>

StartRecording ==
    /\ At("start")
    /\ slot = None
    /\ slot' = call.plan
    /\ Goto("activate", TRUE)
    /\ UNCHANGED <<lever, rest, late, plans, showing, disturbed, lost>>

\* Already active, not sent, or done with the answer lost.
StartFails ==
    /\ At("start")
    /\ \/ UNCHANGED <<slot, lost>>
       \/ slot = None /\ slot' = call.plan /\ lost' = TRUE
    /\ call' = Free
    /\ UNCHANGED <<lever, rest, late, plans, showing, disturbed>>

Activate ==
    /\ At("activate")
    /\ Click("stop", TRUE)
    /\ UNCHANGED <<rest, slot, late, plans, showing, lost>>

ActivateFails ==
    /\ At("activate")
    /\ ClickUnanswered("abort")
    /\ UNCHANGED <<rest, slot, plans, showing, lost>>

\* stop_update_recording: FALSE when it is not known to have worked.
StopRecording(answered) ==
    IF answered THEN slot = call.plan /\ slot' = None /\ UNCHANGED lost
    ELSE /\ slot' \in {slot, None}
         /\ lost' = (lost \/ slot' # None)

\* Mutant: a failed activation returns at once.
AbortWithoutStop ==
    /\ At("abort")
    /\ call' = Free
    /\ UNCHANGED <<lever, rest, slot, late, plans, showing, disturbed, lost>>

\* After a failed activation the recording is stopped, the error returned.
AbortRun ==
    /\ At("abort")
    /\ \E answered \in BOOLEAN : StopRecording(answered)
    /\ call' = Free
    /\ UNCHANGED <<lever, rest, late, plans, showing, disturbed>>

\* The observation is over: the recording is fetched before the lever is
\* touched again.
StopRun ==
    /\ At("stop")
    /\ \E answered \in BOOLEAN :
        /\ StopRecording(answered)
        /\ call' = [call EXCEPT !.place = "return", !.traced = answered]
    /\ UNCHANGED <<lever, rest, late, plans, showing, disturbed>>

\* The second activation, whatever the lever shows by now.
ReturnLever ==
    /\ At("return")
    /\ \/ Click("reread", TRUE) /\ UNCHANGED late
       \/ ClickUnanswered("reread")
    /\ UNCHANGED <<rest, slot, plans, showing, lost>>

\* get_block: an error counts as not restored.
RereadLever ==
    /\ At("reread")
    /\ \E answered \in BOOLEAN :
          Goto("rescan", call.good /\ answered /\ lever = Lever)
    /\ UNCHANGED <<bot, plans, showing, disturbed, lost>>

\* scan_region against the initial snapshot.
RescanInto(place) ==
    /\ \E answered \in BOOLEAN :
          Goto(place, call.good /\ answered /\ RegionMatches(call.plan))
    /\ disturbed' = disturbed \ {call.plan}
    /\ UNCHANGED <<bot, plans, showing, lost>>

RescanRegion == At("rescan") /\ RescanInto("store")

\* Mutant: the run is reported restored because the lever was clicked back.
StoreRunTrusting ==
    /\ At("store")
    /\ showing = None
    /\ plans' = [plans EXCEPT ![call.plan].executed = TRUE,
                              ![call.plan].verified = TRUE]
    /\ call' = Free
    /\ UNCHANGED <<bot, showing, disturbed, lost>>

StoreRun ==
    /\ At("store")
    /\ showing = None
    /\ plans' = [plans EXCEPT ![call.plan].executed = TRUE,
                              ![call.plan].verified = call.good]
    /\ call' = Free
    /\ UNCHANGED <<bot, showing, disturbed, lost>>

-----------------------------------------------------------------------------
(* restore_transition_test *)

BeginRestore(p) ==
    /\ call = Free
    /\ showing = None
    /\ p \in Known
    /\ call' = NewCall("read", p)
    /\ UNCHANGED <<bot, plans, showing, disturbed, lost>>

\* get_block decides whether the lever has to be clicked.
ReadLever ==
    /\ At("read")
    /\ \/ lever = Lever /\ Goto("reread2", TRUE)
       \/ lever # Lever /\ Goto("click", TRUE)
       \/ call' = Free
    /\ UNCHANGED <<bot, plans, showing, disturbed, lost>>

ClickBack ==
    /\ At("click")
    /\ \/ Click("reread2", TRUE) /\ UNCHANGED late
       \/ ClickUnanswered("reread2")
    /\ UNCHANGED <<rest, slot, plans, showing, lost>>

RereadNatural ==
    /\ At("reread2")
    /\ \E answered \in BOOLEAN :
          Goto("natural", call.good /\ answered /\ lever = Lever)
    /\ UNCHANGED <<bot, plans, showing, disturbed, lost>>

RescanNatural == At("natural") /\ RescanInto("decide")

\* Restored naturally, or the snapshot is written back block by block.
Decide ==
    /\ At("decide")
    /\ IF call.good THEN Goto("storeRestore", TRUE) ELSE Goto("force", TRUE)
    /\ UNCHANGED <<bot, plans, showing, disturbed, lost>>

\* write_blocks of the snapshot: executed as far as Minecraft does so, or in
\* error, or beyond the placement limit.
ForceSnapshot ==
    /\ At("force")
    /\ \E answered \in BOOLEAN : Goto("forced", answered)
    /\ lever' \in {lever, Lever}
    /\ rest' \in {rest, plans[call.plan].rest}
    /\ disturbed' = Plans
    /\ UNCHANGED <<slot, late, plans, showing, lost>>

RescanForced == At("forced") /\ RescanInto("storeRestore")

StoreRestore ==
    /\ At("storeRestore")
    /\ showing = None
    /\ plans' = [plans EXCEPT ![call.plan].verified = call.good]
    /\ call' = Free
    /\ UNCHANGED <<bot, showing, disturbed, lost>>

-----------------------------------------------------------------------------
RunStep ==
    \/ CheckLever \/ StartRecording \/ StartFails \/ Activate \/ ActivateFails
    \/ AbortRun \/ StopRun \/ ReturnLever \/ RereadLever \/ RescanRegion
    \/ StoreRun

RestoreStep ==
    \/ ReadLever \/ ClickBack \/ RereadNatural \/ RescanNatural \/ Decide
    \/ ForceSnapshot \/ RescanForced \/ StoreRestore

Next ==
    \/ \E p \in Plans : NewTransitionTest(p) \/ ShowBegin(p) \/ BeginRun(p)
                        \/ BeginRestore(p)
    \/ ShowEnd
    \/ RunStep
    \/ RestoreStep
    \/ LateClick \/ RegionChanges \/ PlayerToggles \/ Disconnect

\* Every bridge request ends, so the handlers go on.  A handler that waits
\* for the lock of transition_plans gets it: tokio's mutex is fair, hence SF.
Fairness ==
    /\ WF_vars(ShowEnd)
    /\ SF_vars(RunStep)
    /\ SF_vars(RestoreStep)

Spec == Init /\ [][Next]_vars /\ Fairness

-----------------------------------------------------------------------------

\* A plan whose restoration is reported as verified has its lever and its
\* region as they were captured, unless something changed them since that
\* scan or a call is busy finding out: "reports failure unless both the lever
\* state and full region are restored" (crates/dustroute-mcp/README.md).
VerifiedMeansRestored ==
    \A p \in Known \ disturbed : plans[p].verified /\ ~Busy(p) => RegionMatches(p)

\* The bot's only recording slot is given back by every run, however it ends;
\* only a start or stop whose answer was lost can leave it taken.
SlotGivenBack ==
    call = Free /\ slot # None => lost

\* Neither lock is kept for ever: every run and restore, which takes
\* transition_plans under mutation_lock, and every preview, which keeps
\* transition_plans while it awaits the bot (show_transition_test), ends, and
\* they never wait for each other.
LocksComeBack ==
    /\ call # Free ~> call = Free
    /\ showing # None ~> showing = None

-----------------------------------------------------------------------------
=============================================================================
