------------------------------- MODULE Repair -------------------------------
(***************************************************************************)
(* Physical repairs of dustroute-mcp (service.rs): new_repair proposes     *)
(* patches of a captured circuit, show_repair_plan previews one and        *)
(* mutate_repair applies or undoes it through the bot.                     *)
(*                                                                         *)
(* Unlike placements the plans are files (PlanStateStore, state.rs) that   *)
(* several server processes share and that outlive them; every process     *)
(* also copies what it reads or writes to memory.  The file is read or     *)
(* written first; the lock of the memory is awaited after that, and others *)
(* may read, write and copy in between.  A process serialises its          *)
(* mutations with its mutation_lock; show_repair_plan does not take it,    *)
(* and it does not exclude the other processes.  A handler works on the    *)
(* clone it loaded first.                                                  *)
(***************************************************************************)
EXTENDS BotWorld

CONSTANTS
    Repairs,  \* operation ids
    None      \* no plan, no handler

\* A patch: what it changes, and into what.
PatchRecord == [before : Todo, after : Todo]

\* What changes of a StoredRepairPlan.
Flags == [applied : BOOLEAN, previewed : BOOLEAN]

ASSUME RepairAssumption == None \notin PatchRecord \cup Flags

VARIABLES
    patches,  \* [Repairs -> PatchRecord or None]
    captured, \* the blocks of the circuit the repairs are derived from
    disk,     \* [Repairs -> [flags, fresh] or None]: the plan files
    memory,   \* [Servers -> [Repairs -> Flags or None]]: repair_plans
    call,     \* [Servers -> the call that holds its mutation_lock]
    showing,  \* [Servers -> the show_repair_plan under way, or None]
    touched,  \* history: [Repairs -> the cells that have changed since the
              \* scan that last found the repair applied]
    seen      \* history: the repairs some player has been shown

planVars == <<patches, captured, disk, memory>>
vars == <<world, job, late, edits, patches, captured, disk, memory, call,
          showing, touched, seen>>

Free == [place |-> "free"]
At(s, place) == call[s].place = place
Goto(s, place) == call' = [call EXCEPT ![s].place = place]

Source(c) == IF c.undo THEN patches[c.id].after ELSE patches[c.id].before
Target(c) == IF c.undo THEN patches[c.id].before ELSE patches[c.id].after

Init ==
    /\ BotInit
    /\ patches = [r \in Repairs |-> None]
    /\ captured = world
    /\ disk = [r \in Repairs |-> None]
    /\ memory = [s \in Servers |-> [r \in Repairs |-> None]]
    /\ call = [s \in Servers |-> Free]
    /\ showing = [s \in Servers |-> None]
    /\ touched = [r \in Repairs |-> {}]
    /\ seen = {}

-----------------------------------------------------------------------------
(* The plan store *)

\* PlanStateStore::load: what a fresh file says; an expired one is removed.
FileSays(r) == IF disk[r] # None /\ disk[r].fresh THEN disk[r].flags ELSE None
Load(r) == disk' = [disk EXCEPT ![r] = IF @ # None /\ @.fresh THEN @ ELSE None]

\* PlanStateStore::save, by a rename; a save that fails leaves the file.
Save(r, flags) == disk' = [disk EXCEPT ![r] = [flags |-> flags, fresh |-> TRUE]]

\* The lock of repair_plans has been awaited and the copy is put there.
Remember(s, r, flags) == memory' = [memory EXCEPT ![s][r] = flags]

\* repair_plan after its load: what the file said is remembered; without a
\* file the plan is what is remembered of it by now.
Recalled(s, r, said) == IF said # None THEN said ELSE memory[s][r]
Recall(s, r, said) == Remember(s, r, Recalled(s, r, said))

\* DUSTROUTE_PLAN_TTL_SECONDS have passed since the file was written.
Expire(r) ==
    /\ disk[r] # None /\ disk[r].fresh
    /\ disk' = [disk EXCEPT ![r].fresh = FALSE]
    /\ UNCHANGED <<botVars, patches, captured, memory, call, showing, touched, seen>>

\* A process stops and starts again: files stay, memory and handlers go.
Restart(s) ==
    /\ memory' = [memory EXCEPT ![s] = [r \in Repairs |-> None]]
    /\ call' = [call EXCEPT ![s] = Free]
    /\ showing' = [showing EXCEPT ![s] = None]
    /\ Abandon(s)
    /\ UNCHANGED <<patches, captured, disk, touched, seen>>

-----------------------------------------------------------------------------
\* test_circuit: the circuit a repair is derived from, as scanned now.
Capture ==
    /\ captured # world
    /\ captured' = world
    /\ UNCHANGED <<botVars, patches, disk, memory, call, showing, touched, seen>>

\* new_repair: a patch of the captured circuit is stored, neither previewed
\* nor applied.  File and memory are one step here: nobody knows the id yet.
NewRepair(s, r, wanted) ==
    LET changes(c) == wanted[c] # Keep /\ wanted[c] # captured[c]
    IN  /\ patches[r] = None
        /\ \E c \in Cells : changes(c)
        /\ patches' = [patches EXCEPT ![r] =
              [before |-> [c \in Cells |-> IF changes(c) THEN captured[c] ELSE Keep],
               after  |-> [c \in Cells |-> IF changes(c) THEN wanted[c] ELSE Keep]]]
        /\ LET flags == [applied |-> FALSE, previewed |-> FALSE]
           IN  Save(r, flags) /\ Remember(s, r, flags)
        /\ UNCHANGED <<botVars, captured, call, showing, touched, seen>>

-----------------------------------------------------------------------------
(* show_repair_plan: load, await the preview, store the loaded clone.      *)

Shows(s, place) == showing[s] # None /\ showing[s].place = place

ShowBegin(s, r) ==
    /\ showing[s] = None
    /\ Load(r)
    /\ showing' = [showing EXCEPT ![s] =
          [place |-> "recall", id |-> r, copy |-> FileSays(r)]]
    /\ UNCHANGED <<botVars, patches, captured, memory, call, touched, seen>>

\* The plan is found and the bot asked for a preview, or there is none.
ShowRecall(s) ==
    LET show == showing[s]
        copy == Recalled(s, show.id, show.copy)
    IN  /\ Shows(s, "recall")
        /\ Recall(s, show.id, show.copy)
        /\ showing' = [showing EXCEPT ![s] =
              IF copy = None THEN None
              ELSE [place |-> "preview", id |-> show.id, copy |-> copy]]
        /\ UNCHANGED <<botVars, patches, captured, disk, call, touched, seen>>

\* The preview is drawn and saved, unless the save fails.
ShowPreviewed(s) ==
    LET show == showing[s]
        previewed == [show.copy EXCEPT !.previewed = TRUE]
    IN  /\ Shows(s, "preview")
        /\ seen' = seen \cup {show.id}
        /\ \/ /\ Save(show.id, previewed)
              /\ showing' = [showing EXCEPT ![s] =
                    [place |-> "remember", id |-> show.id, copy |-> previewed]]
           \/ /\ showing' = [showing EXCEPT ![s] = None]
              /\ UNCHANGED disk
        /\ UNCHANGED <<botVars, patches, captured, memory, call, touched>>

\* The bot does not draw the preview.
ShowFails(s) ==
    /\ Shows(s, "preview")
    /\ showing' = [showing EXCEPT ![s] = None]
    /\ UNCHANGED <<botVars, planVars, call, touched, seen>>

ShowRemember(s) ==
    /\ Shows(s, "remember")
    /\ Remember(s, showing[s].id, showing[s].copy)
    /\ showing' = [showing EXCEPT ![s] = None]
    /\ UNCHANGED <<botVars, patches, captured, disk, call, touched, seen>>

ShowStep(s) == ShowRecall(s) \/ ShowPreviewed(s) \/ ShowFails(s) \/ ShowRemember(s)

-----------------------------------------------------------------------------
(* mutate_repair *)

Return(s) ==
    /\ call' = [call EXCEPT ![s] = Free]
    /\ Abandon(s)

\* Mutant: the preview is not asked for.
AllowedUnseen(copy, undo) == copy # None /\ (undo <=> copy.applied)

\* There is a plan and the flags of the clone allow the call.
Allowed(copy, undo) ==
    /\ copy # None
    /\ undo \/ copy.previewed
    /\ undo <=> copy.applied

\* The lock is taken and the file loaded.
Begin(s, r, undo) ==
    /\ call[s] = Free
    /\ Load(r)
    /\ call' = [call EXCEPT ![s] =
          [place |-> "recall", id |-> r, undo |-> undo, copy |-> FileSays(r)]]
    /\ UNCHANGED <<botVars, patches, captured, memory, showing, touched, seen>>

\* The patch is sent to the bot.  The world is not looked at first.
Accept(s) ==
    LET copy == Recalled(s, call[s].id, call[s].copy)
    IN  /\ At(s, "recall")
        /\ Allowed(copy, call[s].undo)
        /\ Recall(s, call[s].id, call[s].copy)
        /\ call' = [call EXCEPT ![s].place = "writing", ![s].copy = copy]
        /\ Submit(s, Target(call[s]))
        /\ UNCHANGED <<patches, captured, disk, showing, touched, seen>>

Refuse(s) ==
    LET copy == Recalled(s, call[s].id, call[s].copy)
    IN  /\ At(s, "recall")
        /\ ~Allowed(copy, call[s].undo)
        /\ Recall(s, call[s].id, call[s].copy)
        /\ Return(s)
        /\ UNCHANGED <<patches, captured, disk, showing, touched, seen>>

\* place_physical_blocks answers only when every change was made.
WriteAnswered(s) ==
    /\ At(s, "writing")
    /\ job[s] = Idle
    /\ Goto(s, "verify")
    /\ UNCHANGED <<botVars, planVars, showing, touched, seen>>

\* An error or a timeout of the write, of the verifying scan or of the
\* rollback: nothing is stored any more.
BridgeFails(s) ==
    /\ call[s].place \in {"writing", "verify", "rollback"}
    /\ Return(s)
    /\ UNCHANGED <<planVars, showing, touched, seen>>

\* Mutant: the scan is taken for a success whatever it shows.
VerifiedBlindly(s) ==
    /\ At(s, "verify")
    /\ ~call[s].undo
    /\ Goto(s, "store")
    /\ touched' = [touched EXCEPT ![call[s].id] = {}]
    /\ UNCHANGED <<botVars, planVars, showing, seen>>

\* verify_physical_changes, once, after an apply.
Verified(s) ==
    /\ At(s, "verify")
    /\ ~call[s].undo
    /\ Matches(Target(call[s]))
    /\ Goto(s, "store")
    /\ touched' = [touched EXCEPT ![call[s].id] = {}]
    /\ UNCHANGED <<botVars, planVars, showing, seen>>

\* An undo is stored as done, whatever the scan shows.
UndoScanned(s) ==
    /\ At(s, "verify")
    /\ call[s].undo
    /\ Goto(s, "store")
    /\ UNCHANGED <<botVars, planVars, showing, touched, seen>>

\* An apply that did not verify is rolled back.
Rollback(s) ==
    /\ At(s, "verify")
    /\ ~call[s].undo
    /\ ~Matches(Target(call[s]))
    /\ Goto(s, "rollback")
    /\ Submit(s, Source(call[s]))
    /\ UNCHANGED <<planVars, showing, touched, seen>>

\* The call has saved its outcome and goes on to remember it.
SaveOutcome(s, place, applied) ==
    LET outcome == [call[s].copy EXCEPT !.applied = applied]
    IN  /\ Save(call[s].id, outcome)
        /\ call' = [call EXCEPT ![s].place = place, ![s].copy = outcome]

\* The bot has made the inverse changes: the clone is saved not applied.
RolledBack(s) ==
    /\ At(s, "rollback")
    /\ job[s] = Idle
    /\ SaveOutcome(s, "rolledBack", FALSE)
    /\ UNCHANGED <<botVars, patches, captured, memory, showing, touched, seen>>

StoreResult(s) ==
    /\ At(s, "store")
    /\ SaveOutcome(s, "remember", ~call[s].undo)
    /\ UNCHANGED <<botVars, patches, captured, memory, showing, touched, seen>>

\* The outcome is remembered; after a rollback the call returns its error.
RememberOutcome(s) ==
    /\ call[s].place \in {"remember", "rolledBack"}
    /\ Remember(s, call[s].id, call[s].copy)
    /\ IF At(s, "remember") THEN Goto(s, "rescan") /\ UNCHANGED botVars
                            ELSE Return(s)
    /\ UNCHANGED <<patches, captured, disk, showing, touched, seen>>

\* "world changed but repair state could not be persisted"; after a rollback
\* a failed save is ignored.
StoreFails(s) ==
    /\ At(s, "store") \/ (At(s, "rollback") /\ job[s] = Idle)
    /\ Return(s)
    /\ UNCHANGED <<planVars, showing, touched, seen>>

\* The circuit is scanned and analysed again; the call returns its result,
\* or the error of that scan.
Answer(s) ==
    /\ At(s, "rescan")
    /\ Return(s)
    /\ UNCHANGED <<planVars, showing, touched, seen>>

CallStep(s) ==
    \/ Accept(s) \/ Refuse(s) \/ WriteAnswered(s) \/ BridgeFails(s)
    \/ Verified(s) \/ UndoScanned(s) \/ Rollback(s) \/ RolledBack(s)
    \/ StoreResult(s) \/ StoreFails(s) \/ RememberOutcome(s) \/ Answer(s)

-----------------------------------------------------------------------------
Outside ==
    \/ \E c \in Cells :
        /\ \/ \E s \in Servers : BotWrites(s, c) \/ BotDigs(s, c)
           \/ \E todo \in late : LateWrites(todo, c) \/ LateDigs(todo, c)
           \/ \E block \in Blocks : PlayerEdits(c, block)
        /\ touched' = [r \in Repairs |->
              touched[r] \cup {d \in Cells : world'[d] # world[d]}]
        /\ UNCHANGED <<planVars, call, showing, seen>>
    \/ \E todo \in late :
        /\ LateStops(todo)
        /\ UNCHANGED <<planVars, call, showing, touched, seen>>

Next ==
    \/ Capture
    \/ \E s \in Servers, r \in Repairs :
        \/ \E wanted \in Todo : NewRepair(s, r, wanted)
        \/ ShowBegin(s, r)
        \/ \E undo \in BOOLEAN : Begin(s, r, undo)
    \/ \E s \in Servers : ShowStep(s) \/ CallStep(s) \/ Restart(s)
    \/ \E r \in Repairs : Expire(r)
    \/ Outside

\* Bridge requests end within their timeout, so a server's own steps are
\* fair; nothing is asked of the bot, the players or the processes' lives.
Spec == Init /\ [][Next]_vars /\ \A s \in Servers : WF_vars(CallStep(s))

-----------------------------------------------------------------------------

\* No repair is applied unseen: the bot is sent to apply a patch only after a
\* player was shown it, by whichever process, before or after a restart, from
\* a file or from a memory that outlived the file.
NoApplyUnseen ==
    \A s \in Servers :
        call[s].place \notin {"free", "recall"} /\ ~call[s].undo => call[s].id \in seen

\* Some file, memory or handler says that r is applied.
SaysApplied(r) ==
    \/ disk[r] # None /\ disk[r].flags.applied
    \/ \E s \in Servers :
        \/ memory[s][r] # None /\ memory[s][r].applied
        \/ showing[s] # None /\ showing[s].id = r
              /\ showing[s].copy # None /\ showing[s].copy.applied
        \/ call[s] # Free /\ call[s].id = r
              /\ call[s].copy # None /\ call[s].copy.applied

\* "Applied" is never said of a repair that was not found whole in the world:
\* not by a file, a memory or a clone, however old, of whichever process, after
\* failed saves, rollbacks, restarts and previews that write back what they
\* read before.  Nor is a repair undone, then, that never was in the world.
\* Only what changed since that scan can differ from the patch.
AppliedWasVerified ==
    \A r \in Repairs : SaysApplied(r) =>
        \A c \in Pending(patches[r].after) \ touched[r] : world[c] = patches[r].after[c]

-----------------------------------------------------------------------------
\* "`show_*` records preview" (docs/mcp-api-v1.md) and nothing else: whether
\* a repair is applied changes on disk only when a mutation of it stores its
\* outcome.
ShowOnlyRecordsPreview ==
    [][\A r \in Repairs :
          /\ disk[r] # None /\ disk'[r] # None
          /\ disk'[r].flags.applied # disk[r].flags.applied
          => \E s \in Servers : /\ call'[s] # call[s]
                               /\ call[s] # Free
                               /\ call[s].id = r]_vars
=============================================================================
