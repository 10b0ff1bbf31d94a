-------------------------- MODULE OperationRegistry --------------------------
(***************************************************************************)
(* The registry of long-running operations of dustroute-mcp                *)
(* (operations.rs) together with the background conversion task that       *)
(* start_selected_region_conversion (service.rs) spawns and that reports   *)
(* its progress through it.                                                *)
(*                                                                         *)
(* Every registry method holds the one mutex of the map for its whole      *)
(* body, so each call is one action.  The task is cut where the source     *)
(* awaits: between two registry calls any other task may run, in           *)
(* particular stop_operation.                                              *)
(***************************************************************************)
EXTENDS Naturals, FiniteSets

CONSTANTS
    Tasks,       \* ids given out by create: background conversions
    Records,     \* ids inserted by record_completed: the audit history
    MaxEntries,  \* max_entries of the registry (256 in the program)
    MaxTime      \* bound on the wall clock: how many milliseconds pass

ASSUME RegistryAssumption ==
    /\ IsFiniteSet(Tasks)
    /\ IsFiniteSet(Records)
    /\ Tasks \cap Records = {}
    /\ MaxEntries \in Nat \ {0}
    /\ MaxTime \in Nat

Ids == Tasks \cup Records

Active == {"Queued", "Running"}
Ended == {"Completed", "Failed", "Cancelled"}
Absent == "Absent"

VARIABLES
    entries,     \* [Ids -> Entry]: the map; NoEntry where nothing is stored
    pc,          \* [Tasks -> where the spawned task is]
    now          \* the wall clock, in milliseconds

vars == <<entries, pc, now>>

\* OperationRecord and its CancellationToken; updated is updated_at_unix_ms.
Entry == [status : Active \cup Ended \cup {Absent},
          progress : 0..100, updated : Nat, cancelled : BOOLEAN]

NoEntry == [status |-> Absent, progress |-> 0, updated |-> 0, cancelled |-> FALSE]

IsStored(i) == entries[i].status # Absent
IsActive(i) == entries[i].status \in Active
IsTerminal(i) == entries[i].status \in Ended

(***************************************************************************)
(* prune_terminal_entries: the set that goes when the map is cut down to   *)
(* target entries.  The oldest terminal records go first; ties are broken  *)
(* by random id, so any choice among equally old ones is possible.  Active *)
(* records never go, even when the map stays too large.                    *)
(***************************************************************************)
ExcessOver(target) ==
    LET len == Cardinality({i \in Ids : IsStored(i)})
        terminal == Cardinality({i \in Ids : IsTerminal(i)})
        excess == IF len <= target THEN 0 ELSE len - target
    IN  IF excess <= terminal THEN excess ELSE terminal

\* Mutant: active records are pruned like finished ones.
PruneChoicesAnyStatus(target) ==
    {gone \in SUBSET {i \in Ids : IsStored(i)} : Cardinality(gone) = ExcessOver(target)}

PruneChoices(target) ==
    {gone \in SUBSET {i \in Ids : IsTerminal(i)} :
        /\ Cardinality(gone) = ExcessOver(target)
        /\ \A g \in gone, k \in Ids \ gone :
              IsTerminal(k) => entries[g].updated <= entries[k].updated}

\* What an insertion prunes to: room for one more.
Target == MaxEntries - 1

\* Inserting a record after a prune; an entry i had before is replaced.
InsertAfterPruning(i, status, progress) ==
    \E gone \in PruneChoices(Target) :
        entries' = [j \in Ids |->
            IF j = i THEN [status |-> status, progress |-> progress,
                           updated |-> now, cancelled |-> FALSE]
            ELSE IF j \in gone THEN NoEntry
            ELSE entries[j]]

-----------------------------------------------------------------------------
(* The registry's methods.  On an id that is not stored update, complete   *)
(* and fail do nothing, and is_cancelled answers FALSE.                    *)

Rewrite(i, status, progress) ==
    entries' = IF IsStored(i)
               THEN [entries EXCEPT ![i] = [@ EXCEPT !.status = status,
                                                     !.progress = progress,
                                                     !.updated = now]]
               ELSE entries

Update(i, status, progress) == Rewrite(i, status, progress)

\* Mutant: the result is dropped.
CompleteRecordNever(i) == entries' = entries

CompleteRecord(i) == Rewrite(i, "Completed", 100)

FailRecord(i) == Rewrite(i, "Failed", entries[i].progress)

\* Accepted (answer TRUE) only while the record is queued or running.
Cancel(i) ==
    /\ IsActive(i)
    /\ entries' = [entries EXCEPT ![i] = [@ EXCEPT !.status = "Cancelled",
                                                  !.updated = now,
                                                  !.cancelled = TRUE]]

IsCancelled(i) == entries[i].cancelled

-----------------------------------------------------------------------------
Init ==
    /\ entries = [i \in Ids |-> NoEntry]
    /\ pc = [t \in Tasks |-> "unborn"]
    /\ now = 0

Goto(t, from, to) ==
    /\ pc[t] = from
    /\ pc' = [pc EXCEPT ![t] = to]
    /\ UNCHANGED now

\* The tool call: create the record and spawn the task.
Start(t) ==
    /\ Goto(t, "unborn", "spawned")
    /\ InsertAfterPruning(t, "Queued", 0)

\* First update of the task, then the scan is awaited.
BeginScan(t) ==
    /\ Goto(t, "spawned", "scanning")
    /\ Update(t, "Running", 10)

\* The bridge answers: a snapshot, or an error.
ScanAnswered(t) ==
    /\ \/ Goto(t, "scanning", "scanned")
       \/ Goto(t, "scanning", "failing")
    /\ UNCHANGED entries

\* is_cancelled after the scan.
CheckAfterScan(t) ==
    /\ IF IsCancelled(t) THEN Goto(t, "scanned", "done")
                         ELSE Goto(t, "scanned", "normalizing")
    /\ UNCHANGED entries

\* update 35, then the snapshot is converted, which may be refused.
Normalize(t) ==
    /\ \/ Goto(t, "normalizing", "converted")
       \/ Goto(t, "normalizing", "failing")
    /\ Update(t, "Running", 35)

\* update 50, then the analysis runs on a blocking thread.
BeginAnalysis(t) ==
    /\ Goto(t, "converted", "analyzing")
    /\ Update(t, "Running", 50)

\* The blocking thread is joined: a result, or a JoinError.
AnalysisJoined(t) ==
    /\ \/ Goto(t, "analyzing", "analyzed")
       \/ Goto(t, "analyzing", "failing")
    /\ UNCHANGED entries

\* is_cancelled after the analysis.
CheckAfterAnalysis(t) ==
    /\ IF IsCancelled(t) THEN Goto(t, "analyzed", "done")
                         ELSE Goto(t, "analyzed", "finishing")
    /\ UNCHANGED entries

Complete(t) ==
    /\ Goto(t, "finishing", "done")
    /\ CompleteRecord(t)

\* Mutant: an error path returns without telling the registry.
FailSilently(t) ==
    /\ Goto(t, "failing", "done")
    /\ UNCHANGED entries

Fail(t) ==
    /\ Goto(t, "failing", "done")
    /\ FailRecord(t)

\* A finished mutation, proposal or test is put into the history; an id may
\* be recorded again (a transition proposal and then its run share one).
RecordCompleted(i) ==
    /\ InsertAfterPruning(i, "Completed", 100)
    /\ UNCHANGED <<pc, now>>

\* The stop_operation tool on a record that can still be stopped.
StopOperation(i) ==
    /\ Cancel(i)
    /\ UNCHANGED <<pc, now>>

Tick ==
    /\ now < MaxTime
    /\ now' = now + 1
    /\ UNCHANGED <<entries, pc>>

TaskStep(t) ==
    \/ BeginScan(t) \/ ScanAnswered(t) \/ CheckAfterScan(t) \/ Normalize(t)
    \/ BeginAnalysis(t) \/ AnalysisJoined(t) \/ CheckAfterAnalysis(t)
    \/ Complete(t) \/ Fail(t)

Next ==
    \/ \E t \in Tasks : Start(t) \/ TaskStep(t)
    \/ \E i \in Records : RecordCompleted(i)
    \/ \E i \in Ids : StopOperation(i)
    \/ Tick

\* Only the server's own steps are fair: tokio polls a ready task again, a
\* bridge request ends after its timeout, and the analysis is a terminating
\* computation.  No user has to start, stop or record anything.
Fairness == \A t \in Tasks : WF_vars(TaskStep(t))

Spec == Init /\ [][Next]_vars /\ Fairness

-----------------------------------------------------------------------------
Steps == {"unborn", "spawned", "scanning", "scanned", "normalizing",
          "converted", "analyzing", "analyzed", "finishing", "failing", "done"}

TypeOK ==
    /\ entries \in [Ids -> Entry]
    /\ pc \in [Tasks -> Steps]
    /\ now \in Nat

\* What the record of a task that nobody stopped shows, place by place.
Shown(place) ==
    CASE place = "unborn" -> {}
      [] place = "spawned" -> {"Queued"}
      [] place = "done" -> {"Completed", "Failed"}
      [] OTHER -> {"Running"}

\* An operation nobody stopped is reported truthfully: Queued until its task
\* runs, Running while it does, and Completed or Failed exactly when the task
\* has returned.  So a record that is Running with no task behind it was
\* stopped before (service.rs, the spawned task; operations.rs update).
RecordMatchesTask ==
    \A t \in Tasks : IsStored(t) /\ ~IsCancelled(t)
                      => entries[t].status \in Shown(pc[t])

\* Making room for a new record never drops one that is queued or running,
\* however full the map is (prune_terminal_entries).
ActiveNeverDropped ==
    [][\A i \in Ids : IsActive(i) => IsStored(i)']_vars

\* When a record is inserted, the map ends within max_entries unless every
\* other record is still active: the audit history alone never outgrows it.
InsertKeepsBound ==
    [][(\E i \in Ids : ~IsStored(i) /\ IsStored(i)')
          => \/ Cardinality({i \in Ids : IsStored(i)'}) <= MaxEntries
             \/ Cardinality({i \in Ids : IsTerminal(i)'}) <= 1]_vars

\* The progress a client polls never goes back, not even when an update of
\* the task and a stop_operation race.
ProgressNeverGoesBack ==
    [][\A t \in Tasks : IsStored(t) /\ IsStored(t)'
          => entries'[t].progress >= entries[t].progress]_vars

\* Every conversion nobody stops ends, with a result or an error, or its
\* record is pruned.
ConversionEnds ==
    \A t \in Tasks : IsActive(t) ~> ~IsActive(t) \/ IsCancelled(t)

=============================================================================
