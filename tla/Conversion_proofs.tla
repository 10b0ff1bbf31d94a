------------------------- MODULE Conversion_proofs -------------------------
(***************************************************************************)
(* Proofs about conversions and what a converted circuit is read as.       *)
(*                                                                         *)
(* The operation registry, for any number of conversions, history records  *)
(* and places in the map.                                                  *)
(*                                                                         *)
(* The scene that is read and repaired, for any circuits: Kosaraju's       *)
(* search finds the strongly connected components of every finite graph,   *)
(* so that the signal components of every scene are right, and what is     *)
(* reported to feed back is what leads back to itself.  Graphs of gates    *)
(* compute the expressions they are made of, and these the truth table     *)
(* they were read from.  Offers that were judged on all that matters to    *)
(* them mend a circuit: it implements Mending.                             *)
(***************************************************************************)
EXTENDS OperationRegistry, SceneRepair, FiniteSetTheorems, TLAPS


\* The progress a record can show while its task is at a place; a record that
\* failed shows what its task had reached.
Ceiling(place) ==
    CASE place \in {"unborn", "spawned"} -> 0
      [] place \in {"scanning", "scanned", "normalizing"} -> 10
      [] place = "converted" -> 35
      [] place \in {"analyzing", "analyzed", "finishing", "failing"} -> 50
      [] OTHER -> 100

\* A stored record agrees with its task: the progress always, the status
\* unless the operation was stopped.
TaskOK(t) ==
    IsStored(t) => /\ entries[t].progress <= Ceiling(pc[t])
                   /\ ~IsCancelled(t) => entries[t].status \in Shown(pc[t])

IInv ==
    /\ TypeOK
    /\ \A t \in Tasks : TaskOK(t)

-----------------------------------------------------------------------------
(* What the registry's methods do to the map, id by id.                    *)

\* An insertion puts the new record at i; elsewhere at most a finished record
\* is lost.
LEMMA InsertEffect ==
    ASSUME NEW i \in Ids, NEW status, NEW progress,
           InsertAfterPruning(i, status, progress)
    PROVE  /\ entries' = [j \in Ids |-> entries'[j]]
           /\ entries'[i] = [status |-> status, progress |-> progress,
                             updated |-> now, cancelled |-> FALSE]
           /\ \A j \in Ids : j # i => \/ entries'[j] = entries[j]
                                      \/ IsTerminal(j) /\ entries'[j] = NoEntry
PROOF
  <1>1. PICK gone \in PruneChoices(Target) :
          entries' = [j \in Ids |->
            IF j = i THEN [status |-> status, progress |-> progress,
                           updated |-> now, cancelled |-> FALSE]
            ELSE IF j \in gone THEN NoEntry
            ELSE entries[j]]
    BY DEF InsertAfterPruning
  <1>2. gone \subseteq {j \in Ids : IsTerminal(j)}
    BY <1>1 DEF PruneChoices
  <1> QED
    BY <1>1, <1>2

\* Rewrite changes a stored record at i only, and keeps its token.
LEMMA RewriteEffect ==
    ASSUME TypeOK, NEW i \in Ids, NEW STATE status, NEW STATE progress,
           Rewrite(i, status, progress)
    PROVE  /\ entries' = [j \in Ids |-> entries'[j]]
           /\ IsStored(i) => entries'[i] =
                [status |-> status, progress |-> progress, updated |-> now,
                 cancelled |-> entries[i].cancelled]
           /\ ~IsStored(i) => entries'[i] = entries[i]
           /\ \A j \in Ids : j # i => entries'[j] = entries[j]
  BY DEF Rewrite, TypeOK, Entry, IsStored

\* Cancelling changes the record at i only, and sets its token.
LEMMA CancelEffect ==
    ASSUME TypeOK, NEW i \in Ids, Cancel(i)
    PROVE  /\ entries' = [j \in Ids |-> entries'[j]]
           /\ entries'[i] = [status |-> "Cancelled", progress |-> entries[i].progress,
                             updated |-> now, cancelled |-> TRUE]
           /\ \A j \in Ids : j # i => entries'[j] = entries[j]
  BY DEF Cancel, TypeOK, Entry

\* The same, told for one record j: untouched, lost, or showing what was
\* written.
LEMMA InsertAt ==
    ASSUME NEW i \in Ids, NEW j \in Ids, NEW status, NEW progress,
           InsertAfterPruning(i, status, progress)
    PROVE  \/ entries'[j] = entries[j]
           \/ IsTerminal(j) /\ entries'[j] = NoEntry
           \/ /\ i = j
              /\ entries'[j].status = status
              /\ entries'[j].progress = progress
  <1>1. CASE i = j
    <2>1. entries'[i] = [status |-> status, progress |-> progress,
                         updated |-> now, cancelled |-> FALSE]
      BY InsertEffect
    <2> QED
      BY <1>1, <2>1
  <1>2. CASE i # j
    BY <1>2, InsertEffect
  <1> QED
    BY <1>1, <1>2

\* See InsertAt.
LEMMA RewriteAt ==
    ASSUME TypeOK, NEW i \in Ids, NEW j \in Ids, NEW STATE status,
           NEW STATE progress, Rewrite(i, status, progress)
    PROVE  \/ entries'[j] = entries[j]
           \/ /\ i = j
              /\ entries'[j].status = status
              /\ entries'[j].progress = progress
  <1>1. CASE i = j
    <2>1. \/ entries'[i] = [status |-> status, progress |-> progress,
                            updated |-> now, cancelled |-> entries[i].cancelled]
          \/ entries'[i] = entries[i]
      BY RewriteEffect
    <2> QED
      BY <1>1, <2>1
  <1>2. CASE i # j
    BY <1>2, RewriteEffect
  <1> QED
    BY <1>1, <1>2

\* See InsertAt.
LEMMA CancelAt ==
    ASSUME TypeOK, NEW i \in Ids, NEW j \in Ids, Cancel(i)
    PROVE  \/ entries'[j] = entries[j]
           \/ /\ entries'[j].status = "Cancelled"
              /\ entries'[j].progress = entries[j].progress
  <1>1. CASE i = j
    <2>1. entries'[i] = [status |-> "Cancelled", progress |-> entries[i].progress,
                         updated |-> now, cancelled |-> TRUE]
      BY CancelEffect
    <2> QED
      BY <1>1, <2>1
  <1>2. CASE i # j
    BY <1>2, CancelEffect
  <1> QED
    BY <1>1, <1>2

\* What the methods write is a record of the right type.
LEMMA WrittenEntry ==
    ASSUME TypeOK, NEW STATE status, status \in Active \cup Ended,
           NEW STATE progress, progress \in 0..100,
           NEW STATE cancelled, cancelled \in BOOLEAN
    PROVE  [status |-> status, progress |-> progress, updated |-> now,
            cancelled |-> cancelled] \in Entry
  BY DEF TypeOK, Entry

\* Every record, the absent one included, has fields of the right types.
LEMMA EntryParts ==
    ASSUME TypeOK, NEW i \in Ids
    PROVE  /\ entries[i] \in Entry
           /\ entries[i].status \in Active \cup Ended \cup {Absent}
           /\ entries[i].progress \in 0..100
           /\ entries[i].updated \in Nat
           /\ entries[i].cancelled \in BOOLEAN
           /\ NoEntry \in Entry
  BY DEF TypeOK, Entry, NoEntry

\* Inserting, rewriting and cancelling leave a map of records.
LEMMA InsertTyped ==
    ASSUME TypeOK, NEW i \in Ids, NEW status \in Active \cup Ended,
           NEW progress \in 0..100, InsertAfterPruning(i, status, progress)
    PROVE  entries' \in [Ids -> Entry]
  <1>1. entries'[i] \in Entry
    BY InsertEffect, WrittenEntry
  <1>2. \A j \in Ids : j # i => entries'[j] \in Entry
    BY InsertEffect, EntryParts
  <1>3. entries' = [j \in Ids |-> entries'[j]]
    BY InsertEffect
  <1> QED
    BY <1>1, <1>2, <1>3

\* See InsertTyped.
LEMMA RewriteTyped ==
    ASSUME TypeOK, NEW i \in Ids, NEW STATE status, status \in Active \cup Ended,
           NEW STATE progress, progress \in 0..100, Rewrite(i, status, progress)
    PROVE  entries' \in [Ids -> Entry]
  <1>1. entries'[i] \in Entry
    <2>1. CASE IsStored(i)
      <3>1. entries[i].cancelled \in BOOLEAN
        BY EntryParts
      <3>2. [status |-> status, progress |-> progress, updated |-> now,
             cancelled |-> entries[i].cancelled] \in Entry
        BY <3>1, WrittenEntry
      <3> QED
        BY <2>1, <3>2, RewriteEffect
    <2>2. CASE ~IsStored(i)
      BY <2>2, RewriteEffect, EntryParts
    <2> QED
      BY <2>1, <2>2
  <1>2. \A j \in Ids : j # i => entries'[j] \in Entry
    BY RewriteEffect, EntryParts
  <1>3. entries' = [j \in Ids |-> entries'[j]]
    BY RewriteEffect
  <1> QED
    BY <1>1, <1>2, <1>3

\* See InsertTyped.
LEMMA CancelTyped ==
    ASSUME TypeOK, NEW i \in Ids, Cancel(i)
    PROVE  entries' \in [Ids -> Entry]
  <1>1. entries'[i] \in Entry
    <2>1. "Cancelled" \in Active \cup Ended
      BY DEF Ended
    <2> QED
      BY <2>1, CancelEffect, WrittenEntry, EntryParts
  <1>2. \A j \in Ids : j # i => entries'[j] \in Entry
    BY CancelEffect, EntryParts
  <1>3. entries' = [j \in Ids |-> entries'[j]]
    BY CancelEffect
  <1> QED
    BY <1>1, <1>2, <1>3

\* A task moves to one of its places, and the clock stands.
LEMMA GotoTyped ==
    ASSUME TypeOK, NEW t \in Tasks, NEW from, NEW to \in Steps, Goto(t, from, to)
    PROVE  pc' \in [Tasks -> Steps] /\ now' \in Nat
  BY DEF TypeOK, Goto

-----------------------------------------------------------------------------
\* Every step of the tools, the tasks and the clock keeps the types.
LEMMA TypeStep == TypeOK /\ [Next]_vars => TypeOK'
PROOF
  <1> SUFFICES ASSUME TypeOK, [Next]_vars PROVE TypeOK'
    OBVIOUS
  <1>0. /\ "Queued" \in Active \cup Ended /\ "Running" \in Active \cup Ended
        /\ "Completed" \in Active \cup Ended /\ "Failed" \in Active \cup Ended
        /\ {0, 10, 35, 50, 100} \subseteq 0..100
        /\ Tasks \subseteq Ids /\ Records \subseteq Ids
    BY DEF Active, Ended, Ids
  <1>1. ASSUME NEW t \in Tasks, Start(t) PROVE TypeOK'
    <2>1. entries' \in [Ids -> Entry]
      BY <1>0, <1>1, InsertTyped DEF Start
    <2>2. pc' \in [Tasks -> Steps] /\ now' \in Nat
      BY <1>1, GotoTyped DEF Start, Steps
    <2> QED
      BY <2>1, <2>2 DEF TypeOK
  <1>2. ASSUME NEW t \in Tasks, BeginScan(t) PROVE TypeOK'
    <2>1. entries' \in [Ids -> Entry]
      BY <1>0, <1>2, RewriteTyped DEF BeginScan, Update
    <2>2. pc' \in [Tasks -> Steps] /\ now' \in Nat
      BY <1>2, GotoTyped DEF BeginScan, Steps
    <2> QED
      BY <2>1, <2>2 DEF TypeOK
  <1>3. ASSUME NEW t \in Tasks,
               ScanAnswered(t) \/ CheckAfterScan(t) \/ AnalysisJoined(t)
                 \/ CheckAfterAnalysis(t)
        PROVE TypeOK'
    BY <1>3 DEF TypeOK, Steps, Goto,
                ScanAnswered, CheckAfterScan, AnalysisJoined, CheckAfterAnalysis
  <1>4. ASSUME NEW t \in Tasks, Normalize(t) PROVE TypeOK'
    <2>1. entries' \in [Ids -> Entry]
      BY <1>0, <1>4, RewriteTyped DEF Normalize, Update
    <2>2. pc' \in [Tasks -> Steps] /\ now' \in Nat
      BY <1>4, GotoTyped DEF Normalize, Steps
    <2> QED
      BY <2>1, <2>2 DEF TypeOK
  <1>5. ASSUME NEW t \in Tasks, BeginAnalysis(t) PROVE TypeOK'
    <2>1. entries' \in [Ids -> Entry]
      BY <1>0, <1>5, RewriteTyped DEF BeginAnalysis, Update
    <2>2. pc' \in [Tasks -> Steps] /\ now' \in Nat
      BY <1>5, GotoTyped DEF BeginAnalysis, Steps
    <2> QED
      BY <2>1, <2>2 DEF TypeOK
  <1>6. ASSUME NEW t \in Tasks, Complete(t) PROVE TypeOK'
    <2>1. entries' \in [Ids -> Entry]
      BY <1>0, <1>6, RewriteTyped DEF Complete, CompleteRecord
    <2>2. pc' \in [Tasks -> Steps] /\ now' \in Nat
      BY <1>6, GotoTyped DEF Complete, Steps
    <2> QED
      BY <2>1, <2>2 DEF TypeOK
  <1>7. ASSUME NEW t \in Tasks, Fail(t) PROVE TypeOK'
    <2>1. entries' \in [Ids -> Entry]
      BY <1>0, <1>7, RewriteTyped, EntryParts DEF Fail, FailRecord
    <2>2. pc' \in [Tasks -> Steps] /\ now' \in Nat
      BY <1>7, GotoTyped DEF Fail, Steps
    <2> QED
      BY <2>1, <2>2 DEF TypeOK
  <1>8. ASSUME NEW i \in Records, RecordCompleted(i) PROVE TypeOK'
    <2>1. entries' \in [Ids -> Entry]
      BY <1>0, <1>8, InsertTyped DEF RecordCompleted
    <2> QED
      BY <1>8, <2>1 DEF TypeOK, RecordCompleted
  <1>9. ASSUME NEW i \in Ids, StopOperation(i) PROVE TypeOK'
    BY <1>9, CancelTyped DEF TypeOK, StopOperation
  <1>10. CASE Tick
    BY <1>10 DEF Tick, TypeOK
  <1>11. CASE UNCHANGED vars
    BY <1>11 DEF vars, TypeOK
  <1> QED
    BY <1>1, <1>2, <1>3, <1>4, <1>5, <1>6, <1>7, <1>8, <1>9, <1>10, <1>11
       DEF Next, TaskStep

\* The type invariant: records, tasks and clock keep their types through
\* every interleaving of tools and tasks.
THEOREM TypeCorrect == Spec => []TypeOK
PROOF
  <1>1. Init => TypeOK
    BY DEF Init, TypeOK, Entry, NoEntry, Absent, Steps
  <1> QED
    BY <1>1, TypeStep, PTL DEF Spec

-----------------------------------------------------------------------------
\* A task that does not move, and whose record stays or is pruned, stays in
\* order.
LEMMA TaskFrame ==
    ASSUME NEW t \in Tasks, TaskOK(t), pc'[t] = pc[t],
           entries'[t] = entries[t] \/ entries'[t] = NoEntry
    PROVE  TaskOK(t)'
  BY DEF TaskOK, IsStored, IsCancelled, NoEntry, Absent

\* A step of one task keeps every record in agreement with its task.
LEMMA TaskStepKeepsOrder ==
    ASSUME IInv, NEW t \in Tasks, Start(t) \/ TaskStep(t)
    PROVE  \A u \in Tasks : TaskOK(u)'
  <1> USE DEF IInv
  <1>0. t \in Ids /\ Tasks \subseteq Ids
    BY DEF Ids
  <1>1. \A u \in Tasks : u # t => pc'[u] = pc[u]
    BY DEF TypeOK, Start, TaskStep, Goto, BeginScan, ScanAnswered, CheckAfterScan,
           Normalize, BeginAnalysis, AnalysisJoined, CheckAfterAnalysis, Complete, Fail
  <1>2. now' = now /\ now \in Nat
    BY DEF TypeOK, Start, TaskStep, Goto, BeginScan, ScanAnswered, CheckAfterScan,
           Normalize, BeginAnalysis, AnalysisJoined, CheckAfterAnalysis, Complete, Fail
  <1>3. CASE Start(t)
    <2>1. /\ entries'[t] = [status |-> "Queued", progress |-> 0, updated |-> now,
                            cancelled |-> FALSE]
          /\ \A j \in Ids : j # t => entries'[j] = entries[j] \/ entries'[j] = NoEntry
      BY <1>0, <1>3, InsertEffect DEF Start
    <2>2. pc'[t] = "spawned"
      BY <1>3 DEF Start, Goto, TypeOK
    <2>3. TaskOK(t)'
      BY <2>1, <2>2 DEF TaskOK, IsCancelled, Shown, Ceiling
    <2> QED
      BY <1>0, <1>1, <1>2, <2>1, <2>3, TaskFrame
  <1>4. ASSUME NEW STATE status, NEW STATE progress, Rewrite(t, status, progress),
               status \in Shown(pc'[t]), progress <= Ceiling(pc'[t])
        PROVE  \A u \in Tasks : TaskOK(u)'
    <2>1. \A j \in Ids : j # t => entries'[j] = entries[j]
      BY <1>0, <1>4, RewriteEffect
    <2>2. CASE IsStored(t)
      <3>1. entries'[t] = [status |-> status, progress |-> progress, updated |-> now,
                           cancelled |-> entries[t].cancelled]
        BY <1>0, <1>4, <2>2, RewriteEffect
      <3>2. TaskOK(t)'
        BY <1>4, <3>1 DEF TaskOK
      <3> QED
        BY <1>0, <1>1, <1>2, <2>1, <3>2, TaskFrame
    <2>3. CASE ~IsStored(t)
      <3>1. entries'[t] = entries[t]
        BY <1>0, <1>4, <2>3, RewriteEffect
      <3>2. TaskOK(t)'
        BY <2>3, <3>1 DEF TaskOK, IsStored
      <3> QED
        BY <1>0, <1>1, <1>2, <2>1, <3>2, TaskFrame
    <2> QED
      BY <2>2, <2>3
  <1>5. CASE BeginScan(t) \/ Normalize(t) \/ BeginAnalysis(t) \/ Complete(t)
    <2> USE DEF Goto, TypeOK, Shown, Ceiling
    <2>1. CASE BeginScan(t)
      BY <1>4, <2>1 DEF BeginScan, Update
    <2>2. CASE Normalize(t)
      BY <1>4, <2>2 DEF Normalize, Update
    <2>3. CASE BeginAnalysis(t)
      BY <1>4, <2>3 DEF BeginAnalysis, Update
    <2>4. CASE Complete(t)
      BY <1>4, <2>4 DEF Complete, CompleteRecord
    <2> QED
      BY <1>5, <2>1, <2>2, <2>3, <2>4
  <1>6. CASE Fail(t)
    <2>1. pc'[t] = "done"
      BY <1>6 DEF Fail, Goto, TypeOK
    <2>2. entries[t].progress <= Ceiling(pc'[t])
      BY <1>0, <2>1, EntryParts DEF Ceiling
    <2>3. "Failed" \in Shown(pc'[t])
      BY <2>1 DEF Shown
    <2> QED
      BY <1>4, <1>6, <2>2, <2>3 DEF Fail, FailRecord
  <1>7. CASE ScanAnswered(t) \/ CheckAfterScan(t) \/ AnalysisJoined(t)
               \/ CheckAfterAnalysis(t)
    <2>1. entries' = entries
      BY <1>7 DEF ScanAnswered, CheckAfterScan, AnalysisJoined, CheckAfterAnalysis
    <2>2. TaskOK(t)
      OBVIOUS
    <2>3. \/ pc[t] = "scanning" /\ pc'[t] \in {"scanned", "failing"}
          \/ pc[t] = "scanned" /\ pc'[t] = "normalizing"
          \/ pc[t] = "analyzing" /\ pc'[t] \in {"analyzed", "failing"}
          \/ pc[t] = "analyzed" /\ pc'[t] = "finishing"
          \/ /\ pc[t] \in {"scanned", "analyzed"}
             /\ pc'[t] = "done"
             /\ IsCancelled(t)
      BY <1>7 DEF Goto, TypeOK, ScanAnswered, CheckAfterScan, AnalysisJoined,
                  CheckAfterAnalysis
    <2>4. Ceiling(pc[t]) <= Ceiling(pc'[t])
      BY <2>3 DEF Ceiling
    <2>5. Shown(pc[t]) = Shown(pc'[t]) \/ IsCancelled(t)
      BY <2>3 DEF Shown
    <2>6. /\ Ceiling(pc[t]) \in Nat /\ Ceiling(pc'[t]) \in Nat
          /\ entries[t].progress \in Nat
      BY <1>0, EntryParts DEF Ceiling
    <2>7. IsStored(t)' <=> IsStored(t)
      BY <2>1 DEF IsStored
    <2>8. IsCancelled(t)' <=> IsCancelled(t)
      BY <2>1 DEF IsCancelled
    <2>9. TaskOK(t)'
      BY <2>1, <2>2, <2>4, <2>5, <2>6, <2>7, <2>8 DEF TaskOK
    <2> QED
      BY <1>0, <1>1, <1>2, <2>1, <2>9, TaskFrame
  <1> QED
    BY <1>3, <1>5, <1>6, <1>7 DEF TaskStep

\* IInv is inductive.
LEMMA InvariantStep == IInv /\ [Next]_vars => IInv'
PROOF
  <1> SUFFICES ASSUME IInv, [Next]_vars PROVE IInv'
    OBVIOUS
  <1> USE DEF IInv
  <1>0. TypeOK' /\ Tasks \subseteq Ids /\ Records \subseteq Ids
    BY TypeStep DEF Ids
  <1>1. ASSUME NEW t \in Tasks, Start(t) \/ TaskStep(t) PROVE IInv'
    BY <1>0, <1>1, TaskStepKeepsOrder
  <1>2. ASSUME NEW i \in Records, RecordCompleted(i) PROVE IInv'
    <2>1. /\ entries'[i] = [status |-> "Completed", progress |-> 100, updated |-> now,
                            cancelled |-> FALSE]
          /\ \A j \in Ids : j # i => entries'[j] = entries[j] \/ entries'[j] = NoEntry
      BY <1>0, <1>2, InsertEffect DEF RecordCompleted
    <2>2. pc' = pc /\ now' = now /\ now \in Nat
      BY <1>2 DEF RecordCompleted, TypeOK
    <2>3. \A u \in Tasks : TaskOK(u)'
      BY <1>0, <2>1, <2>2, TaskFrame, RegistryAssumption
    <2> QED
      BY <1>0, <2>2, <2>3
  <1>3. ASSUME NEW i \in Ids, StopOperation(i) PROVE IInv'
    <2>1. /\ entries'[i] = [status |-> "Cancelled", progress |-> entries[i].progress,
                            updated |-> now, cancelled |-> TRUE]
          /\ \A j \in Ids : j # i => entries'[j] = entries[j]
      BY <1>3, CancelEffect DEF StopOperation
    <2>2. pc' = pc /\ now' = now /\ now \in Nat
      BY <1>3 DEF StopOperation, TypeOK
    <2>3. ASSUME NEW u \in Tasks PROVE TaskOK(u)'
      <3>1. CASE u = i
        <4>1. IsStored(u)
          BY <1>3, <3>1 DEF StopOperation, Cancel, IsActive, IsStored, Active, Absent
        <4> QED
          BY <2>1, <2>2, <3>1, <4>1 DEF TaskOK, IsCancelled
      <3>2. CASE u # i
        BY <1>0, <2>1, <2>2, <3>2, TaskFrame
      <3> QED
        BY <3>1, <3>2
    <2> QED
      BY <1>0, <2>2, <2>3
  <1>4. CASE Tick \/ UNCHANGED vars
    <2>1. entries' = entries /\ pc' = pc /\ now' >= now /\ now' \in Nat
      BY <1>4 DEF Tick, vars, TypeOK
    <2> QED
      BY <1>0, <2>1, TaskFrame
  <1> HIDE DEF IInv
  <1> QED
    BY <1>1, <1>2, <1>3, <1>4 DEF Next

\* IInv holds in every reachable state.
LEMMA Invariant == Spec => []IInv
PROOF
  <1>1. Init => IInv
    <2>1. Init => TypeOK
      BY DEF Init, TypeOK, Entry, NoEntry, Absent, Steps
    <2> QED
      BY <2>1 DEF Init, IInv, TaskOK, IsStored, NoEntry, Ids
  <1> QED
    BY <1>1, InvariantStep, PTL DEF Spec

\* An operation nobody stopped is reported truthfully, whatever is stopped,
\* recorded or pruned around it.
THEOREM RecordMatchesTaskAlways == Spec => []RecordMatchesTask
PROOF
  <1>1. IInv => RecordMatchesTask
    BY DEF IInv, TaskOK, RecordMatchesTask
  <1> QED
    BY <1>1, Invariant, PTL

-----------------------------------------------------------------------------
(* What a step may never do.                                               *)

\* A step leaves a record alone, writes a stored one, or prunes a finished one.
LEMMA StepEffect ==
    ASSUME TypeOK, [Next]_vars, NEW j \in Ids
    PROVE  \/ entries'[j] = entries[j]
           \/ entries'[j].status \in Active \cup Ended
           \/ IsTerminal(j) /\ entries'[j] = NoEntry
PROOF
  <1> DEFINE Fine == \/ entries'[j] = entries[j]
                     \/ entries'[j].status \in Active \cup Ended
                     \/ IsTerminal(j) /\ entries'[j] = NoEntry
  <1>0. Tasks \subseteq Ids /\ Records \subseteq Ids
    BY DEF Ids
  <1>1. ASSUME NEW i \in Ids, NEW status \in Active \cup Ended, NEW progress,
               InsertAfterPruning(i, status, progress)
        PROVE  Fine
    BY <1>1, InsertAt
  <1>2. ASSUME NEW i \in Ids, NEW STATE status, status \in Active \cup Ended,
               NEW STATE progress, Rewrite(i, status, progress)
        PROVE  Fine
    BY <1>2, RewriteAt
  <1>3. ASSUME NEW t \in Tasks, Start(t) \/ TaskStep(t) PROVE Fine
    BY <1>0, <1>1, <1>2, <1>3
       DEF Start, TaskStep, BeginScan, ScanAnswered, CheckAfterScan, Normalize,
           BeginAnalysis, AnalysisJoined, CheckAfterAnalysis, Complete, Fail,
           Update, CompleteRecord, FailRecord, Active, Ended
  <1>4. ASSUME NEW i \in Records, RecordCompleted(i) PROVE Fine
    BY <1>0, <1>1, <1>4 DEF RecordCompleted, Ended
  <1>5. ASSUME NEW i \in Ids, StopOperation(i) PROVE Fine
    BY <1>5, CancelAt DEF StopOperation, Ended
  <1>6. CASE Tick \/ UNCHANGED vars
    BY <1>6 DEF Tick, vars
  <1> QED
    BY <1>3, <1>4, <1>5, <1>6 DEF Next

\* However full the map, a queued or running operation is never dropped.
THEOREM ActiveNeverDroppedAlways == Spec => ActiveNeverDropped
PROOF
  <1>1. TypeOK /\ [Next]_vars => [\A i \in Ids : IsActive(i) => IsStored(i)']_vars
    <2> SUFFICES ASSUME TypeOK, [Next]_vars, NEW i \in Ids, IsActive(i)
                 PROVE  IsStored(i)'
      OBVIOUS
    <2>1. Absent \notin Active \cup Ended /\ Active \cap Ended = {}
      BY DEF Active, Ended, Absent
    <2> QED
      BY <2>1, StepEffect DEF IsActive, IsStored, IsTerminal
  <1> QED
    BY <1>1, TypeCorrect, PTL DEF Spec, ActiveNeverDropped

\* The progress a client polls never goes back.
THEOREM ProgressNeverGoesBackAlways == Spec => ProgressNeverGoesBack
PROOF
  <1>1. IInv /\ [Next]_vars =>
          [\A t \in Tasks : IsStored(t) /\ IsStored(t)'
              => entries'[t].progress >= entries[t].progress]_vars
    <2> SUFFICES ASSUME IInv, [Next]_vars, NEW t \in Tasks,
                        IsStored(t), IsStored(t)'
                 PROVE  entries'[t].progress >= entries[t].progress
      OBVIOUS
    <2>0. /\ TypeOK /\ t \in Ids /\ Tasks \subseteq Ids /\ Records \subseteq Ids
          /\ entries[t].progress \in 0..100
      BY EntryParts DEF IInv, Ids
    <2>1. entries[t].progress <= Ceiling(pc[t])
      BY DEF IInv, TaskOK
    <2>2. ASSUME NEW i \in Ids, i # t, NEW status, NEW progress,
                 InsertAfterPruning(i, status, progress)
          PROVE  entries'[t].progress >= entries[t].progress
      <3>1. entries'[t] = entries[t] \/ entries'[t] = NoEntry
        BY <2>0, <2>2, InsertAt
      <3>2. entries'[t] # NoEntry
        BY DEF IsStored, NoEntry
      <3> QED
        BY <2>0, <3>1, <3>2
    <2>3. ASSUME NEW i \in Ids, NEW STATE status, NEW STATE progress,
                 Rewrite(i, status, progress),
                 i = t => progress >= entries[t].progress
          PROVE  entries'[t].progress >= entries[t].progress
      <3>1. entries'[t] = entries[t] \/ (i = t /\ entries'[t].progress = progress)
        BY <2>0, <2>3, RewriteAt
      <3> QED
        BY <2>0, <2>3, <3>1
    <2>4. ASSUME NEW u \in Tasks, Start(u)
          PROVE  entries'[t].progress >= entries[t].progress
      <3>1. CASE u = t
        <4>1. entries'[t].progress = 0
          <5>1. InsertAfterPruning(t, "Queued", 0)
            BY <2>4, <3>1 DEF Start
          <5>2. entries'[t] = [status |-> "Queued", progress |-> 0,
                               updated |-> now, cancelled |-> FALSE]
            BY <2>0, <5>1, InsertEffect
          <5> QED
            BY <5>2
        <4>2. Ceiling(pc[t]) = 0
          BY <2>4, <3>1 DEF Start, Goto, Ceiling
        <4> QED
          BY <2>0, <2>1, <4>1, <4>2
      <3>2. CASE u # t
        BY <2>0, <2>2, <2>4, <3>2 DEF Start
      <3> QED
        BY <3>1, <3>2
    <2>5. ASSUME NEW u \in Tasks, TaskStep(u)
          PROVE  entries'[t].progress >= entries[t].progress
      <3>1. CASE BeginScan(u)
        <4>1. u = t => 10 >= entries[t].progress
          BY <2>0, <2>1, <3>1 DEF BeginScan, Goto, Ceiling
        <4> QED
          BY <2>0, <2>3, <3>1, <4>1 DEF BeginScan, Update
      <3>2. CASE Normalize(u)
        <4>1. u = t => 35 >= entries[t].progress
          BY <2>0, <2>1, <3>2 DEF Normalize, Goto, Ceiling
        <4> QED
          BY <2>0, <2>3, <3>2, <4>1 DEF Normalize, Update
      <3>3. CASE BeginAnalysis(u)
        <4>1. u = t => 50 >= entries[t].progress
          BY <2>0, <2>1, <3>3 DEF BeginAnalysis, Goto, Ceiling
        <4> QED
          BY <2>0, <2>3, <3>3, <4>1 DEF BeginAnalysis, Update
      <3>4. CASE Complete(u)
        BY <2>0, <2>3, <3>4 DEF Complete, CompleteRecord
      <3>5. CASE Fail(u)
        BY <2>0, <2>3, <3>5 DEF Fail, FailRecord
      <3>6. CASE entries' = entries
        BY <2>0, <3>6
      <3> QED
        BY <2>5, <3>1, <3>2, <3>3, <3>4, <3>5, <3>6
           DEF TaskStep, ScanAnswered, CheckAfterScan, AnalysisJoined,
               CheckAfterAnalysis
    <2>6. ASSUME NEW i \in Records, RecordCompleted(i)
          PROVE  entries'[t].progress >= entries[t].progress
      <3>1. i # t
        BY RegistryAssumption
      <3> QED
        BY <2>0, <2>2, <2>6, <3>1 DEF RecordCompleted
    <2>7. ASSUME NEW i \in Ids, StopOperation(i)
          PROVE  entries'[t].progress >= entries[t].progress
      <3>1. entries'[t].progress = entries[t].progress
        BY <2>0, <2>7, CancelAt DEF StopOperation
      <3> QED
        BY <2>0, <3>1
    <2>8. CASE Tick \/ UNCHANGED vars
      BY <2>0, <2>8 DEF Tick, vars
    <2> QED
      BY <2>4, <2>5, <2>6, <2>7, <2>8 DEF Next
  <1> QED
    BY <1>1, Invariant, PTL DEF Spec, ProgressNeverGoesBack

\* Only an insertion stores what was not stored.
LEMMA OnlyInsertionAdds ==
    ASSUME TypeOK, [Next]_vars, NEW n \in Ids, ~IsStored(n), IsStored(n)'
    PROVE  \E status \in {"Queued", "Completed"}, progress \in {0, 100} :
              InsertAfterPruning(n, status, progress)
PROOF
  <1>0. Tasks \subseteq Ids /\ Records \subseteq Ids
    BY DEF Ids
  <1>1. ASSUME NEW i \in Ids, NEW status, NEW progress,
               InsertAfterPruning(i, status, progress)
        PROVE  i = n
    <2>1. entries'[n] # entries[n] /\ entries'[n] # NoEntry
      BY DEF IsStored, NoEntry
    <2> QED
      BY <1>1, <2>1, InsertAt
  <1>2. ASSUME NEW t \in Tasks, Start(t)
        PROVE  InsertAfterPruning(n, "Queued", 0)
    BY <1>0, <1>1, <1>2 DEF Start
  <1>3. ASSUME NEW i \in Records, RecordCompleted(i)
        PROVE  InsertAfterPruning(n, "Completed", 100)
    BY <1>0, <1>1, <1>3 DEF RecordCompleted
  <1>4. entries'[n] # entries[n]
    BY DEF IsStored
  <1>5. ASSUME NEW i \in Ids, NEW STATE status, NEW STATE progress,
               Rewrite(i, status, progress)
        PROVE  FALSE
    <2>1. CASE i = n
      <3>1. entries' = entries
        BY <1>5, <2>1 DEF Rewrite, IsStored
      <3> QED
        BY <1>4, <3>1
    <2>2. CASE i # n
      BY <1>4, <1>5, <2>2, RewriteAt
    <2> QED
      BY <2>1, <2>2
  <1>6. ASSUME NEW t \in Tasks, TaskStep(t) PROVE FALSE
    BY <1>0, <1>4, <1>5, <1>6
       DEF TaskStep, BeginScan, ScanAnswered, CheckAfterScan, Normalize,
           BeginAnalysis, AnalysisJoined, CheckAfterAnalysis, Complete, Fail,
           Update, CompleteRecord, FailRecord
  <1>7. ASSUME NEW i \in Ids, StopOperation(i) PROVE FALSE
    <2>1. CASE i = n
      BY <1>7, <2>1 DEF StopOperation, Cancel, IsActive, IsStored, Active, Absent
    <2>2. CASE i # n
      BY <1>4, <1>7, <2>2, CancelEffect DEF StopOperation
    <2> QED
      BY <2>1, <2>2
  <1>8. CASE Tick \/ UNCHANGED vars
    BY <1>4, <1>8 DEF Tick, vars
  <1> QED
    BY <1>2, <1>3, <1>6, <1>7, <1>8 DEF Next

\* An insertion leaves the map within its bound, or without an old finished
\* record.
LEMMA InsertBounds ==
    ASSUME NEW n \in Ids, NEW status \in Active \cup Ended, NEW progress,
           InsertAfterPruning(n, status, progress), ~IsStored(n)
    PROVE  \/ Cardinality({i \in Ids : IsStored(i)'}) <= MaxEntries
           \/ Cardinality({i \in Ids : IsTerminal(i)'}) <= 1
PROOF
  <1> DEFINE S == {i \in Ids : IsStored(i)}
             T == {i \in Ids : IsTerminal(i)}
             Snext == {i \in Ids : IsStored(i)'}
             Tnext == {i \in Ids : IsTerminal(i)'}
  <1>1. PICK gone \in PruneChoices(Target) :
          entries' = [j \in Ids |->
            IF j = n THEN [status |-> status, progress |-> progress,
                           updated |-> now, cancelled |-> FALSE]
            ELSE IF j \in gone THEN NoEntry
            ELSE entries[j]]
    BY DEF InsertAfterPruning
  <1>2. gone \subseteq T /\ Cardinality(gone) = ExcessOver(Target)
    BY <1>1 DEF PruneChoices
  <1>3. T \subseteq S
    BY DEF IsStored, IsTerminal, Ended, Absent
  <1>4. IsFiniteSet(Ids)
    BY RegistryAssumption, FS_Union DEF Ids
  <1>5. IsFiniteSet(S) /\ IsFiniteSet(T) /\ IsFiniteSet(gone)
    BY <1>2, <1>3, <1>4, FS_Subset
  <1>6. /\ Cardinality(S) \in Nat /\ Cardinality(T) \in Nat
        /\ Cardinality(gone) \in Nat /\ MaxEntries \in Nat \ {0}
    BY <1>5, FS_CardinalityType, RegistryAssumption
  <1>7. CASE ExcessOver(Target) < Cardinality(T)
    <2>1. Snext = (S \ gone) \cup {n}
      <3>1. ASSUME NEW j \in Ids PROVE j \in Snext <=> j \in (S \ gone) \cup {n}
        BY <1>1 DEF IsStored, NoEntry, Active, Ended, Absent
      <3> QED
        BY <3>1
    <2>2. Cardinality(S \ gone) = Cardinality(S) - Cardinality(gone)
      <3>1. S \cap gone = gone
        BY <1>2, <1>3
      <3> QED
        BY <1>5, <3>1, FS_Difference
    <2>3. IsFiniteSet(S \ gone) /\ Cardinality(S \ gone) \in Nat
      BY <1>5, FS_Subset, FS_CardinalityType
    <2>4. Cardinality(Snext) <= Cardinality(S \ gone) + 1
      <3> DEFINE R == S \ gone
      <3>1. IsFiniteSet(R) /\ Cardinality(R) \in Nat /\ Snext = R \cup {n}
        BY <2>1, <2>3
      <3> HIDE DEF R, Snext
      <3>2. Cardinality(R \cup {n}) = IF n \in R THEN Cardinality(R) ELSE Cardinality(R) + 1
        BY <3>1, FS_AddElement
      <3>3. Cardinality(Snext) <= Cardinality(R) + 1
        BY <3>1, <3>2
      <3> QED
        BY <3>3 DEF R
    <2>5. Cardinality(S) - Cardinality(gone) <= MaxEntries - 1
      BY <1>2, <1>6, <1>7 DEF ExcessOver, Target
    <2>6. Cardinality(Snext) \in Nat
      BY <1>4, FS_Subset, FS_CardinalityType
    <2> QED
      BY <1>6, <2>2, <2>3, <2>4, <2>5, <2>6
  <1>8. CASE ExcessOver(Target) >= Cardinality(T)
    <2>1. Cardinality(gone) = Cardinality(T)
      BY <1>2, <1>6, <1>8 DEF ExcessOver
    <2>2. gone = T
      BY <1>2, <1>5, <2>1, FS_Subset
    <2>3. Tnext \subseteq {n}
      BY <1>1, <2>2 DEF IsTerminal, NoEntry, Ended, Absent
    <2>4. IsFiniteSet({n}) /\ Cardinality({n}) = 1
      BY FS_Singleton
    <2>5. Cardinality(Tnext) <= 1
      BY <2>3, <2>4, FS_Subset
    <2> QED
      BY <2>5
  <1>9. ExcessOver(Target) \in Int
    BY <1>2, <1>6
  <1> QED
    BY <1>6, <1>7, <1>8, <1>9

\* The audit history alone never outgrows the map.
THEOREM InsertKeepsBoundAlways == Spec => InsertKeepsBound
PROOF
  <1>1. TypeOK /\ [Next]_vars =>
          [(\E i \in Ids : ~IsStored(i) /\ IsStored(i)')
              => \/ Cardinality({i \in Ids : IsStored(i)'}) <= MaxEntries
                 \/ Cardinality({i \in Ids : IsTerminal(i)'}) <= 1]_vars
    <2> SUFFICES ASSUME TypeOK, [Next]_vars,
                        NEW n \in Ids, ~IsStored(n), IsStored(n)'
                 PROVE  \/ Cardinality({i \in Ids : IsStored(i)'}) <= MaxEntries
                        \/ Cardinality({i \in Ids : IsTerminal(i)'}) <= 1
      OBVIOUS
    <2>1. PICK status \in {"Queued", "Completed"}, progress \in {0, 100} :
              InsertAfterPruning(n, status, progress)
      BY OnlyInsertionAdds
    <2>2. status \in Active \cup Ended
      BY DEF Active, Ended
    <2> QED
      BY <2>1, <2>2, InsertBounds
  <1> QED
    BY <1>1, TypeCorrect, PTL DEF Spec, InsertKeepsBound

\* What is said of some natural number is true of a least one.
LEMMA LeastNatural ==
    ASSUME NEW S, S \subseteq Nat, S # {}
    PROVE  \E n \in S : \A m \in S : n <= m
<1> DEFINE less == OpToRel(<, Nat)
<1>1. \E n \in S : \A m \in S : <<m, n>> \notin less
  <2> HIDE DEF less
  <2>1. IsWellFoundedOn(less, Nat)
    BY NatLessThanWellFounded DEF less
  <2> QED
    BY <2>1, WFMin, Zenon
<1>2. \A m, n \in Nat : <<m, n>> \notin less => n <= m
  BY DEF OpToRel
<1> QED
  BY <1>1, <1>2

\* Counting up from 0.
LEMMA CountingUp ==
    ASSUME NEW k \in Nat, NEW S, 0 \in S, \A n \in 0..k : n \in S /\ n < k => n + 1 \in S
    PROVE  0..k \subseteq S
<1> SUFFICES ASSUME (0..k) \ S # {}
             PROVE  FALSE
    OBVIOUS
<1>1. PICK n \in (0..k) \ S : \A m \in (0..k) \ S : n <= m
  <2>1. (0..k) \ S \subseteq Nat
    OBVIOUS
  <2> QED
    BY <2>1, LeastNatural
<1>2. n - 1 \in 0..k /\ n - 1 < k /\ ~(n <= n - 1) /\ (n - 1) + 1 = n
  BY <1>1
<1> QED
  BY <1>1, <1>2

-----------------------------------------------------------------------------
(* Sets in an order.                                                       *)

\* R orders S: of two elements exactly one comes first.
Orders(R, S) ==
    /\ \A x, y \in S : x # y => <<x, y>> \in R \/ <<y, x>> \in R
    /\ \A x, y \in S : ~(<<x, y>> \in R /\ <<y, x>> \in R)
    /\ \A x, y, z \in S : <<x, y>> \in R /\ <<y, z>> \in R => <<x, z>> \in R

Earlier(R, S, x) == {y \in S \ {x} : <<y, x>> \in R}
Place1(R, S, x) == Cardinality(Earlier(R, S, x)) + 1

\* The places of a finite set in order are 1 to its size, each one once.
LEMMA PlacesAreNumbers ==
    ASSUME NEW S, IsFiniteSet(S), NEW R, Orders(R, S)
    PROVE  /\ Cardinality(S) \in Nat
           /\ \A x \in S : Place1(R, S, x) \in 1..Cardinality(S)
           /\ \A x, y \in S : Place1(R, S, x) = Place1(R, S, y) => x = y
           /\ \A i \in 1..Cardinality(S) : \E x \in S : Place1(R, S, x) = i
<1> DEFINE size == Cardinality(S)
           place == [x \in S |-> Place1(R, S, x)]
<1>1. size \in Nat
  BY FS_CardinalityType
<1>2. \A x \in S : IsFiniteSet(Earlier(R, S, x)) /\ Cardinality(Earlier(R, S, x)) \in 0..(size - 1)
  <2> TAKE x \in S
  <2>1. IsFiniteSet(S \ {x}) /\ Cardinality(S \ {x}) = size - 1
    BY FS_RemoveElement
  <2>2. Earlier(R, S, x) \in SUBSET (S \ {x})
    BY DEF Earlier
  <2>3. IsFiniteSet(Earlier(R, S, x)) /\ Cardinality(Earlier(R, S, x)) <= Cardinality(S \ {x})
    BY <2>1, <2>2, FS_Subset
  <2>4. Cardinality(Earlier(R, S, x)) \in Nat
    BY <2>3, FS_CardinalityType
  <2> QED
    BY <1>1, <2>1, <2>3, <2>4
<1>3. \A x, y \in S : <<x, y>> \in R => Place1(R, S, x) < Place1(R, S, y)
  <2> SUFFICES ASSUME NEW x \in S, NEW y \in S, <<x, y>> \in R
               PROVE  Place1(R, S, x) < Place1(R, S, y)
    OBVIOUS
  <2>1. Earlier(R, S, x) \in SUBSET Earlier(R, S, y) /\ x \in Earlier(R, S, y) /\ x \notin Earlier(R, S, x)
    BY DEF Earlier, Orders
  <2>2. Earlier(R, S, x) # Earlier(R, S, y)
    BY <2>1
  <2>3. Cardinality(Earlier(R, S, x)) <= Cardinality(Earlier(R, S, y))
        /\ Cardinality(Earlier(R, S, x)) # Cardinality(Earlier(R, S, y))
    BY <2>1, <2>2, <1>2, FS_Subset
  <2> QED
    BY <2>3, <1>2 DEF Place1
<1>4. \A x \in S : Place1(R, S, x) \in 1..size
  BY <1>1, <1>2 DEF Place1
<1>5. \A x, y \in S : Place1(R, S, x) = Place1(R, S, y) => x = y
  <2> SUFFICES ASSUME NEW x \in S, NEW y \in S, x # y
               PROVE  Place1(R, S, x) # Place1(R, S, y)
    OBVIOUS
  <2>1. <<x, y>> \in R \/ <<y, x>> \in R
    BY DEF Orders
  <2> QED
    BY <2>1, <1>3, <1>4
<1>6. \A i \in 1..size : \E x \in S : Place1(R, S, x) = i
  <2>1. place \in Injection(S, 1..size)
    <3>1. place \in [S -> 1..size] /\ \A x \in S : place[x] = Place1(R, S, x)
      BY <1>4
    <3> HIDE DEF place, size
    <3>2. \A x, y \in S : place[x] = place[y] => x = y
      BY <3>1, <1>5
    <3> QED
      BY <3>1, <3>2 DEF Injection, IsInjective
  <2>2. IsFiniteSet(1..size) /\ Cardinality(1..size) = size
    <3>1. 1 \in Int /\ size \in Int
      BY <1>1
    <3>2. IsFiniteSet(1..size) /\ Cardinality(1..size) = IF 1 > size THEN 0 ELSE size - 1 + 1
      BY <3>1, FS_Interval
    <3> HIDE DEF size
    <3> QED
      BY <3>2, <1>1
  <2> HIDE DEF place
  <2>3. place \in Surjection(S, 1..size)
    BY <2>1, <2>2, FS_Injection
  <2> QED
    BY <2>3 DEF Surjection, place
<1> QED
  BY <1>1, <1>4, <1>5, <1>6

\* A finite set that is not empty has a first element.
LEMMA SomethingIsFirst ==
    ASSUME NEW S, IsFiniteSet(S), S # {}, NEW R, Orders(R, S)
    PROVE  \E x \in S : \A y \in S \ {x} : <<x, y>> \in R
<1>1. Cardinality(S) \in Nat /\ Cardinality(S) # 0
  BY FS_CardinalityType, FS_EmptySet
<1>2. PICK x \in S : Place1(R, S, x) = 1
  BY <1>1, PlacesAreNumbers
<1>3. IsFiniteSet(Earlier(R, S, x))
  <2>1. Earlier(R, S, x) \in SUBSET S
    BY DEF Earlier
  <2> QED
    BY <2>1, FS_Subset
<1>4. Cardinality(Earlier(R, S, x)) = 0
  <2>1. Cardinality(Earlier(R, S, x)) \in Nat
    BY <1>3, FS_CardinalityType
  <2> QED
    BY <2>1, <1>2 DEF Place1
<1>5. Earlier(R, S, x) = {}
  BY <1>3, <1>4, FS_EmptySet
<1> QED
  BY <1>5 DEF Earlier, Orders

Distinct(s) == \A i, j \in DOMAIN s : s[i] = s[j] => i = j

\* s has every element of S once.
Enumerates(s, S) == s \in Seq(S) /\ On(s) = S /\ Distinct(s)

Placed(R, S) == {<<Cardinality({y \in S \ {x} : <<y, x>> \in R}) + 1, x>> : x \in S}
Listed(placed, size) == [i \in 1..size |-> (CHOOSE r \in placed : r[1] = i)[2]]

\* Sorting a finite set lists its elements.
LEMMA SortedEnumerates ==
    ASSUME NEW S, IsFiniteSet(S), NEW R, Orders(R, S)
    PROVE  Enumerates(Listed(Placed(R, S), Cardinality(S)), S)
<1> DEFINE placed == Placed(R, S)
           s == [i \in 1..Cardinality(S) |-> (CHOOSE r \in placed : r[1] = i)[2]]
<1>1. placed = {<<Place1(R, S, x), x>> : x \in S}
  BY DEF Place1, Earlier, Placed
<1> HIDE DEF placed
<1>2. Cardinality(S) \in Nat
  BY PlacesAreNumbers
<1>3. \A i \in DOMAIN s : s[i] \in S /\ Place1(R, S, s[i]) = i
  <2> SUFFICES ASSUME NEW i \in 1..Cardinality(S)
               PROVE  s[i] \in S /\ Place1(R, S, s[i]) = i
    OBVIOUS
  <2>1. PICK x \in S : Place1(R, S, x) = i
    BY PlacesAreNumbers
  <2>2. <<Place1(R, S, x), x>> \in placed /\ <<Place1(R, S, x), x>>[1] = i
    BY <2>1, <1>1
  <2>3. PICK r : r = (CHOOSE q \in placed : q[1] = i)
    OBVIOUS
  <2>4. r \in placed /\ r[1] = i
    BY <2>2, <2>3
  <2>5. s[i] = r[2]
    BY <2>3
  <2>6. PICK z \in S : r = <<Place1(R, S, z), z>>
    BY <1>1, <2>4
  <2> HIDE DEF s
  <2> QED
    BY <2>4, <2>5, <2>6
<1>4. DOMAIN s = 1..Cardinality(S)
  OBVIOUS
<1>5. s \in Seq(S)
  <2>1. s = [i \in 1..Cardinality(S) |-> s[i]]
    OBVIOUS
  <2> HIDE DEF s
  <2>2. s \in [1..Cardinality(S) -> S]
    BY <2>1, <1>3, <1>4
  <2> QED
    BY <2>2, <1>2
<1> HIDE DEF s
<1>6. \A x \in S : s[Place1(R, S, x)] = x /\ Place1(R, S, x) \in DOMAIN s
  BY <1>3, <1>4, PlacesAreNumbers
<1>7. On(s) = S
  BY <1>3, <1>6 DEF On
<1>8. Distinct(s)
  BY <1>3, <1>4 DEF Distinct
<1> QED
  BY <1>5, <1>7, <1>8 DEF Enumerates, Listed, s, placed

-----------------------------------------------------------------------------
(* Sequences.                                                              *)

LEMMA OnIsTheRange ==
    ASSUME NEW S, NEW s \in Seq(S)
    PROVE  /\ Len(s) \in Nat /\ DOMAIN s = 1..Len(s) /\ On(s) \subseteq S
           /\ \A i \in 1..Len(s) : s[i] \in On(s)
           /\ \A x \in On(s) : \E i \in 1..Len(s) : s[i] = x
BY DEF On

-----------------------------------------------------------------------------
(* Graphs: next has the successors of every node.                          *)

IsGraph(next, nodes) == next \in [nodes -> SUBSET nodes]
Closed(next, S) == \A p \in S : next[p] \subseteq S

\* What p leads to: what is in every set that has p and is not left.
LeadsTo(next, p) ==
    {q \in DOMAIN next : \A S \in SUBSET DOMAIN next : p \in S /\ Closed(next, S) => q \in S}

LEMMA LeadingToIsLeast ==
    ASSUME NEW nodes, NEW next, IsGraph(next, nodes), NEW p \in nodes
    PROVE  /\ LeadsTo(next, p) \subseteq nodes /\ p \in LeadsTo(next, p)
           /\ Closed(next, LeadsTo(next, p))
           /\ \A S \in SUBSET nodes : p \in S /\ Closed(next, S) => LeadsTo(next, p) \subseteq S
<1>1. DOMAIN next = nodes /\ \A q \in nodes : next[q] \subseteq nodes
  BY DEF IsGraph
<1>2. LeadsTo(next, p) \subseteq nodes /\ p \in LeadsTo(next, p)
  BY <1>1 DEF LeadsTo
<1>3. \A S \in SUBSET nodes : p \in S /\ Closed(next, S) => LeadsTo(next, p) \subseteq S
  BY <1>1 DEF LeadsTo
<1>4. Closed(next, LeadsTo(next, p))
  <2> SUFFICES ASSUME NEW q \in LeadsTo(next, p), NEW r \in next[q],
                      NEW S \in SUBSET nodes, p \in S, Closed(next, S)
               PROVE  r \in S
    BY <1>1, <1>2 DEF Closed, LeadsTo
  <2>1. q \in S
    BY <1>3
  <2> QED
    BY <2>1 DEF Closed
<1> QED
  BY <1>2, <1>3, <1>4

LEMMA LeadingOn ==
    ASSUME NEW nodes, NEW next, IsGraph(next, nodes), NEW p \in nodes, NEW q \in LeadsTo(next, p)
    PROVE  q \in nodes /\ LeadsTo(next, q) \subseteq LeadsTo(next, p)
<1>1. q \in nodes
  BY LeadingToIsLeast
<1> QED
  BY <1>1, LeadingToIsLeast

-----------------------------------------------------------------------------
(* Sets that grow until they do not.                                       *)

Grows(grow, U) ==
    /\ grow \in [SUBSET U -> SUBSET U]
    /\ \A S \in SUBSET U : S \subseteq grow[S]
    /\ \A S, T \in SUBSET U : S \subseteq T => grow[S] \subseteq grow[T]

GrowsInto(rec, grow, U) == rec = [S \in SUBSET U |-> IF grow[S] = S THEN S ELSE rec[grow[S]]]

\* What is in every set with S that does not grow.
Grown(grow, U, S) == {x \in U : \A T \in SUBSET U : S \subseteq T /\ grow[T] = T => x \in T}

LEMMA GrownIsLeast ==
    ASSUME NEW U, NEW grow, Grows(grow, U), NEW S \in SUBSET U
    PROVE  /\ Grown(grow, U, S) \in SUBSET U /\ S \subseteq Grown(grow, U, S)
           /\ grow[Grown(grow, U, S)] = Grown(grow, U, S)
           /\ \A T \in SUBSET U : S \subseteq T /\ grow[T] = T => Grown(grow, U, S) \subseteq T
           /\ grow[S] = S => Grown(grow, U, S) = S
           /\ Grown(grow, U, grow[S]) = Grown(grow, U, S)
<1> DEFINE G == Grown(grow, U, S)
<1>1. G \in SUBSET U /\ S \subseteq G
  BY DEF Grown
<1>2. \A T \in SUBSET U : S \subseteq T /\ grow[T] = T => G \subseteq T
  BY DEF Grown
<1>3. grow[G] = G
  <2>1. grow[G] \in SUBSET U /\ G \subseteq grow[G]
    BY <1>1 DEF Grows
  <2>2. \A T \in SUBSET U : S \subseteq T /\ grow[T] = T => grow[G] \subseteq T
    BY <1>1, <1>2 DEF Grows
  <2>3. grow[G] \subseteq G
    BY <2>1, <2>2 DEF Grown
  <2> QED
    BY <2>1, <2>3
<1>4. grow[S] = S => G = S
  BY <1>1, <1>2
<1>5. Grown(grow, U, grow[S]) = G
  <2>1. \A T \in SUBSET U : grow[T] = T => (S \subseteq T <=> grow[S] \subseteq T)
    BY DEF Grows
  <2> QED
    BY <2>1 DEF Grown
<1> QED
  BY <1>1, <1>2, <1>3, <1>4, <1>5

LEMMA GrowingIsDefined ==
    ASSUME NEW U, NEW grow, Grows(grow, U)
    PROVE  \E rec : GrowsInto(rec, grow, U)
<1> DEFINE rec == [S \in SUBSET U |-> Grown(grow, U, S)]
<1>1. \A S \in SUBSET U : grow[S] \in SUBSET U
  BY DEF Grows
<1>2. \A S \in SUBSET U : rec[grow[S]] = Grown(grow, U, S)
  BY <1>1, GrownIsLeast
<1>3. \A S \in SUBSET U : Grown(grow, U, S) = IF grow[S] = S THEN S ELSE rec[grow[S]]
  <2> HIDE DEF rec
  <2> QED
    BY <1>2, GrownIsLeast
<1>4. rec = [S \in SUBSET U |-> IF grow[S] = S THEN S ELSE rec[grow[S]]]
  <2>1. PICK r : r = rec
    OBVIOUS
  <2>2. r = [S \in SUBSET U |-> Grown(grow, U, S)]
    BY <2>1
  <2>3. \A S \in SUBSET U : Grown(grow, U, S) = IF grow[S] = S THEN S ELSE r[grow[S]]
    BY <1>3, <2>1
  <2> HIDE DEF rec
  <2>4. r = [S \in SUBSET U |-> IF grow[S] = S THEN S ELSE r[grow[S]]]
    BY <2>2, <2>3
  <2> QED
    BY <2>1, <2>4
<1> QED
  BY <1>4 DEF GrowsInto

\* In a finite set growing comes to an end.
LEMMA GrowingEnds ==
    ASSUME NEW U, IsFiniteSet(U), NEW grow, Grows(grow, U), NEW rec, GrowsInto(rec, grow, U),
           NEW S \in SUBSET U
    PROVE  rec[S] = Grown(grow, U, S)
<1> DEFINE left(T) == Cardinality(U \ T)
           bad == {T \in SUBSET U : rec[T] # Grown(grow, U, T)}
           sizes == {left(T) : T \in bad}
<1>1. \A T \in SUBSET U : IsFiniteSet(U \ T) /\ left(T) \in Nat
  <2> TAKE T \in SUBSET U
  <2>1. U \ T \in SUBSET U
    OBVIOUS
  <2> QED
    BY <2>1, FS_Subset, FS_CardinalityType
<1> SUFFICES ASSUME S \in bad
             PROVE  FALSE
  OBVIOUS
<1>2. PICK n \in sizes : \A m \in sizes : n <= m
  <2>1. sizes \subseteq Nat /\ sizes # {}
    BY <1>1
  <2> HIDE DEF sizes
  <2> QED
    BY <2>1, LeastNatural
<1>3. PICK T \in bad : \A V \in bad : left(T) <= left(V)
  BY <1>2
<1>4. T \in SUBSET U /\ rec[T] = (IF grow[T] = T THEN T ELSE rec[grow[T]])
  BY DEF GrowsInto
<1>5. grow[T] # T
  BY <1>3, <1>4, GrownIsLeast
<1>6. grow[T] \in SUBSET U /\ T \subseteq grow[T]
  BY <1>4 DEF Grows
<1>7. rec[grow[T]] # Grown(grow, U, grow[T])
  BY <1>3, <1>4, <1>5, GrownIsLeast
<1>8. left(T) <= left(grow[T])
  BY <1>3, <1>6, <1>7
<1>9. left(grow[T]) < left(T)
  <2>1. U \ grow[T] \in SUBSET (U \ T) /\ U \ grow[T] # U \ T
    BY <1>4, <1>5, <1>6
  <2>2. left(grow[T]) <= left(T) /\ left(grow[T]) # left(T)
    BY <2>1, <1>1, <1>4, FS_Subset
  <2>3. left(grow[T]) \in Nat /\ left(T) \in Nat
    BY <1>1, <1>4, <1>6
  <2> HIDE DEF left
  <2> QED
    BY <2>2, <2>3
<1>10. left(grow[T]) \in Nat /\ left(T) \in Nat
  BY <1>1, <1>4, <1>6
<1> HIDE DEF left
<1> QED
  BY <1>8, <1>9, <1>10
-----------------------------------------------------------------------------
(* Counting up step by step.                                               *)

StepsUp(f, k, a, step) == f = [n \in 0..k |-> IF n = 0 THEN a ELSE step[n][f[n - 1]]]

LEMMA StepsStay ==
    ASSUME NEW k \in Nat, NEW T, NEW a \in T, NEW step, \A n \in 1..k : step[n] \in [T -> T],
           NEW f, StepsUp(f, k, a, step)
    PROVE  f \in [0..k -> T]
<1> DEFINE S == {n \in 0..k : f[n] \in T}
<1>1. f = [n \in 0..k |-> IF n = 0 THEN a ELSE step[n][f[n - 1]]]
  BY DEF StepsUp
<1>2. f[0] = a /\ \A n \in 1..k : f[n] = step[n][f[n - 1]]
  <2>1. 0 \in 0..k /\ \A n \in 1..k : n \in 0..k /\ n # 0
    OBVIOUS
  <2> QED
    BY <1>1, <2>1
<1>3. 0 \in S
  BY <1>2
<1>4. \A n \in 0..k : n \in S /\ n < k => n + 1 \in S
  <2> SUFFICES ASSUME NEW n \in 0..k, n \in S, n < k
               PROVE  n + 1 \in S
    OBVIOUS
  <2>1. n + 1 \in 1..k /\ n + 1 \in 0..k /\ (n + 1) - 1 = n
    OBVIOUS
  <2>2. f[n + 1] = step[n + 1][f[n]] /\ step[n + 1] \in [T -> T] /\ f[n] \in T
    BY <1>2, <2>1
  <2> QED
    BY <2>1, <2>2
<1>5. 0..k \subseteq S
  <2> HIDE DEF S
  <2> QED
    BY <1>3, <1>4, CountingUp
<1>6. \A n \in 0..k : f[n] \in T
  BY <1>5
<1>7. f = [n \in 0..k |-> f[n]]
  BY <1>1
<1> QED
  BY <1>6, <1>7

LEMMA StepsAreDefined ==
    ASSUME NEW k \in Nat, NEW T, NEW a \in T, NEW step, \A n \in 1..k : step[n] \in [T -> T]
    PROVE  \E f : StepsUp(f, k, a, step)
<1> DEFINE S == {m \in 0..k : \E f : StepsUp(f, m, a, step)}
<1>1. 0 \in S
  <2>1. StepsUp([n \in 0..0 |-> a], 0, a, step)
    BY DEF StepsUp
  <2> QED
    BY <2>1
<1>2. \A m \in 0..k : m \in S /\ m < k => m + 1 \in S
  <2> SUFFICES ASSUME NEW m \in 0..k, m \in S, m < k
               PROVE  m + 1 \in S
    OBVIOUS
  <2>1. PICK f : StepsUp(f, m, a, step)
    OBVIOUS
  <2>2. f = [n \in 0..m |-> IF n = 0 THEN a ELSE step[n][f[n - 1]]]
    BY <2>1 DEF StepsUp
  <2> DEFINE body(g, n) == IF n = 0 THEN a ELSE step[n][g[n - 1]]
             g == [n \in 0..(m + 1) |-> IF n \in 0..m THEN f[n] ELSE step[n][f[n - 1]]]
  <2>3. /\ m + 1 \in 0..(m + 1) /\ m + 1 \notin 0..m /\ (m + 1) - 1 = m /\ m \in 0..m /\ m + 1 # 0
        /\ \A n \in 0..m : n \in 0..(m + 1) /\ (n # 0 => n - 1 \in 0..m)
        /\ \A n \in 0..(m + 1) : n \notin 0..m => n = m + 1
    OBVIOUS
  <2>4. \A n \in 0..m : g[n] = f[n]
    BY <2>3
  <2>5. g[m + 1] = step[m + 1][f[m]]
    BY <2>3
  <2>6. \A n \in 0..m : f[n] = IF n = 0 THEN a ELSE step[n][f[n - 1]]
    BY <2>2
  <2>7. DOMAIN g = 0..(m + 1) /\ g = [n \in 0..(m + 1) |-> g[n]]
    OBVIOUS
  <2> HIDE DEF g
  <2>8. \A n \in 0..(m + 1) : g[n] = IF n = 0 THEN a ELSE step[n][g[n - 1]]
    <3> SUFFICES ASSUME NEW n \in 0..(m + 1)
                 PROVE  g[n] = IF n = 0 THEN a ELSE step[n][g[n - 1]]
      OBVIOUS
    <3>1. CASE n \in 0..m
      BY <3>1, <2>3, <2>4, <2>6
    <3>2. CASE n \notin 0..m
      BY <3>2, <2>3, <2>4, <2>5
    <3> QED
      BY <3>1, <3>2
  <2>9. StepsUp(g, m + 1, a, step)
    BY <2>7, <2>8 DEF StepsUp
  <2> QED
    BY <2>9
<1>3. 0..k \subseteq S
  <2> HIDE DEF S
  <2> QED
    BY <1>1, <1>2, CountingUp
<1> QED
  BY <1>3

-----------------------------------------------------------------------------
(* Positions in order.                                                     *)

LEMMA InOrderEnumerates ==
    ASSUME NEW S, IsFiniteSet(S), S \subseteq Position
    PROVE  Enumerates(InOrder(S), S)
<1> DEFINE R == {pq \in Position \X Position : Before(pq[1], pq[2])}
<1>1. \A p, q \in S : <<p, q>> \in R <=> Before(p, q)
  OBVIOUS
<1>2. Orders(R, S)
  <2>1. \A p, q, r \in Position : /\ p # q => Before(p, q) \/ Before(q, p)
                                  /\ ~(Before(p, q) /\ Before(q, p))
                                  /\ Before(p, q) /\ Before(q, r) => Before(p, r)
    BY DEF Before, Position
  <2> QED
    BY <1>1, <2>1 DEF Orders
<1> DEFINE placed == {<<Cardinality({y \in S \ {x} : Before(y, x)}) + 1, x>> : x \in S}
<1>3. placed = Placed(R, S)
  <2>1. \A x \in S : {y \in S \ {x} : <<y, x>> \in R} = {y \in S \ {x} : Before(y, x)}
    <3> HIDE DEF R
    <3> QED
      BY <1>1
  <2> HIDE DEF R
  <2> QED
    BY <2>1 DEF Placed
<1>4. InOrder(S) = Listed(placed, Cardinality(S))
  BY DEF InOrder, Sorted, Listed
<1> HIDE DEF placed, R
<1> QED
  BY <1>2, <1>3, <1>4, SortedEnumerates
-----------------------------------------------------------------------------
(* The first search: what a visit has done that began in state s and ended *)
(* in state t.                                                             *)

New(s, t) == (Len(s.order) + 1)..Len(t.order)

\* What leads back to a node that was finished later was finished between.
Nested(next, order, new) ==
    \A i, j \in new : i < j /\ order[j] \in next[order[i]] =>
        \A k \in i..j : order[k] \in LeadsTo(next, order[j])

Visited(next, from, s, t) ==
    /\ Len(s.order) <= Len(t.order)
    /\ \A i \in 1..Len(s.order) : t.order[i] = s.order[i]
    /\ t.seen = s.seen \cup {t.order[i] : i \in New(s, t)}
    /\ \A i \in New(s, t) : t.order[i] \notin s.seen
    /\ \A i, j \in New(s, t) : t.order[i] = t.order[j] => i = j
    /\ from \subseteq t.seen
    /\ \A i \in New(s, t) : next[t.order[i]] \subseteq t.seen
    /\ \A i \in New(s, t) : \E p \in from : t.order[i] \in LeadsTo(next, p)
    /\ Nested(next, t.order, New(s, t))

LEMMA StatesAre ==
    ASSUME NEW nodes, NEW s \in VisitStates(nodes)
    PROVE  /\ s.seen \subseteq nodes /\ s.order \in Seq(nodes) /\ Len(s.order) \in Nat
           /\ DOMAIN s.order = 1..Len(s.order) /\ \A i \in 1..Len(s.order) : s.order[i] \in nodes
BY DEF VisitStates

LEMMA NothingVisited ==
    ASSUME NEW nodes, NEW next, IsGraph(next, nodes), NEW s \in VisitStates(nodes), NEW from, from \subseteq s.seen
    PROVE  Visited(next, from, s, s)
<1>1. Len(s.order) \in Nat
  BY StatesAre
<1>2. New(s, s) = {}
  BY <1>1 DEF New
<1> QED
  BY <1>1, <1>2 DEF Visited, Nested

\* One search after another.
LEMMA VisitedOn ==
    ASSUME NEW nodes, NEW next, IsGraph(next, nodes),
           NEW s \in VisitStates(nodes), NEW t \in VisitStates(nodes), NEW u \in VisitStates(nodes),
           NEW A, NEW B, Visited(next, A, s, t), Visited(next, B, t, u)
    PROVE  Visited(next, A \cup B, s, u)
<1>1. /\ Len(s.order) \in Nat /\ Len(t.order) \in Nat /\ Len(u.order) \in Nat
      /\ Len(s.order) <= Len(t.order) /\ Len(t.order) <= Len(u.order)
  BY StatesAre DEF Visited
<1>2. /\ New(s, u) = New(s, t) \cup New(t, u)
      /\ \A i \in New(s, t) : i \in 1..Len(t.order)
      /\ 1..Len(s.order) \subseteq 1..Len(t.order)
  BY <1>1 DEF New
<1>3. /\ \A i \in 1..Len(t.order) : u.order[i] = t.order[i]
      /\ \A i \in 1..Len(s.order) : t.order[i] = s.order[i]
  BY DEF Visited
<1>4. \A i \in New(s, t) : u.order[i] = t.order[i]
  BY <1>2, <1>3
<1>5. /\ t.seen = s.seen \cup {t.order[i] : i \in New(s, t)}
      /\ u.seen = t.seen \cup {u.order[i] : i \in New(t, u)}
      /\ \A i \in New(s, t) : t.order[i] \notin s.seen
      /\ \A i \in New(t, u) : u.order[i] \notin t.seen
      /\ \A i, j \in New(s, t) : t.order[i] = t.order[j] => i = j
      /\ \A i, j \in New(t, u) : u.order[i] = u.order[j] => i = j
      /\ \A i \in New(s, t) : next[t.order[i]] \subseteq t.seen
      /\ \A i \in New(t, u) : next[u.order[i]] \subseteq u.seen
      /\ A \subseteq t.seen /\ B \subseteq u.seen
  BY DEF Visited
<1>6. u.seen = s.seen \cup {u.order[i] : i \in New(s, u)}
  BY <1>2, <1>4, <1>5
<1>7. \A i \in New(s, u) : u.order[i] \notin s.seen
  BY <1>2, <1>4, <1>5
<1>8. \A i \in New(s, t) : t.order[i] \in t.seen
  BY <1>5
<1>9. \A i, j \in New(s, u) : u.order[i] = u.order[j] => i = j
  BY <1>2, <1>4, <1>5, <1>8
<1>10. \A i \in New(s, u) : next[u.order[i]] \subseteq u.seen
  BY <1>2, <1>4, <1>5
<1>11. \A i \in New(s, u) : \E p \in A \cup B : u.order[i] \in LeadsTo(next, p)
  <2>1. /\ \A i \in New(s, t) : \E p \in A : t.order[i] \in LeadsTo(next, p)
        /\ \A i \in New(t, u) : \E p \in B : u.order[i] \in LeadsTo(next, p)
    BY DEF Visited
  <2> QED
    BY <2>1, <1>2, <1>4
<1>12. Nested(next, u.order, New(s, u))
  <2> SUFFICES ASSUME NEW i \in New(s, u), NEW j \in New(s, u), i < j, u.order[j] \in next[u.order[i]],
                      NEW k \in i..j
               PROVE  u.order[k] \in LeadsTo(next, u.order[j])
    BY DEF Nested
  <2>1. /\ i \in New(t, u) => j \in New(t, u) /\ k \in New(t, u)
        /\ j \in New(s, t) => k \in New(s, t) /\ i \in New(s, t)
    BY <1>1 DEF New
  <2>2. CASE i \in New(t, u)
    <3>1. Nested(next, u.order, New(t, u))
      BY DEF Visited
    <3> QED
      BY <3>1, <2>1, <2>2 DEF Nested
  <2>3. CASE i \in New(s, t) /\ j \in New(t, u)
    <3>1. u.order[j] \in t.seen
      BY <2>3, <1>4, <1>5
    <3> QED
      BY <3>1, <2>3, <1>5
  <2>4. CASE j \in New(s, t)
    <3>1. Nested(next, t.order, New(s, t))
      BY DEF Visited
    <3>2. /\ i \in New(s, t) /\ k \in New(s, t)
          /\ u.order[i] = t.order[i] /\ u.order[j] = t.order[j] /\ u.order[k] = t.order[k]
      BY <2>1, <2>4, <1>4
    <3>3. t.order[k] \in LeadsTo(next, t.order[j])
      BY <3>1, <3>2, <2>4 DEF Nested
    <3> QED
      BY <3>2, <3>3
  <2> QED
    BY <2>2, <2>3, <2>4, <1>2
<1>13. A \cup B \subseteq u.seen
  BY <1>5
<1>14. Len(s.order) <= Len(u.order) /\ \A i \in 1..Len(s.order) : u.order[i] = s.order[i]
  BY <1>1, <1>2, <1>3
<1> QED
  BY <1>6, <1>7, <1>9, <1>10, <1>11, <1>12, <1>13, <1>14 DEF Visited

Marked(s, node) == [s EXCEPT !.seen = @ \cup {node}]

\* A node is finished when what it leads to has been visited.
LEMMA NodeVisited ==
    ASSUME NEW nodes, NEW next, IsGraph(next, nodes), NEW node \in nodes,
           NEW s \in VisitStates(nodes), NEW t \in VisitStates(nodes), node \notin s.seen,
           Visited(next, next[node], Marked(s, node), t)
    PROVE  Finish(node, t) \in VisitStates(nodes) /\ Visited(next, {node}, s, Finish(node, t))
<1> DEFINE m == Marked(s, node)
           u == Finish(node, t)
           last == Len(t.order) + 1
<1>1. m \in VisitStates(nodes) /\ m.seen = s.seen \cup {node} /\ m.order = s.order
  BY DEF Marked, VisitStates
<1>2. u \in VisitStates(nodes) /\ u.seen = t.seen /\ u.order = Append(t.order, node)
  <2>1. Append(t.order, node) \in Seq(nodes) /\ t.seen \in SUBSET nodes
    BY StatesAre
  <2>2. t = [seen |-> t.seen, order |-> t.order]
    BY DEF VisitStates
  <2>3. u = [seen |-> t.seen, order |-> Append(t.order, node)]
    BY <2>2 DEF Finish
  <2> QED
    BY <2>1, <2>3 DEF VisitStates
<1>3. Visited(next, next[node], m, t)
  OBVIOUS
<1> HIDE DEF m, u
<1>4. /\ Len(s.order) \in Nat /\ Len(t.order) \in Nat /\ Len(u.order) = last
      /\ Len(s.order) <= Len(t.order)
      /\ u.order[last] = node /\ \A i \in 1..Len(t.order) : u.order[i] = t.order[i]
  <2>1. Len(s.order) \in Nat /\ Len(t.order) \in Nat /\ t.order \in Seq(nodes)
    BY StatesAre
  <2>2. Len(s.order) <= Len(t.order)
    BY <1>1, <1>3 DEF Visited
  <2> QED
    BY <1>2, <2>1, <2>2
<1>5. New(m, t) = New(s, t) /\ New(s, u) = New(s, t) \cup {last}
      /\ (\A i \in New(s, t) : i \in 1..Len(t.order) /\ i < last) /\ 1..Len(s.order) \subseteq 1..Len(t.order)
  BY <1>1, <1>4 DEF New
<1>6. \A i \in New(s, t) : u.order[i] = t.order[i]
  BY <1>4, <1>5
<1>7. /\ \A i \in 1..Len(s.order) : t.order[i] = s.order[i]
      /\ t.seen = s.seen \cup {node} \cup {t.order[i] : i \in New(s, t)}
      /\ \A i \in New(s, t) : t.order[i] \notin s.seen /\ t.order[i] # node
      /\ \A i, j \in New(s, t) : t.order[i] = t.order[j] => i = j
      /\ next[node] \subseteq t.seen
      /\ \A i \in New(s, t) : next[t.order[i]] \subseteq t.seen
      /\ \A i \in New(s, t) : \E p \in next[node] : t.order[i] \in LeadsTo(next, p)
      /\ Nested(next, t.order, New(s, t))
  BY <1>1, <1>3, <1>5 DEF Visited
<1>8. \A i \in New(s, u) : u.order[i] \in LeadsTo(next, node)
  <2>1. node \in LeadsTo(next, node) /\ next[node] \subseteq LeadsTo(next, node)
    BY LeadingToIsLeast DEF Closed
  <2>2. \A p \in next[node] : LeadsTo(next, p) \subseteq LeadsTo(next, node)
    BY <2>1, LeadingOn
  <2> QED
    BY <2>1, <2>2, <1>4, <1>5, <1>6, <1>7
<1>9. u.seen = s.seen \cup {u.order[i] : i \in New(s, u)}
  BY <1>2, <1>4, <1>5, <1>6, <1>7
<1>10. \A i \in New(s, u) : u.order[i] \notin s.seen
  BY <1>4, <1>5, <1>6, <1>7
<1>11. \A i, j \in New(s, u) : u.order[i] = u.order[j] => i = j
  BY <1>4, <1>5, <1>6, <1>7
<1>12. \A i \in New(s, u) : next[u.order[i]] \subseteq u.seen
  BY <1>2, <1>4, <1>5, <1>6, <1>7
<1>13. Nested(next, u.order, New(s, u))
  <2> SUFFICES ASSUME NEW i \in New(s, u), NEW j \in New(s, u), i < j, u.order[j] \in next[u.order[i]],
                      NEW k \in i..j
               PROVE  u.order[k] \in LeadsTo(next, u.order[j])
    BY DEF Nested
  <2>1. k \in New(s, u) /\ (j # last => i \in New(s, t) /\ j \in New(s, t) /\ k \in New(s, t))
    <3>1. i \in (Len(s.order) + 1)..last /\ j \in (Len(s.order) + 1)..last
      BY <1>4 DEF New
    <3> QED
      BY <3>1, <1>4 DEF New
  <2>2. CASE j = last
    BY <2>1, <2>2, <1>4, <1>8
  <2>3. CASE j # last
    <3>1. u.order[i] = t.order[i] /\ u.order[j] = t.order[j] /\ u.order[k] = t.order[k]
      BY <2>1, <2>3, <1>6
    <3>2. t.order[k] \in LeadsTo(next, t.order[j])
      BY <3>1, <2>1, <2>3, <1>7 DEF Nested
    <3> QED
      BY <3>1, <3>2
  <2> QED
    BY <2>2, <2>3
<1>14. Len(s.order) <= Len(u.order) /\ \A i \in 1..Len(s.order) : u.order[i] = s.order[i]
  BY <1>4, <1>5, <1>7
<1>15. {node} \subseteq u.seen
  BY <1>2, <1>7
<1>16. Visited(next, {node}, s, u)
  BY <1>8, <1>9, <1>10, <1>11, <1>12, <1>13, <1>14, <1>15 DEF Visited
<1> QED
  BY <1>2, <1>16 DEF u
\* A visit of the graph that is right wherever base was seen.
Visits(visit, next, nodes, base) ==
    \A p \in nodes, s \in VisitStates(nodes) : base \subseteq s.seen => Visited(next, {p}, s, visit[p][s])

Visitors(nodes) == [nodes -> [VisitStates(nodes) -> VisitStates(nodes)]]

\* The states after each of from.
Passes(nodes, from, visit, s, k, order, after) ==
    /\ k \in Nat /\ DOMAIN order = 1..k /\ On(order) = from
    /\ after \in [0..k -> VisitStates(nodes)]
    /\ after[0] = s /\ \A n \in 1..k : after[n] = visit[order[n]][after[n - 1]]
    /\ VisitEach(visit, from, s) = after[k]

\* Visiting in order is going on from state to state.
LEMMA EachIsDefined ==
    ASSUME NEW nodes, IsFiniteSet(nodes), nodes \subseteq Position,
           NEW from \in SUBSET nodes, NEW visit \in Visitors(nodes), NEW s \in VisitStates(nodes)
    PROVE  \E k, order, after : Passes(nodes, from, visit, s, k, order, after)
<1> DEFINE states == VisitStates(nodes)
           order == InOrder(from)
           k == Len(order)
           step == [n \in 1..k |-> [x \in states |-> visit[order[n]][x]]]
           body(f) == [n \in 0..k |-> IF n = 0 THEN s ELSE visit[order[n]][f[n - 1]]]
           after == CHOOSE f : f = body(f)
<1>1. Enumerates(order, from)
  <2>1. IsFiniteSet(from) /\ from \subseteq Position
    BY FS_Subset
  <2> HIDE DEF order
  <2> QED
    BY <2>1, InOrderEnumerates DEF order
<1>2. VisitEach(visit, from, s) = after[k]
  BY DEF VisitEach
<1> HIDE DEF order, after
<1>3. k \in Nat /\ order \in Seq(from) /\ DOMAIN order = 1..k /\ On(order) = from
      /\ \A n \in 1..k : order[n] \in from
  BY <1>1 DEF Enumerates
<1> HIDE DEF k, states
<1>4. \A n \in 1..k : \A x \in states : step[n][x] = visit[order[n]][x] /\ step[n][x] \in states
  BY <1>3 DEF states, Visitors
<1>5. \A n \in 1..k : step[n] \in [states -> states]
  BY <1>3 DEF states, Visitors
<1>6. \A n \in 0..k : n # 0 => n \in 1..k /\ n - 1 \in 0..k
  BY <1>3
<1> HIDE DEF step
<1>7. s \in states
  BY DEF states
<1>8. after = body(after)
  <2>1. PICK f : StepsUp(f, k, s, step)
    BY <1>3, <1>5, <1>7, StepsAreDefined
  <2>2. f \in [0..k -> states]
    BY <2>1, <1>3, <1>5, <1>7, StepsStay
  <2>3. \A n \in 0..k : n # 0 => step[n][f[n - 1]] = visit[order[n]][f[n - 1]]
    BY <2>2, <1>4, <1>6
  <2>4. f = body(f)
    BY <2>1, <2>3 DEF StepsUp
  <2> QED
    BY <2>4 DEF after
<1>9. after \in [0..k -> states] /\ after[0] = s /\ \A n \in 1..k : after[n] = visit[order[n]][after[n - 1]]
  <2>1. after[0] = s /\ \A n \in 1..k : after[n] = visit[order[n]][after[n - 1]]
    <3>1. 0 \in 0..k /\ \A n \in 1..k : n \in 0..k /\ n # 0
      BY <1>3
    <3> QED
      BY <3>1, <1>8
  <2> DEFINE S == {n \in 0..k : after[n] \in states}
  <2>2. 0 \in S /\ \A n \in 0..k : n \in S /\ n < k => n + 1 \in S
    <3>1. 0 \in S
      BY <2>1, <1>3, <1>7
    <3>2. ASSUME NEW n \in 0..k, n \in S, n < k
          PROVE  n + 1 \in S
      <4>1. n + 1 \in 1..k /\ n + 1 \in 0..k /\ (n + 1) - 1 = n
        BY <3>2, <1>3
      <4>2. after[n + 1] = step[n + 1][after[n]]
        BY <4>1, <3>2, <2>1, <1>4
      <4> QED
        BY <4>1, <4>2, <3>2, <1>4
    <3> QED
      BY <3>1, <3>2
  <2>3. 0..k \subseteq S
    <3> HIDE DEF S
    <3> QED
      BY <2>2, <1>3, CountingUp
  <2>4. \A n \in 0..k : after[n] \in states
    BY <2>3
  <2>5. after = [n \in 0..k |-> after[n]]
    BY <1>8
  <2> QED
    BY <2>1, <2>4, <2>5
<1>10. Passes(nodes, from, visit, s, k, order, after)
  BY <1>2, <1>3, <1>9 DEF Passes, states
<1> QED
  BY <1>10

LEMMA EachIsTyped ==
    ASSUME NEW nodes, IsFiniteSet(nodes), nodes \subseteq Position,
           NEW from \in SUBSET nodes, NEW visit \in Visitors(nodes), NEW s \in VisitStates(nodes)
    PROVE  VisitEach(visit, from, s) \in VisitStates(nodes)
<1>1. PICK k, order, after : Passes(nodes, from, visit, s, k, order, after)
  BY EachIsDefined
<1>2. k \in 0..k
  BY <1>1 DEF Passes
<1> QED
  BY <1>1, <1>2 DEF Passes

LEMMA EachVisited ==
    ASSUME NEW nodes, IsFiniteSet(nodes), nodes \subseteq Position, NEW next, IsGraph(next, nodes),
           NEW from \in SUBSET nodes, NEW visit \in Visitors(nodes),
           NEW base, Visits(visit, next, nodes, base),
           NEW s \in VisitStates(nodes), base \subseteq s.seen
    PROVE  Visited(next, from, s, VisitEach(visit, from, s))
<1> DEFINE states == VisitStates(nodes)
<1>0. PICK k, order, after : Passes(nodes, from, visit, s, k, order, after)
  BY EachIsDefined
<1>1. /\ k \in Nat /\ DOMAIN order = 1..k /\ On(order) = from /\ after \in [0..k -> states]
      /\ after[0] = s /\ \A n \in 1..k : after[n] = visit[order[n]][after[n - 1]]
      /\ VisitEach(visit, from, s) = after[k]
  BY <1>0 DEF Passes
<1>2. \A n \in 1..k : order[n] \in from
  BY <1>1 DEF On
<1>3. s \in states
  OBVIOUS
<1> HIDE DEF states
<1> DEFINE passed(n) == {order[i] : i \in 1..n}
           S == {n \in 0..k : Visited(next, passed(n), s, after[n])}
<1>4. 0 \in S
  <2>1. passed(0) = {}
    OBVIOUS
  <2> QED
    BY <2>1, <1>1, <1>3, NothingVisited DEF states
<1>5. \A n \in 0..k : n \in S /\ n < k => n + 1 \in S
  <2> SUFFICES ASSUME NEW n \in 0..k, n \in S, n < k
               PROVE  n + 1 \in S
    OBVIOUS
  <2>1. n + 1 \in 1..k /\ n + 1 \in 0..k /\ (n + 1) - 1 = n /\ 1..(n + 1) = (1..n) \cup {n + 1}
    BY <1>1
  <2>2. passed(n + 1) = passed(n) \cup {order[n + 1]} /\ order[n + 1] \in nodes
    BY <2>1, <1>2
  <2>3. after[n + 1] = visit[order[n + 1]][after[n]] /\ after[n] \in states /\ after[n + 1] \in states
    BY <2>1, <1>1
  <2>4. Visited(next, passed(n), s, after[n])
    OBVIOUS
  <2> HIDE DEF passed
  <2>5. base \subseteq after[n].seen
    <3>1. s.seen \subseteq after[n].seen
      BY <2>4 DEF Visited
    <3> QED
      BY <3>1
  <2>6. Visited(next, {order[n + 1]}, after[n], after[n + 1])
    BY <2>2, <2>3, <2>5 DEF Visits, states
  <2>7. Visited(next, passed(n + 1), s, after[n + 1])
    BY <2>2, <2>3, <2>4, <2>6, <1>3, VisitedOn DEF states
  <2> QED
    BY <2>1, <2>7
<1>6. 0..k \subseteq S
  <2> HIDE DEF S
  <2> QED
    BY <1>1, <1>4, <1>5, CountingUp
<1>7. k \in 0..k /\ passed(k) = from
  BY <1>1 DEF On
<1> HIDE DEF passed
<1>8. Visited(next, from, s, after[k])
  BY <1>6, <1>7
<1> QED
  BY <1>1, <1>8

\* A visit knows only what it has seen: deeper than there are nodes it never
\* goes.
LEMMA VisitOrderVisits ==
    ASSUME NEW nodes, IsFiniteSet(nodes), nodes \subseteq Position, NEW next, IsGraph(next, nodes)
    PROVE  VisitOrder(next, nodes) \in Visitors(nodes) /\ Visits(VisitOrder(next, nodes), next, nodes, {})
<1> DEFINE states == VisitStates(nodes)
           size == Cardinality(nodes)
           goOn(v, p, s) == Finish(p, VisitEach(v, next[p], Marked(s, p)))
           body(f) == [depth \in 0..size |->
                         [p \in nodes |-> [s \in states |->
                            IF depth = 0 \/ p \in s.seen THEN s ELSE goOn(f[depth - 1], p, s)]]]
           visit == CHOOSE f : f = body(f)
           stay == [p \in nodes |-> [s \in states |-> s]]
           onward(v) == [p \in nodes |-> [s \in states |-> IF p \in s.seen THEN s ELSE goOn(v, p, s)]]
           step == [n \in 1..size |-> [v \in Visitors(nodes) |-> onward(v)]]
<1>1. VisitOrder(next, nodes) = visit[size]
  BY DEF VisitOrder, Marked
<1>2. size \in Nat
  BY FS_CardinalityType
<1> HIDE DEF visit, size
<1>3. \A p \in nodes, s \in states : Marked(s, p) \in states /\ Marked(s, p).seen = s.seen \cup {p}
  BY DEF Marked, VisitStates
<1>4. \A p \in nodes, s \in states : Finish(p, s) \in states
  <2> SUFFICES ASSUME NEW p \in nodes, NEW s \in states
               PROVE  Finish(p, s) \in states
    OBVIOUS
  <2>1. Append(s.order, p) \in Seq(nodes) /\ s.seen \in SUBSET nodes
    BY StatesAre
  <2>2. s = [seen |-> s.seen, order |-> s.order]
    BY DEF VisitStates
  <2>3. Finish(p, s) = [seen |-> s.seen, order |-> Append(s.order, p)]
    BY <2>2 DEF Finish
  <2> QED
    BY <2>1, <2>3 DEF VisitStates
<1>5. \A p \in nodes : next[p] \in SUBSET nodes
  BY DEF IsGraph
<1> HIDE DEF states
<1>6. \A v \in Visitors(nodes), p \in nodes, s \in states : goOn(v, p, s) \in states
  BY <1>3, <1>4, <1>5, EachIsTyped DEF states
<1> HIDE DEF goOn
<1>7. \A v \in Visitors(nodes) : onward(v) \in Visitors(nodes)
  BY <1>6 DEF Visitors, states
<1>8. stay \in Visitors(nodes)
  BY DEF Visitors, states
<1>9. \A n \in 1..size : step[n] \in [Visitors(nodes) -> Visitors(nodes)]
  BY <1>7
<1>10. \A f : body(f) = [n \in 0..size |-> IF n = 0 THEN stay ELSE onward(f[n - 1])]
  OBVIOUS
<1>11. \A n \in 1..size : \A v \in Visitors(nodes) : step[n][v] = onward(v)
  OBVIOUS
<1>12. \A n \in 0..size : n # 0 => n \in 1..size /\ n - 1 \in 0..size
  BY <1>2
<1> HIDE DEF step, stay, onward
<1>13. visit = body(visit)
  <2>1. PICK f : StepsUp(f, size, stay, step)
    BY <1>2, <1>8, <1>9, StepsAreDefined
  <2>2. f \in [0..size -> Visitors(nodes)]
    BY <2>1, <1>2, <1>8, <1>9, StepsStay
  <2>3. \A n \in 0..size : n # 0 => step[n][f[n - 1]] = onward(f[n - 1])
    BY <2>2, <1>11, <1>12
  <2>4. f = [n \in 0..size |-> IF n = 0 THEN stay ELSE onward(f[n - 1])]
    BY <2>1, <2>3 DEF StepsUp
  <2>5. f = body(f)
    BY <2>4, <1>10
  <2> QED
    BY <2>5 DEF visit
<1>14. \A n \in 0..size : visit[n] = IF n = 0 THEN stay ELSE onward(visit[n - 1])
  <2> HIDE DEF body
  <2>1. visit = [n \in 0..size |-> IF n = 0 THEN stay ELSE onward(visit[n - 1])]
    BY <1>10, <1>13
  <2> QED
    BY <2>1
<1> HIDE DEF body
<1> DEFINE few(n) == {s \in states : Cardinality(nodes \ s.seen) <= n}
           right(n) == \A p \in nodes, s \in few(n) : Visited(next, {p}, s, visit[n][p][s])
           S == {n \in 0..size : visit[n] \in Visitors(nodes) /\ right(n)}
<1>15. \A s \in states : /\ IsFiniteSet(nodes \ s.seen) /\ Cardinality(nodes \ s.seen) \in Nat
                         /\ Cardinality(nodes \ s.seen) <= size
  <2> TAKE s \in states
  <2>1. nodes \ s.seen \in SUBSET nodes
    OBVIOUS
  <2> QED
    BY <2>1, FS_Subset, FS_CardinalityType DEF size
<1>16. 0 \in S
  <2>1. 0 \in 0..size /\ visit[0] = stay
    BY <1>2, <1>14
  <2>2. ASSUME NEW p \in nodes, NEW s \in few(0)
        PROVE  Visited(next, {p}, s, visit[0][p][s])
    <3>1. Cardinality(nodes \ s.seen) = 0
      BY <2>2, <1>15
    <3>2. nodes \ s.seen = {}
      BY <3>1, <1>15, FS_EmptySet
    <3>3. visit[0][p][s] = s
      BY <2>1 DEF stay
    <3> QED
      BY <3>2, <3>3, NothingVisited DEF states
  <2> QED
    BY <2>1, <2>2, <1>8
<1>17. \A n \in 0..size : n \in S /\ n < size => n + 1 \in S
  <2> SUFFICES ASSUME NEW n \in 0..size, n \in S, n < size
               PROVE  n + 1 \in S
    OBVIOUS
  <2>1. n + 1 \in 0..size /\ (n + 1) - 1 = n /\ n + 1 # 0 /\ n \in Nat
    BY <1>2
  <2>2. visit[n + 1] = onward(visit[n])
    BY <2>1, <1>14
  <2>3. visit[n] \in Visitors(nodes) /\ right(n)
    OBVIOUS
  <2>4. ASSUME NEW p \in nodes, NEW s \in few(n + 1)
        PROVE  Visited(next, {p}, s, visit[n + 1][p][s])
    <3>1. s \in states /\ Cardinality(nodes \ s.seen) <= n + 1
      OBVIOUS
    <3>2. visit[n + 1][p][s] = IF p \in s.seen THEN s ELSE goOn(visit[n], p, s)
      BY <2>2, <3>1 DEF onward
    <3>3. CASE p \in s.seen
      BY <3>1, <3>2, <3>3, NothingVisited DEF states
    <3>4. CASE p \notin s.seen
      <4> DEFINE m == Marked(s, p)
                 t == VisitEach(visit[n], next[p], m)
      <4>1. m \in states /\ m.seen = s.seen \cup {p}
        BY <3>1, <1>3
      <4>2. Visits(visit[n], next, nodes, m.seen)
        <5> SUFFICES ASSUME NEW q \in nodes, NEW r \in states, m.seen \subseteq r.seen
                     PROVE  Visited(next, {q}, r, visit[n][q][r])
          BY DEF Visits, states
        <5>1. nodes \ r.seen \in SUBSET ((nodes \ s.seen) \ {p})
          BY <4>1
        <5>2. p \in nodes \ s.seen
          BY <3>4
        <5>3. IsFiniteSet((nodes \ s.seen) \ {p})
              /\ Cardinality((nodes \ s.seen) \ {p}) = Cardinality(nodes \ s.seen) - 1
          BY <5>2, <3>1, <1>15, FS_RemoveElement
        <5>4. Cardinality(nodes \ r.seen) <= Cardinality((nodes \ s.seen) \ {p})
          BY <5>1, <5>3, FS_Subset
        <5>5. Cardinality(nodes \ r.seen) <= n
          <6>1. Cardinality(nodes \ r.seen) \in Nat /\ Cardinality(nodes \ s.seen) \in Nat
            BY <3>1, <1>15
          <6> QED
            BY <6>1, <5>3, <5>4, <3>1, <2>1
        <5> QED
          BY <5>5, <2>3
      <4>3. t \in states /\ Visited(next, next[p], m, t)
        BY <4>1, <4>2, <2>3, <1>5, EachIsTyped, EachVisited DEF states
      <4>4. visit[n + 1][p][s] = Finish(p, t)
        BY <3>2, <3>4 DEF goOn
      <4> HIDE DEF t
      <4> QED
        BY <4>3, <4>4, <3>1, <3>4, NodeVisited DEF states
    <3> QED
      BY <3>3, <3>4
  <2>5. visit[n + 1] \in Visitors(nodes)
    BY <2>2, <2>3, <1>7
  <2> QED
    BY <2>1, <2>4, <2>5
<1>18. 0..size \subseteq S
  <2> HIDE DEF S
  <2> QED
    BY <1>2, <1>16, <1>17, CountingUp
<1>19. size \in 0..size
  BY <1>2
<1>20. visit[size] \in Visitors(nodes) /\ right(size)
  BY <1>18, <1>19
<1>21. Visits(visit[size], next, nodes, {})
  BY <1>20, <1>15 DEF Visits, states
<1> QED
  BY <1>1, <1>20, <1>21

\* An order of all nodes, each after what it leads to but for what leads back.
Finishes(order, next, nodes) ==
    Enumerates(order, nodes) /\ Nested(next, order, 1..Len(order))

LEMMA FinishOrderFinishes ==
    ASSUME NEW nodes, IsFiniteSet(nodes), nodes \subseteq Position, NEW next, IsGraph(next, nodes)
    PROVE  Finishes(FinishOrder(next, nodes), next, nodes)
<1> DEFINE s == [seen |-> {}, order |-> <<>>]
           t == VisitEach(VisitOrder(next, nodes), nodes, s)
<1>1. s \in VisitStates(nodes) /\ s.seen = {} /\ Len(s.order) = 0
  BY DEF VisitStates
<1>2. nodes \in SUBSET nodes
  OBVIOUS
<1> HIDE DEF s
<1>3. t \in VisitStates(nodes) /\ Visited(next, nodes, s, t)
  BY <1>1, <1>2, VisitOrderVisits, EachIsTyped, EachVisited
<1>4. FinishOrder(next, nodes) = t.order
  BY DEF FinishOrder, s
<1> HIDE DEF t
<1>5. /\ t.order \in Seq(nodes) /\ DOMAIN t.order = 1..Len(t.order) /\ Len(t.order) \in Nat
      /\ t.seen \subseteq nodes
  BY <1>3, StatesAre
<1>6. New(s, t) = 1..Len(t.order)
  BY <1>1, <1>5 DEF New
<1>7. /\ t.seen = {t.order[i] : i \in 1..Len(t.order)}
      /\ \A i, j \in 1..Len(t.order) : t.order[i] = t.order[j] => i = j
      /\ nodes \subseteq t.seen /\ Nested(next, t.order, 1..Len(t.order))
  BY <1>1, <1>3, <1>6 DEF Visited
<1>8. Enumerates(t.order, nodes)
  BY <1>5, <1>7 DEF Enumerates, On, Distinct
<1> QED
  BY <1>4, <1>7, <1>8 DEF Finishes

-----------------------------------------------------------------------------
(* The second search.                                                      *)

Mutual(next, p) == {q \in LeadsTo(next, p) : p \in LeadsTo(next, q)}

IsReverse(before, next, nodes) ==
    before \in [nodes -> SUBSET nodes] /\ \A p, q \in nodes : q \in before[p] <=> p \in next[q]

More(before, unseen) == [S \in SUBSET unseen |-> S \cup ((UNION {before[p] : p \in S}) \cap unseen)]

LEMMA CollectIsGrown ==
    ASSUME NEW before, NEW unseen, IsFiniteSet(unseen), NEW node \in unseen
    PROVE  /\ Grows(More(before, unseen), unseen)
           /\ CollectComponent(before, unseen, node) = Grown(More(before, unseen), unseen, {node})
<1> DEFINE grow == More(before, unseen)
           body(f) == [S \in SUBSET unseen |->
                         LET more == S \cup ((UNION {before[p] : p \in S}) \cap unseen)
                         IN  IF more = S THEN S ELSE f[more]]
           collect == CHOOSE f : f = body(f)
<1>1. CollectComponent(before, unseen, node) = collect[{node}]
  BY DEF CollectComponent
<1>2. Grows(grow, unseen)
  BY DEF More, Grows
<1>3. \A f : body(f) = [S \in SUBSET unseen |-> IF grow[S] = S THEN S ELSE f[grow[S]]]
  BY DEF More
<1> HIDE DEF grow, body
<1>4. collect = body(collect)
  <2>1. PICK f : GrowsInto(f, grow, unseen)
    BY <1>2, GrowingIsDefined
  <2>2. f = body(f)
    BY <2>1, <1>3 DEF GrowsInto
  <2> QED
    BY <2>2
<1> HIDE DEF collect
<1>5. GrowsInto(collect, grow, unseen)
  BY <1>3, <1>4 DEF GrowsInto
<1>6. {node} \in SUBSET unseen
  OBVIOUS
<1>7. collect[{node}] = Grown(grow, unseen, {node})
  BY <1>2, <1>5, <1>6, GrowingEnds
<1> QED
  BY <1>1, <1>2, <1>7 DEF grow

\* Where what is unseen leads to nothing that was seen, what is collected is
\* what leads to the node.
LEMMA CollectedLeadHere ==
    ASSUME NEW nodes, IsFiniteSet(nodes), NEW next, IsGraph(next, nodes),
           NEW before, IsReverse(before, next, nodes),
           NEW unseen \in SUBSET nodes, Closed(next, unseen), NEW node \in unseen
    PROVE  CollectComponent(before, unseen, node) = {p \in unseen : node \in LeadsTo(next, p)}
<1> DEFINE grow == More(before, unseen)
           G == Grown(grow, unseen, {node})
           C == {p \in unseen : node \in LeadsTo(next, p)}
<1>1. IsFiniteSet(unseen)
  BY FS_Subset
<1>2. Grows(grow, unseen) /\ CollectComponent(before, unseen, node) = G
  BY <1>1, CollectIsGrown
<1>3. /\ G \in SUBSET unseen /\ {node} \subseteq G /\ grow[G] = G
      /\ \A T \in SUBSET unseen : {node} \subseteq T /\ grow[T] = T => G \subseteq T
  <2>1. {node} \in SUBSET unseen
    OBVIOUS
  <2> QED
    BY <1>2, <2>1, GrownIsLeast
<1>4. \A T \in SUBSET unseen : grow[T] = T <=> \A p \in T : before[p] \cap unseen \subseteq T
  BY DEF More
<1> HIDE DEF G, grow
<1>5. \A p \in nodes : \A q \in before[p] : q \in nodes /\ p \in next[q]
  BY DEF IsReverse
<1>6. \A q \in nodes : \A p \in next[q] : p \in nodes /\ q \in before[p]
  BY DEF IsReverse, IsGraph
<1>7. G \subseteq C
  <2>1. node \in C
    BY LeadingToIsLeast
  <2>2. ASSUME NEW p \in C, NEW q \in before[p] \cap unseen
        PROVE  q \in C
    <3>1. p \in next[q] /\ q \in nodes
      BY <2>2, <1>5
    <3>2. p \in LeadsTo(next, q)
      BY <3>1, LeadingToIsLeast DEF Closed
    <3>3. node \in LeadsTo(next, q)
      BY <3>1, <3>2, LeadingOn
    <3> QED
      BY <3>3
  <2>3. grow[C] = C
    BY <2>2, <1>4
  <2> QED
    BY <2>1, <2>3, <1>3
<1>8. C \subseteq G
  <2> SUFFICES ASSUME NEW p \in unseen, node \in LeadsTo(next, p), p \notin G
               PROVE  FALSE
    OBVIOUS
  <2>1. Closed(next, unseen \ G)
    <3> SUFFICES ASSUME NEW q \in unseen \ G, NEW r \in next[q]
                 PROVE  r \in unseen \ G
      BY DEF Closed
    <3>1. r \in unseen
      BY DEF Closed
    <3>2. q \in before[r]
      BY <1>6
    <3>3. r \in G => q \in G
      BY <3>2, <1>3, <1>4
    <3> QED
      BY <3>1, <3>3
  <2>2. unseen \ G \in SUBSET nodes /\ p \in unseen \ G
    OBVIOUS
  <2>3. LeadsTo(next, p) \subseteq unseen \ G
    BY <2>1, <2>2, LeadingToIsLeast
  <2> QED
    BY <2>3, <1>3
<1> QED
  BY <1>2, <1>7, <1>8

\* What leads to the node that was finished last is where it leads to.
LEMMA LastIsLedBack ==
    ASSUME NEW nodes, NEW next, IsGraph(next, nodes), NEW order, Finishes(order, next, nodes),
           NEW U \in SUBSET nodes, Closed(next, U),
           NEW v \in 1..Len(order), order[v] \in U, \A i \in 1..Len(order) : order[i] \in U => i <= v,
           NEW p \in U, order[v] \in LeadsTo(next, p)
    PROVE  p \in LeadsTo(next, order[v])
<1> DEFINE indices == 1..Len(order)
           end == order[v]
           bad == {i \in indices : /\ order[i] \in U /\ end \in LeadsTo(next, order[i])
                                   /\ order[i] \notin LeadsTo(next, end)}
           late == {v - i : i \in bad}
<1>1. /\ Len(order) \in Nat /\ \A i \in indices : order[i] \in nodes
      /\ \A q \in nodes : \E i \in indices : order[i] = q
  <2>1. order \in Seq(nodes) /\ On(order) = nodes
    BY DEF Finishes, Enumerates
  <2> QED
    BY <2>1, OnIsTheRange
<1> SUFFICES ASSUME p \notin LeadsTo(next, end)
             PROVE  FALSE
  OBVIOUS
<1>2. bad # {}
  <2>1. p \in nodes
    OBVIOUS
  <2> QED
    BY <2>1, <1>1
<1>3. \A i \in bad : i \in indices /\ i <= v /\ v - i \in Nat
  OBVIOUS
<1>4. PICK u \in bad : \A i \in bad : v - u <= v - i
  <2>1. late \subseteq Nat /\ late # {}
    BY <1>2, <1>3
  <2> HIDE DEF late
  <2>2. PICK n \in late : \A m \in late : n <= m
    BY <2>1, LeastNatural
  <2> QED
    BY <2>2 DEF late
<1>5. u \in indices /\ order[u] \in U /\ end \in LeadsTo(next, order[u]) /\ order[u] \notin LeadsTo(next, end)
      /\ u <= v
  BY <1>3
<1>6. u # v /\ end \in nodes /\ order[u] \in nodes
  BY <1>5, LeadingToIsLeast
<1> HIDE DEF bad
<1> DEFINE T == {q \in LeadsTo(next, order[u]) :
                    end \notin LeadsTo(next, q) \/ \E i \in indices : i <= u /\ order[i] = q}
<1>7. LeadsTo(next, order[u]) \subseteq U /\ LeadsTo(next, order[u]) \subseteq nodes
      /\ Closed(next, LeadsTo(next, order[u])) /\ order[u] \in LeadsTo(next, order[u])
  BY <1>5, <1>6, LeadingToIsLeast
<1>8. ~Closed(next, T)
  <2>1. T \in SUBSET nodes /\ order[u] \in T
    BY <1>5, <1>7
  <2>2. end \notin T
    <3>1. end \in LeadsTo(next, end)
      BY <1>6, LeadingToIsLeast
    <3>2. \A i \in indices : order[i] = end => i = v
      <4>1. Distinct(order) /\ DOMAIN order = indices
        <5>1. order \in Seq(nodes) /\ Distinct(order)
          BY DEF Finishes, Enumerates
        <5> QED
          BY <5>1, OnIsTheRange
      <4> QED
        BY <4>1 DEF Distinct
    <3> QED
      BY <3>1, <3>2, <1>5, <1>6
  <2> HIDE DEF T
  <2> QED
    BY <2>1, <2>2, <1>5, <1>6, LeadingToIsLeast
<1>8q. PICK q \in T : ~(next[q] \subseteq T)
  BY <1>8 DEF Closed
<1>9. PICK r \in next[q] : r \notin T
  BY <1>8q
<1>10. r \in LeadsTo(next, order[u]) /\ q \in LeadsTo(next, order[u]) /\ q \in nodes /\ r \in nodes /\ r \in U
  BY <1>7, <1>9 DEF Closed
<1>11. end \in LeadsTo(next, r) /\ \A i \in indices : order[i] = r => ~(i <= u)
  BY <1>9, <1>10
<1>12. end \in LeadsTo(next, q)
  <2>1. r \in LeadsTo(next, q)
    BY <1>9, <1>10, LeadingToIsLeast DEF Closed
  <2> QED
    BY <2>1, <1>10, <1>11, LeadingOn
<1>13. PICK i \in indices : i <= u /\ order[i] = q
  BY <1>9, <1>12
<1>14. PICK j \in indices : order[j] = r
  BY <1>1, <1>10
<1>15. i \in Nat /\ j \in Nat /\ u \in Nat /\ v \in Nat /\ i <= u /\ u < j
  <2>1. ~(j <= u)
    BY <1>11, <1>14
  <2> QED
    BY <2>1, <1>1, <1>5, <1>13
<1>16. order[u] \in LeadsTo(next, r)
  <2>1. Nested(next, order, indices)
    BY DEF Finishes
  <2>2. i < j /\ u \in i..j
    BY <1>15
  <2>3. order[j] \in next[order[i]]
    BY <1>9, <1>13, <1>14
  <2> HIDE DEF indices
  <2>4. order[u] \in LeadsTo(next, order[j])
    BY <2>1, <2>2, <2>3 DEF Nested
  <2> QED
    BY <2>4, <1>14
<1>17. r \in LeadsTo(next, end)
  <2>1. j \notin bad
    BY <1>4, <1>15
  <2> QED
    BY <2>1, <1>10, <1>11, <1>14 DEF bad
<1> QED
  BY <1>5, <1>6, <1>16, <1>17, LeadingOn

\* The components found so far, after the count nodes that were finished last.
Found(so, count, order, next, nodes) ==
    LET done == UNION On(so)
    IN  /\ so \in Seq(SUBSET nodes)
        /\ \A i \in 1..Len(order) : i > Len(order) - count => order[i] \in done
        /\ Closed(next, nodes \ done)
        /\ \A C \in On(so) : \E p \in nodes : C = Mutual(next, p)
        /\ \A i, j \in DOMAIN so : i < j => \A p \in so[j] : LeadsTo(next, p) \cap so[i] = {}

Onward(before, nodes, so, node) ==
    LET unseen == nodes \ UNION On(so)
    IN  IF node \notin unseen THEN so ELSE Append(so, CollectComponent(before, unseen, node))

LEMMA OneMoreFound ==
    ASSUME NEW nodes, IsFiniteSet(nodes), NEW next, IsGraph(next, nodes),
           NEW before, IsReverse(before, next, nodes), NEW order, Finishes(order, next, nodes),
           NEW n \in Nat, n < Len(order), NEW so, Found(so, n, order, next, nodes)
    PROVE  Found(Onward(before, nodes, so, order[Len(order) - n]), n + 1, order, next, nodes)
<1> DEFINE node == order[Len(order) - n]
           unseen == nodes \ UNION On(so)
           size == Len(order)
           done == UNION On(so)
           C == CollectComponent(before, unseen, node)
           longer == Append(so, C)
<1>1. order \in Seq(nodes) /\ size \in Nat /\ size - n \in 1..size /\ node \in nodes
  <2>1. order \in Seq(nodes)
    BY DEF Finishes, Enumerates
  <2>2. size \in Nat /\ \A i \in 1..size : order[i] \in nodes
    BY <2>1
  <2> HIDE DEF size
  <2>3. size - n \in 1..size
    BY <2>2 DEF size
  <2> QED
    BY <2>1, <2>2, <2>3 DEF size
<1> HIDE DEF size
<1>2. /\ so \in Seq(SUBSET nodes)
      /\ \A i \in 1..size : i > size - n => order[i] \in done
      /\ Closed(next, unseen)
      /\ \A D \in On(so) : \E p \in nodes : D = Mutual(next, p)
      /\ \A i, j \in DOMAIN so : i < j => \A p \in so[j] : LeadsTo(next, p) \cap so[i] = {}
  BY DEF Found, size
<1>3. \A i \in 1..size : i > size - (n + 1) => i > size - n \/ i = size - n
  BY <1>1
<1>4. CASE node \notin unseen
  <2>1. \A i \in 1..size : i > size - (n + 1) => order[i] \in done
    BY <1>1, <1>2, <1>3, <1>4 DEF size
  <2>2. Found(so, n + 1, order, next, nodes)
    BY <1>2, <2>1 DEF Found, size
  <2> QED
    BY <1>4, <2>2 DEF Onward
<1>5. CASE node \in unseen
  <2>1. unseen \in SUBSET nodes
    OBVIOUS
  <2>2. C = {p \in unseen : node \in LeadsTo(next, p)}
    BY <1>2, <1>5, <2>1, CollectedLeadHere
  <2> HIDE DEF C
  <2>3. \A p \in unseen : LeadsTo(next, p) \subseteq unseen
    BY <1>2, <2>1, LeadingToIsLeast
  <2>4. C = Mutual(next, node)
    <3>1. \A p \in Mutual(next, node) : p \in C
      BY <2>2, <2>3, <1>5 DEF Mutual
    <3>2. \A p \in C : p \in LeadsTo(next, node)
      <4>1. \A i \in 1..size : order[i] \in unseen => i <= size - n
        BY <1>1, <1>2 DEF done
      <4>2. TRUE
        OBVIOUS
      <4> QED
        BY <1>1, <1>2, <1>5, <2>1, <2>2, <4>1, LastIsLedBack DEF size
    <3> QED
      BY <2>2, <3>1, <3>2 DEF Mutual
  <2>5. /\ longer \in Seq(SUBSET nodes) /\ Len(so) \in Nat /\ DOMAIN so = 1..Len(so)
        /\ DOMAIN longer = 1..(Len(so) + 1)
        /\ longer[Len(so) + 1] = C /\ \A i \in 1..Len(so) : longer[i] = so[i]
    <3>1. C \in SUBSET nodes
      BY <2>2
    <3> QED
      BY <3>1, <1>2
  <2> HIDE DEF longer
  <2>6. On(longer) = On(so) \cup {C}
    <3>1. 1..(Len(so) + 1) = (1..Len(so)) \cup {Len(so) + 1}
      BY <2>5
    <3> QED
      BY <2>5, <3>1 DEF On
  <2>7. UNION On(longer) = done \cup C
    BY <2>6
  <2>8. node \in C
    BY <1>1, <1>5, <2>2, LeadingToIsLeast
  <2>9. \A i \in 1..size : i > size - (n + 1) => order[i] \in UNION On(longer)
    BY <1>1, <1>2, <1>3, <2>7, <2>8 DEF size
  <2>10. Closed(next, nodes \ UNION On(longer))
    <3> SUFFICES ASSUME NEW p \in unseen, p \notin C, NEW r \in next[p]
                 PROVE  r \in unseen /\ r \notin C
      BY <2>7 DEF Closed
    <3>1. r \in unseen
      BY <1>2 DEF Closed
    <3>2. r \in LeadsTo(next, p) /\ p \in nodes
      BY <2>1, LeadingToIsLeast DEF Closed
    <3>3. r \in C => p \in C
      BY <3>2, <2>2, LeadingOn
    <3> QED
      BY <3>1, <3>3
  <2>11. \A D \in On(longer) : \E p \in nodes : D = Mutual(next, p)
    BY <1>1, <1>2, <2>4, <2>6
  <2>12. \A i, j \in DOMAIN longer : i < j => \A p \in longer[j] : LeadsTo(next, p) \cap longer[i] = {}
    <3> SUFFICES ASSUME NEW i \in 1..(Len(so) + 1), NEW j \in 1..(Len(so) + 1), i < j, NEW p \in longer[j]
                 PROVE  LeadsTo(next, p) \cap longer[i] = {}
      BY <2>5
    <3>1. i \in 1..Len(so) /\ longer[i] = so[i]
      BY <2>5
    <3>2. CASE j \in 1..Len(so)
      BY <1>2, <2>5, <3>1, <3>2
    <3>3. CASE j = Len(so) + 1
      <4>1. LeadsTo(next, p) \subseteq unseen
        BY <2>2, <2>3, <2>5, <3>3
      <4>2. so[i] \subseteq done
        BY <3>1, <2>5 DEF On
      <4> QED
        BY <3>1, <4>1, <4>2
    <3> QED
      BY <3>2, <3>3, <2>5
  <2>13. Found(longer, n + 1, order, next, nodes)
    BY <2>5, <2>9, <2>10, <2>11, <2>12 DEF Found, size
  <2> QED
    BY <1>5, <2>13 DEF longer, C, Onward
<1> QED
  BY <1>4, <1>5

\* Kosaraju's algorithm: the components are what leads to each other, and
\* none leads to an earlier one.
LEMMA ComponentsAreStrong ==
    ASSUME NEW nodes, IsFiniteSet(nodes), nodes \subseteq Position, NEW next, IsGraph(next, nodes),
           NEW before, IsReverse(before, next, nodes)
    PROVE  LET so == StronglyConnected(next, before, nodes)
           IN  /\ so \in Seq(SUBSET nodes) /\ On(so) = {Mutual(next, p) : p \in nodes}
               /\ \A i, j \in DOMAIN so : i < j => \A p \in so[j] : LeadsTo(next, p) \cap so[i] = {}
<1> DEFINE order == FinishOrder(next, nodes)
           size == Len(order)
           seqs == Seq(SUBSET nodes)
           onward(so, node) == Onward(before, nodes, so, node)
           body(f) == [n \in 0..size |->
                         IF n = 0 THEN <<>> ELSE onward(f[n - 1], order[size + 1 - n])]
           found == CHOOSE f : f = body(f)
           step == [n \in 1..size |-> [so \in seqs |-> onward(so, order[size + 1 - n])]]
<1>1. StronglyConnected(next, before, nodes) = found[size]
  BY DEF StronglyConnected, Onward
<1>2. Finishes(order, next, nodes)
  BY FinishOrderFinishes
<1> HIDE DEF order, found
<1>3. order \in Seq(nodes) /\ size \in Nat
  BY <1>2 DEF Finishes, Enumerates
<1> HIDE DEF size
<1>4. \A so \in seqs : \A node : onward(so, node) \in seqs
  <2> SUFFICES ASSUME NEW so \in seqs, NEW node, node \in nodes \ UNION On(so)
               PROVE  CollectComponent(before, nodes \ UNION On(so), node) \in SUBSET nodes
    BY DEF Onward
  <2> DEFINE unseen == nodes \ UNION On(so)
  <2>1. IsFiniteSet(unseen) /\ unseen \subseteq nodes
    BY FS_Subset
  <2> HIDE DEF unseen
  <2>2. node \in unseen
    BY DEF unseen
  <2>3. CollectComponent(before, unseen, node) \in SUBSET unseen
    <3>1. {node} \in SUBSET unseen
      BY <2>2
    <3>2. /\ Grows(More(before, unseen), unseen)
          /\ CollectComponent(before, unseen, node) = Grown(More(before, unseen), unseen, {node})
      BY <2>1, <2>2, CollectIsGrown
    <3>3. Grown(More(before, unseen), unseen, {node}) \in SUBSET unseen
      BY <2>1, <3>1, <3>2, GrownIsLeast
    <3> QED
      BY <3>2, <3>3
  <2> QED
    BY <2>1, <2>3 DEF unseen
<1> HIDE DEF onward
<1>5. \A n \in 1..size : step[n] \in [seqs -> seqs] /\ \A so \in seqs : step[n][so] = onward(so, order[size + 1 - n])
  BY <1>4
<1>6. <<>> \in seqs
  OBVIOUS
<1>7. \A n \in 0..size : n # 0 => n \in 1..size /\ n - 1 \in 0..size
  BY <1>3
<1> HIDE DEF seqs, step
<1>8. found = body(found)
  <2>1. PICK f : StepsUp(f, size, <<>>, step)
    BY <1>3, <1>5, <1>6, StepsAreDefined
  <2>2. f \in [0..size -> seqs]
    BY <2>1, <1>3, <1>5, <1>6, StepsStay
  <2>3. \A n \in 0..size : n # 0 => step[n][f[n - 1]] = onward(f[n - 1], order[size + 1 - n])
    BY <2>2, <1>5, <1>7
  <2>4. f = body(f)
    BY <2>1, <2>3 DEF StepsUp
  <2> QED
    BY <2>4 DEF found
<1>9. /\ \A n \in 0..size : n = 0 => found[n] = <<>>
      /\ \A n \in 0..size : n # 0 => found[n] = onward(found[n - 1], order[size + 1 - n])
  BY <1>8
<1> HIDE DEF body
<1> DEFINE S == {n \in 0..size : Found(found[n], n, order, next, nodes)}
<1>10. 0 \in S
  <2>1. 0 \in 0..size /\ found[0] = <<>>
    BY <1>3, <1>9
  <2>2. On(<<>>) = {}
    BY DEF On
  <2>3. \A i \in 1..Len(order) : ~(i > Len(order) - 0)
    BY <1>3 DEF size
  <2>4. Closed(next, nodes)
    BY DEF Closed, IsGraph
  <2>5. UNION On(<<>>) = {} /\ nodes \ {} = nodes /\ <<>> \in Seq(SUBSET nodes) /\ DOMAIN <<>> = {}
    BY <2>2
  <2>6. Found(<<>>, 0, order, next, nodes)
    BY <2>2, <2>3, <2>4, <2>5 DEF Found
  <2> QED
    BY <2>1, <2>6
<1>11. \A n \in 0..size : n \in S /\ n < size => n + 1 \in S
  <2> SUFFICES ASSUME NEW n \in 0..size, n \in S, n < size
               PROVE  n + 1 \in S
    OBVIOUS
  <2>1. n + 1 \in 0..size /\ n + 1 # 0 /\ (n + 1) - 1 = n /\ size + 1 - (n + 1) = size - n /\ n \in Nat
    BY <1>3
  <2>2. found[n + 1] = onward(found[n], order[size - n])
    BY <2>1, <1>9
  <2>3. Found(onward(found[n], order[size - n]), n + 1, order, next, nodes)
    <3>1. Found(found[n], n, order, next, nodes) /\ n \in Nat /\ n < Len(order)
      BY <2>1 DEF size
    <3> HIDE DEF S
    <3>2. Found(Onward(before, nodes, found[n], order[Len(order) - n]), n + 1, order, next, nodes)
      BY <3>1, <1>2, OneMoreFound
    <3> QED
      BY <3>2 DEF onward, size
  <2> QED
    BY <2>1, <2>2, <2>3
<1>12. 0..size \subseteq S
  <2> HIDE DEF S
  <2> QED
    BY <1>3, <1>10, <1>11, CountingUp
<1> DEFINE so == found[size]
<1>13. Found(so, size, order, next, nodes)
  <2>1. size \in 0..size
    BY <1>3
  <2> QED
    BY <2>1, <1>12
<1> HIDE DEF so
<1>14. \A p \in nodes : \E C \in On(so) : p \in C
  <2> TAKE p \in nodes
  <2>1. PICK i \in 1..size : order[i] = p
    <3>1. On(order) = nodes
      BY <1>2 DEF Finishes, Enumerates
    <3> QED
      BY <3>1, <1>3, OnIsTheRange DEF size
  <2>2. i > size - size
    BY <1>3
  <2>3. p \in UNION On(so)
    BY <2>1, <2>2, <1>13 DEF Found, size
  <2> QED
    BY <2>3
<1>15. \A C \in On(so) : \E p \in nodes : C = Mutual(next, p)
  BY <1>13 DEF Found
<1>16. \A p \in nodes, q \in nodes : q \in Mutual(next, p) => Mutual(next, q) = Mutual(next, p)
  <2> SUFFICES ASSUME NEW p \in nodes, NEW q \in nodes, q \in LeadsTo(next, p), p \in LeadsTo(next, q)
               PROVE  Mutual(next, q) = Mutual(next, p)
    BY DEF Mutual
  <2>1. LeadsTo(next, p) = LeadsTo(next, q)
    BY LeadingOn
  <2>2. \A r \in LeadsTo(next, p) : p \in LeadsTo(next, r) <=> q \in LeadsTo(next, r)
    BY LeadingOn
  <2> QED
    BY <2>1, <2>2 DEF Mutual
<1>17. \A p \in nodes : Mutual(next, p) \in On(so)
  BY <1>14, <1>15, <1>16
<1>18. On(so) = {Mutual(next, p) : p \in nodes}
  BY <1>15, <1>17
<1>19. \A i, j \in DOMAIN so : i < j => \A p \in so[j] : LeadsTo(next, p) \cap so[i] = {}
  BY <1>13 DEF Found
<1>20. so \in Seq(SUBSET nodes)
  BY <1>13 DEF Found
<1> QED
  BY <1>1, <1>18, <1>19, <1>20 DEF so

-----------------------------------------------------------------------------
(* The components of the edges of a scene.                                 *)

Next1(pairs) == [p \in Ends(pairs) |-> Sinks(pairs, p)]
Before1(pairs) == [p \in Ends(pairs) |-> Sources(pairs, p)]

LEMMA EdgesAreAGraph ==
    ASSUME NEW pairs
    PROVE  IsGraph(Next1(pairs), Ends(pairs)) /\ IsReverse(Before1(pairs), Next1(pairs), Ends(pairs))
<1>1. \A p : Sinks(pairs, p) \subseteq Ends(pairs) /\ Sources(pairs, p) \subseteq Ends(pairs)
  BY DEF Sinks, Sources, Ends
<1>2. \A p, q : q \in Sources(pairs, p) <=> p \in Sinks(pairs, q)
  BY DEF Sinks, Sources
<1> QED
  BY <1>1, <1>2 DEF IsGraph, IsReverse, Next1, Before1

Links(pairs) == {[source |-> e[1], sink |-> e[2]] : e \in pairs}

LEMMA ReachableIsGrown ==
    ASSUME NEW links, NEW S, NEW U, U = S \cup {c.sink : c \in links}, IsFiniteSet(U)
    PROVE  LET grow == [T \in SUBSET U |-> T \cup Forward(links, T)]
           IN  Grows(grow, U) /\ Reachable(links, S) = Grown(grow, U, S)
<1> DEFINE grow == [T \in SUBSET U |-> T \cup Forward(links, T)]
           body(f) == [T \in SUBSET U |-> LET next == T \cup Forward(links, T) IN IF next = T THEN T ELSE f[next]]
           reach == CHOOSE f : f = body(f)
<1>1. Reachable(links, S) = reach[S]
  BY DEF Reachable
<1>2. Grows(grow, U)
  <2>1. \A T : Forward(links, T) \subseteq U
    BY DEF Forward
  <2>2. \A T, V : T \subseteq V => Forward(links, T) \subseteq Forward(links, V)
    BY DEF Forward
  <2>3. \A T \in SUBSET U : grow[T] = T \cup Forward(links, T)
    OBVIOUS
  <2>4. grow \in [SUBSET U -> SUBSET U]
    BY <2>1
  <2> HIDE DEF grow
  <2> QED
    BY <2>2, <2>3, <2>4 DEF Grows
<1>3. \A f : body(f) = [T \in SUBSET U |-> IF grow[T] = T THEN T ELSE f[grow[T]]]
  OBVIOUS
<1> HIDE DEF grow, body
<1>4. reach = body(reach)
  <2>1. PICK f : GrowsInto(f, grow, U)
    BY <1>2, GrowingIsDefined
  <2>2. f = body(f)
    BY <2>1, <1>3 DEF GrowsInto
  <2> QED
    BY <2>2
<1> HIDE DEF reach
<1>5. GrowsInto(reach, grow, U)
  BY <1>3, <1>4 DEF GrowsInto
<1>6. S \in SUBSET U
  OBVIOUS
<1>7. reach[S] = Grown(grow, U, S)
  BY <1>2, <1>5, <1>6, GrowingEnds
<1> QED
  BY <1>1, <1>2, <1>7 DEF grow

\* What is reached along the edges is what they lead to.
LEMMA ReachableIsLedTo ==
    ASSUME NEW pairs, IsFiniteSet(Ends(pairs)), NEW p \in Ends(pairs)
    PROVE  Reachable(Links(pairs), {p}) = LeadsTo(Next1(pairs), p)
<1> DEFINE links == Links(pairs)
           nodes == Ends(pairs)
           next == Next1(pairs)
           U == {p} \cup {c.sink : c \in links}
           grow == [T \in SUBSET U |-> T \cup Forward(links, T)]
           G == Grown(grow, U, {p})
           L == LeadsTo(next, p)
<1>1. \A c \in links : \E e \in pairs : c.source = e[1] /\ c.sink = e[2]
  BY DEF Links
<1>2. \A e \in pairs : \E c \in links : c.source = e[1] /\ c.sink = e[2]
  <2> TAKE e \in pairs
  <2> DEFINE c == [source |-> e[1], sink |-> e[2]]
  <2>1. c \in links /\ c.source = e[1] /\ c.sink = e[2]
    BY DEF Links
  <2> QED
    BY <2>1
<1>3. \A T, q : q \in Forward(links, T) <=> \E e \in pairs : e[1] \in T /\ e[2] = q
  BY <1>1, <1>2 DEF Forward
<1>4. \A q \in nodes : next[q] = Sinks(pairs, q)
  BY DEF Next1
<1>5. \A T \in SUBSET nodes : Forward(links, T) = UNION {next[q] : q \in T}
  BY <1>3, <1>4 DEF Sinks
<1>6. U \subseteq nodes /\ IsFiniteSet(U)
  <2>1. U \subseteq nodes
    BY <1>1 DEF Ends
  <2> QED
    BY <2>1, FS_Subset
<1>7. \A q \in nodes : next[q] \subseteq U
  BY <1>2, <1>4 DEF Sinks
<1> HIDE DEF links, nodes, next
<1>8. Grows(grow, U) /\ Reachable(links, {p}) = G
  BY <1>6, ReachableIsGrown
<1>9. IsGraph(next, nodes)
  BY EdgesAreAGraph DEF next, nodes
<1>10. p \in nodes
  BY DEF nodes
<1>11. \A T \in SUBSET U : grow[T] = T <=> Closed(next, T)
  BY <1>5, <1>6 DEF Closed
<1> HIDE DEF U, grow
<1>12. {p} \in SUBSET U
  BY DEF U
<1>13. /\ G \in SUBSET U /\ {p} \subseteq G /\ grow[G] = G
       /\ \A T \in SUBSET U : {p} \subseteq T /\ grow[T] = T => G \subseteq T
  BY <1>8, <1>12, GrownIsLeast
<1>14. /\ L \subseteq nodes /\ p \in L /\ Closed(next, L)
       /\ \A S \in SUBSET nodes : p \in S /\ Closed(next, S) => L \subseteq S
  BY <1>9, <1>10, LeadingToIsLeast
<1> HIDE DEF G, L
<1>15. L \subseteq U
  <2>1. Closed(next, U)
    BY <1>6, <1>7 DEF Closed
  <2> QED
    BY <2>1, <1>6, <1>12, <1>14
<1>16. L = G
  <2>1. G \subseteq L
    BY <1>11, <1>13, <1>14, <1>15
  <2>2. L \subseteq G
    BY <1>6, <1>11, <1>13, <1>14
  <2> QED
    BY <2>1, <2>2
<1> QED
  BY <1>8, <1>16 DEF links, next, L

\* Who reaches whom.
Reach(pairs) == UNION {{p} \X Reachable(Links(pairs), {p}) : p \in Ends(pairs)}

LEMMA SignalComponentsAreStrong ==
    ASSUME NEW pairs, IsFiniteSet(Ends(pairs)), Ends(pairs) \subseteq Position
    PROVE  LET reach == Reach(pairs)
               components == SignalComponents(pairs)
           IN  /\ components \in Seq(SUBSET Ends(pairs))
               /\ On(components) = {{q \in Ends(pairs) : {<<p, q>>, <<q, p>>} \subseteq reach} : p \in Ends(pairs)}
               /\ \A i, j \in DOMAIN components : i < j => (components[j] \X components[i]) \cap reach = {}
<1> DEFINE nodes == Ends(pairs)
           next == Next1(pairs)
           before == Before1(pairs)
           reach == Reach(pairs)
           components == SignalComponents(pairs)
<1>0. reach = UNION {{p} \X Reachable(Links(pairs), {p}) : p \in nodes}
  BY DEF Reach
<1> HIDE DEF reach
<1>1. IsGraph(next, nodes) /\ IsReverse(before, next, nodes)
  BY EdgesAreAGraph
<1>2. components = StronglyConnected(next, before, nodes)
  BY DEF SignalComponents, Next1, Before1
<1> HIDE DEF next, before, components
<1>3. \A p \in nodes, q \in nodes : <<p, q>> \in reach <=> q \in LeadsTo(next, p)
  <2> TAKE p \in nodes, q \in nodes
  <2>1. \A r \in nodes : Reachable(Links(pairs), {r}) = LeadsTo(next, r)
    BY ReachableIsLedTo DEF next
  <2>2. ASSUME <<p, q>> \in reach
        PROVE  q \in LeadsTo(next, p)
    <3>1. PICK r \in nodes : <<p, q>> \in {r} \X Reachable(Links(pairs), {r})
      BY <1>0, <2>2
    <3> QED
      BY <2>1, <3>1
  <2>3. ASSUME q \in LeadsTo(next, p)
        PROVE  <<p, q>> \in reach
    <3>1. <<p, q>> \in {p} \X Reachable(Links(pairs), {p})
      BY <2>1, <2>3
    <3> QED
      BY <1>0, <3>1
  <2> QED
    BY <2>2, <2>3
<1> HIDE DEF nodes, next, before
<1>4. IsFiniteSet(nodes) /\ nodes \subseteq Position
  BY DEF nodes
<1>5. /\ components \in Seq(SUBSET nodes) /\ On(components) = {Mutual(next, p) : p \in nodes}
      /\ \A i, j \in DOMAIN components : i < j => \A p \in components[j] : LeadsTo(next, p) \cap components[i] = {}
  BY <1>1, <1>2, <1>4, ComponentsAreStrong
<1>6. \A p \in nodes : LeadsTo(next, p) \subseteq nodes
  BY <1>1, LeadingToIsLeast
<1>7. \A p \in nodes : Mutual(next, p) = {q \in nodes : {<<p, q>>, <<q, p>>} \subseteq reach}
  <2> TAKE p \in nodes
  <2>1. \A q \in nodes : q \in Mutual(next, p) <=> <<p, q>> \in reach /\ <<q, p>> \in reach
    BY <1>3 DEF Mutual
  <2>2. Mutual(next, p) \subseteq nodes
    BY <1>6 DEF Mutual
  <2> QED
    BY <2>1, <2>2
<1>8. On(components) = {{q \in nodes : {<<p, q>>, <<q, p>>} \subseteq reach} : p \in nodes}
  <2> DEFINE mutual(p) == {q \in nodes : {<<p, q>>, <<q, p>>} \subseteq reach}
  <2>1. \A p \in nodes : Mutual(next, p) = mutual(p)
    BY <1>7
  <2> HIDE DEF mutual
  <2>2. On(components) = {mutual(p) : p \in nodes}
    BY <1>5, <2>1
  <2> QED
    BY <2>2 DEF mutual
<1>9. ASSUME NEW i \in DOMAIN components, NEW j \in DOMAIN components, i < j
      PROVE  (components[j] \X components[i]) \cap reach = {}
  <2>1. \A p \in components[j] : LeadsTo(next, p) \cap components[i] = {}
    BY <1>5, <1>9
  <2>2. components[j] \subseteq nodes /\ components[i] \subseteq nodes
    <3>1. \A p \in nodes : Mutual(next, p) \subseteq nodes
      BY <1>6 DEF Mutual
    <3> QED
      BY <3>1, <1>5 DEF On
  <2>3. \A p \in components[j], q \in components[i] : <<p, q>> \notin reach
    BY <1>3, <2>1, <2>2
  <2>4. ASSUME NEW e \in (components[j] \X components[i]) \cap reach
        PROVE  FALSE
    <3>1. PICK p \in components[j], q \in components[i] : e = <<p, q>>
      OBVIOUS
    <3> QED
      BY <2>3, <3>1
  <2> QED
    BY <2>4
<1> QED
  BY <1>5, <1>8, <1>9 DEF nodes, reach, components

-----------------------------------------------------------------------------
(* What feeds back.                                                        *)

LEMMA FirstIsThere ==
    ASSUME NEW S, S \subseteq Position, IsFiniteSet(S), S # {}
    PROVE  FirstOf(S) \in S
<1> DEFINE R == {pq \in S \X S : Before(pq[1], pq[2])}
<1>1. \A p, q \in S : <<p, q>> \in R <=> Before(p, q)
  OBVIOUS
<1>2. \A p \in S : p[1] \in Int /\ p[2] \in Int /\ p[3] \in Int /\ p = <<p[1], p[2], p[3]>>
  BY DEF Position
<1> HIDE DEF R
<1>3. Orders(R, S)
  <2>1. \A p, q \in S : p # q => Before(p, q) \/ Before(q, p)
    BY <1>2 DEF Before
  <2>2. \A p, q \in S : ~(Before(p, q) /\ Before(q, p))
    BY <1>2 DEF Before
  <2>3. \A p, q, r \in S : Before(p, q) /\ Before(q, r) => Before(p, r)
    BY <1>2 DEF Before
  <2> QED
    BY <1>1, <2>1, <2>2, <2>3 DEF Orders
<1>4. \E p \in S : \A q \in S \ {p} : <<p, q>> \in R
  BY <1>3, SomethingIsFirst
<1>5. \E p \in S : \A q \in S \ {p} : Before(p, q)
  BY <1>1, <1>4
<1> QED
  BY <1>5 DEF FirstOf

\* Passive components are one where they lead to each other, and others stay
\* alone.
LEMMA GroupIsTwoWay ==
    ASSUME NEW W, NEW pairs, IsFiniteSet(Ends(pairs)), NEW p \in Ends(pairs)
    PROVE  LET group == PassiveGroup(W, pairs, p)
               next == Next1(pairs)
           IN  /\ group \subseteq Ends(pairs) /\ p \in group
               /\ \A r \in group : r \in LeadsTo(next, p) /\ p \in LeadsTo(next, r)
               /\ IF Passive(W, p) THEN \A r \in group : Passive(W, r) ELSE group = {p}
<1> DEFINE nodes == Ends(pairs)
           next == Next1(pairs)
           twoWay(q) == {r \in Sinks(pairs, q) : Passive(W, r) /\ <<r, q>> \in pairs}
           U == {p} \cup nodes
           grow == [S \in SUBSET U |-> S \cup UNION {twoWay(q) : q \in S}]
           body(f) == [S \in SUBSET U |->
                         LET more == S \cup UNION {twoWay(q) : q \in S} IN IF more = S THEN S ELSE f[more]]
           group == CHOOSE f : f = body(f)
           G == Grown(grow, U, {p})
<1>1. PassiveGroup(W, pairs, p) = IF Passive(W, p) THEN group[{p}] ELSE {p}
  BY DEF PassiveGroup
<1>2. IsGraph(next, nodes) /\ IsFiniteSet(nodes) /\ p \in nodes /\ U = nodes
  BY EdgesAreAGraph
<1>3. \A q \in nodes : \A r \in twoWay(q) : r \in nodes /\ r \in next[q] /\ q \in next[r] /\ Passive(W, r)
  <2> TAKE q \in nodes
  <2> TAKE r \in twoWay(q)
  <2>1. r \in Sinks(pairs, q) /\ Passive(W, r) /\ <<r, q>> \in pairs
    OBVIOUS
  <2>2. r \in nodes
    BY <2>1 DEF Sinks, Ends
  <2>3. q \in Sinks(pairs, r)
    <3> DEFINE e == <<r, q>>
    <3>1. e \in pairs /\ e[1] = r /\ e[2] = q
      BY <2>1
    <3> HIDE DEF e
    <3> QED
      BY <3>1 DEF Sinks
  <2> QED
    BY <2>1, <2>2, <2>3 DEF Next1
<1>4. p \in LeadsTo(next, p)
  BY <1>2, LeadingToIsLeast
<1> HIDE DEF next, nodes, twoWay
<1>5. Grows(grow, U)
  <2>1. \A S \in SUBSET U : grow[S] = S \cup UNION {twoWay(q) : q \in S}
    OBVIOUS
  <2>2. \A S \in SUBSET U : UNION {twoWay(q) : q \in S} \subseteq U
    BY <1>2, <1>3
  <2>3. grow \in [SUBSET U -> SUBSET U]
    BY <2>2
  <2> HIDE DEF grow, U
  <2> QED
    BY <2>1, <2>3 DEF Grows
<1>6. \A f : body(f) = [S \in SUBSET U |-> IF grow[S] = S THEN S ELSE f[grow[S]]]
  OBVIOUS
<1>6a. \A S \in SUBSET U : (\A q \in S : twoWay(q) \subseteq S) => grow[S] = S
  OBVIOUS
<1> HIDE DEF grow, body, U
<1>7. group = body(group)
  <2>1. PICK f : GrowsInto(f, grow, U)
    BY <1>5, GrowingIsDefined
  <2>2. f = body(f)
    BY <2>1, <1>6 DEF GrowsInto
  <2> QED
    BY <2>2
<1> HIDE DEF group
<1>8. GrowsInto(group, grow, U) /\ {p} \in SUBSET U /\ IsFiniteSet(U)
  BY <1>2, <1>6, <1>7 DEF GrowsInto
<1>9. group[{p}] = G
  BY <1>5, <1>8, GrowingEnds
<1>10. /\ G \in SUBSET U /\ {p} \subseteq G
       /\ \A T \in SUBSET U : {p} \subseteq T /\ grow[T] = T => G \subseteq T
  BY <1>5, <1>8, GrownIsLeast
<1> HIDE DEF G
<1>11. ASSUME Passive(W, p)
       PROVE  \A r \in G : Passive(W, r) /\ r \in LeadsTo(next, p) /\ p \in LeadsTo(next, r)
  <2> DEFINE T == {r \in U : Passive(W, r) /\ r \in LeadsTo(next, p) /\ p \in LeadsTo(next, r)}
  <2>1. {p} \subseteq T
    BY <1>2, <1>4, <1>11
  <2>2. ASSUME NEW q \in T, NEW r \in twoWay(q)
        PROVE  r \in T
    <3>1. q \in nodes /\ q \in LeadsTo(next, p) /\ p \in LeadsTo(next, q)
      BY <1>2
    <3>2. r \in nodes /\ r \in next[q] /\ q \in next[r] /\ Passive(W, r)
      BY <1>3, <3>1
    <3>3. r \in LeadsTo(next, p)
      BY <1>2, <3>1, <3>2, LeadingToIsLeast DEF Closed
    <3>4. q \in LeadsTo(next, r)
      BY <1>2, <3>2, LeadingToIsLeast DEF Closed
    <3>5. p \in LeadsTo(next, r)
      BY <1>2, <3>1, <3>2, <3>4, LeadingOn
    <3> QED
      BY <1>2, <3>2, <3>3, <3>5
  <2>3. T \in SUBSET U /\ \A q \in T : twoWay(q) \subseteq T
    BY <2>2
  <2> HIDE DEF T
  <2>4. grow[T] = T
    BY <1>6a, <2>3
  <2>5. G \subseteq T
    BY <1>10, <2>1, <2>3, <2>4
  <2> QED
    BY <2>5 DEF T
<1>12. CASE Passive(W, p)
  <2>1. PassiveGroup(W, pairs, p) = G
    BY <1>1, <1>9, <1>12
  <2> QED
    BY <2>1, <1>2, <1>10, <1>11, <1>12 DEF next, nodes
<1>13. CASE ~Passive(W, p)
  <2>1. PassiveGroup(W, pairs, p) = {p}
    BY <1>1, <1>13
  <2> QED
    BY <2>1, <1>4, <1>13 DEF next
<1> QED
  BY <1>12, <1>13

\* What stands for a passive group is led to by it and leads to it.
GroupName(W, pairs, p) == FirstOf(PassiveGroup(W, pairs, p))

LEMMA NameIsTwoWay ==
    ASSUME NEW W, NEW pairs, IsFiniteSet(Ends(pairs)), Ends(pairs) \subseteq Position, NEW p \in Ends(pairs)
    PROVE  LET name == GroupName(W, pairs, p)
               next == Next1(pairs)
           IN  /\ name \in Ends(pairs) /\ name \in LeadsTo(next, p) /\ p \in LeadsTo(next, name)
               /\ Passive(W, p) => Passive(W, name)
               /\ ~Passive(W, p) => name = p
<1> DEFINE group == PassiveGroup(W, pairs, p)
           name == GroupName(W, pairs, p)
<1>1. /\ group \subseteq Ends(pairs) /\ p \in group
      /\ \A r \in group : r \in LeadsTo(Next1(pairs), p) /\ p \in LeadsTo(Next1(pairs), r)
      /\ IF Passive(W, p) THEN \A r \in group : Passive(W, r) ELSE group = {p}
  BY GroupIsTwoWay
<1> HIDE DEF group
<1>2. group \subseteq Position /\ group # {} /\ IsFiniteSet(group)
  BY <1>1, FS_Subset
<1>3. name \in group
  BY <1>2, FirstIsThere DEF GroupName, group
<1> QED
  BY <1>1, <1>3

\* What is reached from what comes after p: where what leads out of it does not
\* leave it, and p's own successors are there.
LEMMA ReachableIsKept ==
    ASSUME NEW links, NEW S, IsFiniteSet(S \cup {c.sink : c \in links})
    PROVE  /\ Reachable(links, S) \subseteq S \cup {c.sink : c \in links} /\ S \subseteq Reachable(links, S)
           /\ \A c \in links : c.source \in Reachable(links, S) => c.sink \in Reachable(links, S)
<1> DEFINE U == S \cup {c.sink : c \in links}
           grow == [T \in SUBSET U |-> T \cup Forward(links, T)]
           R == Reachable(links, S)
<1>1. Grows(grow, U) /\ R = Grown(grow, U, S)
  BY ReachableIsGrown
<1>2. S \in SUBSET U
  OBVIOUS
<1>3. R \in SUBSET U /\ S \subseteq R /\ grow[R] = R
  <2> DEFINE G == Grown(grow, U, S)
  <2> HIDE DEF grow, U
  <2>1. G \in SUBSET U /\ S \subseteq G /\ grow[G] = G
    BY <1>1, <1>2, GrownIsLeast
  <2> HIDE DEF R, G
  <2> QED
    BY <1>1, <2>1 DEF G
<1>4. Forward(links, R) \subseteq R
  <2> HIDE DEF R
  <2> QED
    BY <1>3
<1> QED
  BY <1>3, <1>4 DEF Forward

\* The graph of the groups, as active_feedback_components builds it.
Between(W, pairs) ==
    {e \in {<<GroupName(W, pairs, d[1]), GroupName(W, pairs, d[2])>> : d \in pairs} : e[1] # e[2]}

LEMMA GroupsAreAGraph ==
    ASSUME NEW W, NEW pairs, IsFiniteSet(Ends(pairs)), Ends(pairs) \subseteq Position
    PROVE  LET name(q) == GroupName(W, pairs, q)
               between == Between(W, pairs)
               places == Ends(between)
               onward == Next1(between)
           IN  /\ IsGraph(onward, places) /\ places \subseteq Ends(pairs)
               /\ On(SignalComponents(between)) = {Mutual(onward, x) : x \in places}
               /\ \A g \in places : \A h \in onward[g] : \E d \in pairs : g = name(d[1]) /\ h = name(d[2])
               /\ \A d \in pairs : name(d[1]) # name(d[2]) =>
                    /\ name(d[1]) \in places /\ name(d[2]) \in places
                    /\ name(d[2]) \in onward[name(d[1])]
<1> DEFINE nodes == Ends(pairs)
           name(q) == GroupName(W, pairs, q)
           between == Between(W, pairs)
           places == Ends(between)
           onward == Next1(between)
<1>1. \A d \in pairs : d[1] \in nodes /\ d[2] \in nodes
  BY DEF Ends
<1>2. \A q \in nodes : name(q) \in nodes
  BY NameIsTwoWay
<1>3. \A e \in between : \E d \in pairs : e[1] = name(d[1]) /\ e[2] = name(d[2])
  BY DEF Between
<1>4. \A d \in pairs : name(d[1]) # name(d[2]) => \E e \in between : e[1] = name(d[1]) /\ e[2] = name(d[2])
  <2> TAKE d \in pairs
  <2> SUFFICES ASSUME name(d[1]) # name(d[2])
               PROVE  \E e \in between : e[1] = name(d[1]) /\ e[2] = name(d[2])
    OBVIOUS
  <2>1. <<name(d[1]), name(d[2])>> \in between
    BY DEF Between
  <2> HIDE DEF name, between
  <2> QED
    BY <2>1
<1> HIDE DEF nodes, name, between
<1>5. places \subseteq nodes
  BY <1>1, <1>2, <1>3 DEF Ends
<1>6. \A g \in places : \A h \in onward[g] : \E d \in pairs : g = name(d[1]) /\ h = name(d[2])
  BY <1>3 DEF Next1, Sinks
<1>7. IsGraph(onward, places) /\ IsReverse(Before1(between), onward, places)
  BY EdgesAreAGraph
<1>8. IsFiniteSet(places) /\ places \subseteq Position
  BY <1>5, FS_Subset DEF nodes
<1>9. \A d \in pairs : name(d[1]) # name(d[2]) =>
        name(d[1]) \in places /\ name(d[2]) \in places /\ name(d[2]) \in onward[name(d[1])]
  BY <1>4 DEF Ends, Next1, Sinks
<1>10. On(SignalComponents(between)) = {Mutual(onward, x) : x \in places}
  <2>1. SignalComponents(between) = StronglyConnected(onward, Before1(between), places)
    BY DEF SignalComponents, Next1, Before1
  <2> HIDE DEF places, onward
  <2>2. LET so == StronglyConnected(onward, Before1(between), places)
        IN  /\ so \in Seq(SUBSET places) /\ On(so) = {Mutual(onward, x) : x \in places}
            /\ \A i, j \in DOMAIN so : i < j => \A x \in so[j] : LeadsTo(onward, x) \cap so[i] = {}
    BY <1>7, <1>8, ComponentsAreStrong
  <2> QED
    BY <2>1, <2>2
<1> QED
  BY <1>5, <1>6, <1>7, <1>9, <1>10 DEF nodes, name, between

\* What is reported: the devices that are in one component with another group.
LEMMA ReportedIsCyclic ==
    ASSUME NEW W, NEW pairs
    PROVE  ActiveFeedback(W, pairs) =
             {q \in Ends(pairs) : /\ ~Passive(W, q)
                                  /\ \E C \in On(SignalComponents(Between(W, pairs))) :
                                       Cardinality(C) > 1 /\ GroupName(W, pairs, q) \in C}
<1> DEFINE nodes == Ends(pairs)
           name(q) == GroupName(W, pairs, q)
           group == [q \in nodes |-> name(q)]
           quotient == {<<group[e[1]], group[e[2]]>> : e \in pairs}
           between == {e \in quotient : e[1] # e[2]}
           components == On(SignalComponents(between))
<1>1. ActiveFeedback(W, pairs) =
        {q \in nodes : group[q] \in UNION {C \in components : Cardinality(C) > 1} /\ ~Passive(W, q)}
  BY DEF ActiveFeedback, GroupName
<1>2. \A q \in nodes : group[q] = name(q)
  OBVIOUS
<1>3. \A d \in pairs : d[1] \in nodes /\ d[2] \in nodes
  BY DEF Ends
<1>4. quotient = {<<name(e[1]), name(e[2])>> : e \in pairs}
  BY <1>2, <1>3
<1>5. between = Between(W, pairs)
  BY <1>4 DEF Between
<1> HIDE DEF nodes, name, group, between
<1>6. ActiveFeedback(W, pairs) =
        {q \in nodes : ~Passive(W, q) /\ \E C \in components : Cardinality(C) > 1 /\ name(q) \in C}
  BY <1>1, <1>2
<1> QED
  BY <1>5, <1>6 DEF nodes, name

\* A device that is reported to feed back leads back to itself: the cycle of
\* the groups is one of the components.
LEMMA FeedbackReturns ==
    ASSUME NEW W, NEW links, NEW pairs, pairs = Dependencies(links),
           IsFiniteSet(Ends(pairs)), Ends(pairs) \subseteq Position,
           NEW p \in ActiveFeedback(W, pairs)
    PROVE  p \in Reachable(links, Forward(links, {p}))
<1> DEFINE nodes == Ends(pairs)
           next == Next1(pairs)
           name(q) == GroupName(W, pairs, q)
           between == Between(W, pairs)
           places == Ends(between)
           onward == Next1(between)
           R == Reachable(links, Forward(links, {p}))
<1>1. IsGraph(next, nodes) /\ IsFiniteSet(nodes) /\ nodes \subseteq Position
  BY EdgesAreAGraph
<1>2. \A e \in pairs : e[1] \in nodes /\ e[2] \in nodes /\ e[2] \in next[e[1]]
  BY DEF Ends, Next1, Sinks
<1>3. \A q \in nodes : /\ name(q) \in nodes /\ name(q) \in LeadsTo(next, q) /\ q \in LeadsTo(next, name(q))
                       /\ Passive(W, q) => Passive(W, name(q))
                       /\ ~Passive(W, q) => name(q) = q
  BY NameIsTwoWay
<1>4. /\ p \in nodes /\ ~Passive(W, p)
      /\ \E C \in On(SignalComponents(between)) : Cardinality(C) > 1 /\ name(p) \in C
  BY ReportedIsCyclic
<1>5. name(p) = p
  BY <1>3, <1>4
<1>6. PICK C \in On(SignalComponents(between)) : Cardinality(C) > 1 /\ p \in C
  BY <1>4, <1>5
<1>9. /\ IsGraph(onward, places) /\ On(SignalComponents(between)) = {Mutual(onward, x) : x \in places}
      /\ \A g \in places : \A h \in onward[g] : \E d \in pairs : g = name(d[1]) /\ h = name(d[2])
  BY GroupsAreAGraph
<1>11. IsGraph(onward, places)
  BY <1>9
<1> HIDE DEF between, places, onward
<1>13. PICK x \in places : C = Mutual(onward, x)
  BY <1>6, <1>9
<1>14. C \subseteq places
  BY <1>11, <1>13, LeadingToIsLeast DEF Mutual
<1>15. PICK h \in C : h # p
  <2>1. SUFFICES ASSUME C = {p}
                 PROVE  FALSE
    BY <1>6
  <2> QED
    BY <1>6, <2>1, FS_Singleton
<1>16. p \in places /\ h \in places /\ h \in LeadsTo(onward, p) /\ p \in LeadsTo(onward, h)
  <2>1. p \in LeadsTo(onward, x) /\ x \in LeadsTo(onward, p) /\ h \in LeadsTo(onward, x) /\ x \in LeadsTo(onward, h)
    BY <1>6, <1>13, <1>15 DEF Mutual
  <2> QED
    BY <2>1, <1>6, <1>11, <1>14, LeadingOn
<1> HIDE DEF nodes, next, name
<1>17. /\ \A q \in nodes : q = p \/ q \in R => next[q] \subseteq R
       /\ R \subseteq nodes
  <2>1. \A c \in links : \E d \in pairs : d[1] = c.source /\ d[2] = c.sink
    <3> TAKE c \in links
    <3> DEFINE d == <<c.source, c.sink>>
    <3>1. d \in pairs /\ d[1] = c.source /\ d[2] = c.sink
      BY DEF Dependencies
    <3> HIDE DEF d
    <3> QED
      BY <3>1
  <2>2. \A d \in pairs : \E c \in links : d[1] = c.source /\ d[2] = c.sink
    BY DEF Dependencies
  <2> DEFINE S == Forward(links, {p})
  <2>3. S \subseteq nodes /\ S \cup {c.sink : c \in links} \subseteq nodes
    BY <1>2, <2>1 DEF Forward
  <2>4. IsFiniteSet(S \cup {c.sink : c \in links})
    BY <1>1, <2>3, FS_Subset
  <2>5. \A c \in links : c.source = p => c.sink \in S
    BY DEF Forward
  <2>6. /\ R \subseteq S \cup {c.sink : c \in links} /\ S \subseteq R
        /\ \A c \in links : c.source \in R => c.sink \in R
    <3> HIDE DEF S
    <3>1. /\ Reachable(links, S) \subseteq S \cup {c.sink : c \in links} /\ S \subseteq Reachable(links, S)
          /\ \A c \in links : c.source \in Reachable(links, S) => c.sink \in Reachable(links, S)
      BY <2>4, ReachableIsKept
    <3> QED
      BY <3>1 DEF S
  <2> HIDE DEF S, R
  <2>7. \A q \in nodes : \A r \in next[q] : \E d \in pairs : d[1] = q /\ d[2] = r
    BY DEF next, nodes, Next1, Sinks
  <2>8. \A q \in nodes : \A r \in next[q] : \E c \in links : c.source = q /\ c.sink = r
    BY <2>2, <2>7
  <2>9. ASSUME NEW q \in nodes, q = p \/ q \in R, NEW r \in next[q]
        PROVE  r \in R
    <3>1. PICK c \in links : c.source = q /\ c.sink = r
      BY <2>8
    <3> QED
      BY <2>5, <2>6, <2>9, <3>1
  <2>10. R \subseteq nodes
    BY <2>3, <2>6
  <2> QED
    BY <2>9, <2>10
<1> HIDE DEF R
<1>18. \A q \in R : LeadsTo(next, q) \subseteq R
  <2>1. Closed(next, R)
    BY <1>17 DEF Closed
  <2> QED
    BY <1>1, <1>17, <2>1, LeadingToIsLeast
\* A group is behind when all of it is reached.
<1> DEFINE behind == {g \in places : \A q \in nodes : name(q) = g => q \in R}
<1>19. ASSUME NEW g \in places, g = p \/ g \in behind, NEW k \in onward[g]
       PROVE  k \in behind
  <2>1. PICK d \in pairs : g = name(d[1]) /\ k = name(d[2])
    BY <1>9 DEF nodes
  <2>2. d[1] \in nodes /\ d[2] \in nodes /\ d[2] \in next[d[1]]
    BY <1>2
  <2>3. d[1] = p \/ d[1] \in R
    <3>1. CASE g = p
      BY <1>3, <1>4, <2>1, <2>2, <3>1 DEF nodes
    <3>2. CASE g \in behind
      BY <2>1, <2>2, <3>2
    <3> QED
      BY <1>19, <3>1, <3>2
  <2>4. d[2] \in R
    BY <1>17, <2>2, <2>3
  <2>5. ASSUME NEW q \in nodes, name(q) = k
        PROVE  q \in R
    <3>1. k \in LeadsTo(next, d[2]) /\ q \in LeadsTo(next, k)
      BY <1>3, <2>1, <2>2, <2>5
    <3>2. k \in R
      BY <1>18, <2>4, <3>1
    <3> QED
      BY <1>18, <3>1, <3>2
  <2>6. k \in places
    BY <1>11, <1>19 DEF IsGraph
  <2> QED
    BY <2>5, <2>6
<1>20. Closed(onward, behind) /\ Closed(onward, behind \cup {p}) /\ behind \subseteq places
  BY <1>16, <1>19 DEF Closed
<1>21. h \in behind
  <2> HIDE DEF behind
  <2>1. LeadsTo(onward, p) \subseteq behind \cup {p}
    <3>1. behind \cup {p} \in SUBSET places /\ p \in behind \cup {p}
      BY <1>16, <1>20
    <3> QED
      BY <3>1, <1>11, <1>16, <1>20, LeadingToIsLeast
  <2> QED
    BY <2>1, <1>15, <1>16
<1>22. p \in behind
  <2> HIDE DEF behind
  <2> QED
    BY <1>11, <1>16, <1>20, <1>21, LeadingToIsLeast
<1> QED
  BY <1>4, <1>5, <1>22 DEF R, nodes

\* What a set that holds S and is not left by any link contains.
LEMMA ReachableIsLeast ==
    ASSUME NEW links, NEW S, IsFiniteSet(S \cup {c.sink : c \in links}),
           NEW T, S \subseteq T, \A c \in links : c.source \in T => c.sink \in T
    PROVE  Reachable(links, S) \subseteq T
<1> DEFINE U == S \cup {c.sink : c \in links}
           grow == [X \in SUBSET U |-> X \cup Forward(links, X)]
           G == Grown(grow, U, S)
           X == T \cap U
<1>1. Grows(grow, U) /\ Reachable(links, S) = G
  BY ReachableIsGrown
<1>2. S \in SUBSET U /\ X \in SUBSET U /\ S \subseteq X
  OBVIOUS
<1>3. Forward(links, X) \subseteq X
  BY DEF Forward
<1>4. grow[X] = X
  BY <1>2, <1>3
<1> HIDE DEF U, grow
<1>5. G \subseteq X
  BY <1>1, <1>2, <1>4, GrownIsLeast
<1> QED
  BY <1>1, <1>5

\* A device that leads back to itself is reported: the first group on its way
\* that leads to it is another one, of the same component.
LEMMA FeedbackIsReported ==
    ASSUME NEW W, NEW links, NEW pairs, pairs = Dependencies(links),
           IsFiniteSet(Ends(pairs)), Ends(pairs) \subseteq Position,
           \A c \in links : c.source # c.sink,
           NEW p, ~Passive(W, p), p \in Reachable(links, Forward(links, {p}))
    PROVE  p \in ActiveFeedback(W, pairs)
<1> DEFINE nodes == Ends(pairs)
           next == Next1(pairs)
           name(q) == GroupName(W, pairs, q)
           between == Between(W, pairs)
           places == Ends(between)
           onward == Next1(between)
           S == Forward(links, {p})
<1>1. \A c \in links : c.source \in nodes /\ c.sink \in nodes /\ \E d \in pairs : d[1] = c.source /\ d[2] = c.sink
  <2> TAKE c \in links
  <2> DEFINE d == <<c.source, c.sink>>
  <2>1. d \in pairs /\ d[1] = c.source /\ d[2] = c.sink
    BY DEF Dependencies
  <2> HIDE DEF d
  <2> QED
    BY <2>1 DEF Ends
<1>2. \A q \in nodes : /\ name(q) \in nodes
                       /\ Passive(W, q) => Passive(W, name(q))
                       /\ ~Passive(W, q) => name(q) = q
  BY NameIsTwoWay
<1>3. /\ IsGraph(onward, places) /\ On(SignalComponents(between)) = {Mutual(onward, x) : x \in places}
      /\ places \subseteq nodes
      /\ \A d \in pairs : name(d[1]) # name(d[2]) =>
           name(d[1]) \in places /\ name(d[2]) \in places /\ name(d[2]) \in onward[name(d[1])]
  BY GroupsAreAGraph
<1>4. \A c \in links : name(c.source) # name(c.sink) =>
        name(c.source) \in places /\ name(c.sink) \in places /\ name(c.sink) \in onward[name(c.source)]
  <2> TAKE c \in links
  <2>1. PICK d \in pairs : d[1] = c.source /\ d[2] = c.sink
    BY <1>1
  <2> HIDE DEF name, places, onward
  <2> QED
    BY <1>3, <2>1
<1>5. IsFiniteSet(S \cup {c.sink : c \in links}) /\ S \subseteq nodes
  <2>1. S \subseteq nodes /\ S \cup {c.sink : c \in links} \subseteq nodes
    BY <1>1 DEF Forward
  <2> HIDE DEF S
  <2> QED
    BY <2>1, FS_Subset
<1>6. PICK out \in links : out.source = p
  <2>1. S # {}
    <3> SUFFICES ASSUME S = {}
                 PROVE  FALSE
      OBVIOUS
    <3>1. Reachable(links, S) \subseteq {}
      <4> HIDE DEF S
      <4> QED
        BY <1>5, ReachableIsLeast
    <3> QED
      BY <3>1
  <2> QED
    BY <2>1 DEF Forward
<1>7. p \in nodes /\ name(p) = p /\ \A q \in nodes : name(q) = p => q = p
  BY <1>1, <1>2, <1>6
<1> HIDE DEF nodes, name, between, places, onward
<1>8. p \in places
  BY <1>1, <1>4, <1>6, <1>7
<1>9. /\ LeadsTo(onward, p) \subseteq places /\ p \in LeadsTo(onward, p)
      /\ \A g \in LeadsTo(onward, p) : onward[g] \subseteq LeadsTo(onward, p)
  BY <1>3, <1>8, LeadingToIsLeast DEF Closed
<1> DEFINE behind == {q \in nodes : name(q) # p /\ name(q) \in LeadsTo(onward, p)}
<1>10. S \subseteq behind
  <2> SUFFICES ASSUME NEW c \in links, c.source = p
               PROVE  c.sink \in behind
    BY DEF Forward
  <2>1. c.sink # p /\ name(c.sink) # p
    BY <1>1, <1>7
  <2>2. name(c.sink) \in onward[p]
    BY <1>4, <1>7, <2>1
  <2> QED
    BY <1>1, <1>9, <2>1, <2>2
<1>11. PICK c \in links : c.source \in behind /\ c.sink \notin behind
  <2> SUFFICES ASSUME \A c \in links : c.source \in behind => c.sink \in behind
               PROVE  FALSE
    OBVIOUS
  <2>1. p \notin behind
    BY <1>7
  <2> HIDE DEF behind, S
  <2>2. Reachable(links, S) \subseteq behind
    BY <1>5, <1>10, ReachableIsLeast
  <2> QED
    BY <2>1, <2>2 DEF S
<1> DEFINE g == name(c.source)
<1>12. g # p /\ g \in LeadsTo(onward, p) /\ c.source \in nodes /\ c.sink \in nodes
  BY <1>1, <1>11
<1>13. name(c.sink) = p
  <2> SUFFICES ASSUME name(c.sink) # p
               PROVE  FALSE
    OBVIOUS
  <2>1. name(c.sink) # g /\ name(c.sink) \notin LeadsTo(onward, p)
    BY <1>11, <1>12
  <2>2. name(c.sink) \in onward[g]
    BY <1>4, <2>1
  <2> QED
    BY <1>9, <1>12, <2>1, <2>2
<1>14. g \in places /\ p \in onward[g]
  BY <1>4, <1>12, <1>13
<1>15. p \in LeadsTo(onward, g)
  BY <1>3, <1>14, LeadingToIsLeast DEF Closed
<1>16. {p, g} \subseteq Mutual(onward, p)
  BY <1>9, <1>12, <1>15 DEF Mutual
<1>17. Cardinality(Mutual(onward, p)) > 1
  <2>1. IsFiniteSet(Mutual(onward, p))
    BY <1>3, <1>9, FS_Subset DEF Mutual, nodes
  <2>2. Cardinality({p, g}) = 2
    <3> HIDE DEF g
    <3>1. IsFiniteSet({p}) /\ Cardinality({p}) = 1
      BY FS_Singleton
    <3>2. g \notin {p} /\ {p, g} = {p} \cup {g}
      BY <1>12
    <3>3. Cardinality({p} \cup {g}) = Cardinality({p}) + 1
      BY <3>1, <3>2, FS_AddElement
    <3> QED
      BY <3>1, <3>2, <3>3
  <2>3. Cardinality({p, g}) <= Cardinality(Mutual(onward, p)) /\ Cardinality(Mutual(onward, p)) \in Nat
    BY <1>16, <2>1, FS_Subset, FS_CardinalityType
  <2> QED
    BY <2>2, <2>3
<1>18. \E C \in On(SignalComponents(between)) : Cardinality(C) > 1 /\ name(p) \in C
  BY <1>3, <1>7, <1>8, <1>16, <1>17
<1> QED
  BY <1>7, <1>18, ReportedIsCyclic DEF nodes, name, between

-----------------------------------------------------------------------------
(* What a graph of gates computes.                                         *)

\* Every node comes after those it takes from.
Grounded(nodes) ==
    /\ nodes \in Seq(Nodes)
    /\ \A i \in DOMAIN nodes : \A k \in DOMAIN nodes[i].inputs : nodes[i].inputs[k] \in 1..(i - 1)

\* Values of the first n nodes, each from those before it.
ValuesOf(f, n, nodes, env) ==
    f = [i \in 1..n |-> Apply(nodes[i].kind, nodes[i].name, [k \in DOMAIN nodes[i].inputs |-> f[nodes[i].inputs[k]]], env)]

LEMMA ValuesExist ==
    ASSUME NEW nodes, Grounded(nodes), NEW env
    PROVE  \E f : ValuesOf(f, Len(nodes), nodes, env)
<1> DEFINE S == {n \in 0..Len(nodes) : \E f : ValuesOf(f, n, nodes, env)}
<1>1. Len(nodes) \in Nat /\ DOMAIN nodes = 1..Len(nodes)
  BY DEF Grounded
<1>2. 0 \in S
  <2>1. ValuesOf([i \in 1..0 |-> FALSE], 0, nodes, env)
    BY DEF ValuesOf
  <2> QED
    BY <2>1, <1>1
<1>3. \A n \in 0..Len(nodes) : n \in S /\ n < Len(nodes) => n + 1 \in S
  <2> SUFFICES ASSUME NEW n \in 0..Len(nodes), n \in S, n < Len(nodes)
               PROVE  n + 1 \in S
    OBVIOUS
  <2>1. PICK f : ValuesOf(f, n, nodes, env)
    OBVIOUS
  <2> DEFINE of(h, i) == Apply(nodes[i].kind, nodes[i].name, [k \in DOMAIN nodes[i].inputs |-> h[nodes[i].inputs[k]]], env)
             g == [i \in 1..(n + 1) |-> of(f, i)]
  <2>2. n + 1 \in 0..Len(nodes) /\ \A i \in 1..(n + 1) : i \in DOMAIN nodes /\ 1..(i - 1) \subseteq 1..n
    BY <1>1
  <2>3. f = [i \in 1..n |-> of(f, i)]
    BY <2>1 DEF ValuesOf
  <2>4. \A i \in 1..n : g[i] = f[i]
    <3>1. \A i \in 1..n : f[i] = of(f, i)
      BY <2>3
    <3>2. \A i \in 1..n : i \in 1..(n + 1)
      BY <1>1
    <3> HIDE DEF of
    <3> QED
      BY <3>1, <3>2
  <2>5. \A i \in 1..(n + 1) : of(f, i) = of(g, i)
    <3> SUFFICES ASSUME NEW i \in 1..(n + 1)
                 PROVE  of(f, i) = of(g, i)
      OBVIOUS
    <3>1. \A k \in DOMAIN nodes[i].inputs : nodes[i].inputs[k] \in 1..n
      BY <2>2 DEF Grounded
    <3> HIDE DEF g
    <3>2. [k \in DOMAIN nodes[i].inputs |-> f[nodes[i].inputs[k]]] = [k \in DOMAIN nodes[i].inputs |-> g[nodes[i].inputs[k]]]
      BY <3>1, <2>4
    <3> QED
      BY <3>2
  <2>6. g = [i \in 1..(n + 1) |-> of(g, i)]
    <3>1. \A i \in 1..(n + 1) : g[i] = of(g, i)
      <4> HIDE DEF of
      <4> QED
        BY <2>5
    <3>2. g = [i \in 1..(n + 1) |-> g[i]]
      OBVIOUS
    <3> HIDE DEF g, of
    <3> QED
      BY <3>1, <3>2
  <2>7. ValuesOf(g, n + 1, nodes, env)
    BY <2>6 DEF ValuesOf
  <2> QED
    BY <2>2, <2>7
<1>4. 0..Len(nodes) \subseteq S
  <2> HIDE DEF S
  <2> QED
    BY <1>1, <1>2, <1>3, CountingUp
<1> QED
  BY <1>1, <1>4

\* The values of a graph are what its gates make of them.
LEMMA EvaluateApplies ==
    ASSUME NEW nodes, Grounded(nodes), NEW env, NEW i \in DOMAIN nodes
    PROVE  Evaluate(nodes, env)[i] =
               Apply(nodes[i].kind, nodes[i].name,
                     [k \in DOMAIN nodes[i].inputs |-> Evaluate(nodes, env)[nodes[i].inputs[k]]], env)
<1> DEFINE of(h, j) == Apply(nodes[j].kind, nodes[j].name, [k \in DOMAIN nodes[j].inputs |-> h[nodes[j].inputs[k]]], env)
           value == CHOOSE h : h = [j \in DOMAIN nodes |-> of(h, j)]
<1>1. Evaluate(nodes, env) = value
  BY DEF Evaluate
<1>2. PICK f : ValuesOf(f, Len(nodes), nodes, env)
  BY ValuesExist
<1>3. DOMAIN nodes = 1..Len(nodes)
  BY DEF Grounded
<1>4. f = [j \in DOMAIN nodes |-> of(f, j)]
  BY <1>2, <1>3 DEF ValuesOf
<1>5. value = [j \in DOMAIN nodes |-> of(value, j)]
  <2> HIDE DEF of
  <2> QED
    BY <1>4
<1> HIDE DEF value
<1>6. value[i] = of(value, i)
  <2> HIDE DEF of
  <2> QED
    BY <1>5
<1> QED
  BY <1>1, <1>6

\* more has the nodes of a graph, in their places, and perhaps others.
Extends(more, nodes) == Len(nodes) <= Len(more) /\ \A i \in DOMAIN nodes : more[i] = nodes[i]

LEMMA ExtendsOn ==
    ASSUME NEW a \in Seq(Nodes), NEW b \in Seq(Nodes), NEW c \in Seq(Nodes), Extends(b, a), Extends(c, b)
    PROVE  Extends(c, a)
<1>1. DOMAIN a \subseteq DOMAIN b /\ Len(a) <= Len(c)
  BY DEF Extends
<1> QED
  BY <1>1 DEF Extends

\* Adding nodes changes no value that was there.
LEMMA ValuesStay ==
    ASSUME NEW nodes, Grounded(nodes), NEW more, Grounded(more), Extends(more, nodes), NEW env
    PROVE  \A i \in DOMAIN nodes : Evaluate(more, env)[i] = Evaluate(nodes, env)[i]
<1> DEFINE v == Evaluate(nodes, env)
           w == Evaluate(more, env)
           S == {n \in 0..Len(nodes) : \A i \in 1..n : w[i] = v[i]}
<1>1. Len(nodes) \in Nat /\ DOMAIN nodes = 1..Len(nodes) /\ DOMAIN nodes \subseteq DOMAIN more
  BY DEF Grounded, Extends
<1>2. 0 \in S
  BY <1>1
<1>3. \A n \in 0..Len(nodes) : n \in S /\ n < Len(nodes) => n + 1 \in S
  <2> SUFFICES ASSUME NEW n \in 0..Len(nodes), n \in S, n < Len(nodes)
               PROVE  n + 1 \in S
    OBVIOUS
  <2>1. n + 1 \in 0..Len(nodes) /\ n + 1 \in DOMAIN nodes /\ n + 1 \in DOMAIN more /\ (n + 1) - 1 = n
        /\ \A i \in 1..(n + 1) : i \in 1..n \/ i = n + 1
    BY <1>1
  <2>2. more[n + 1] = nodes[n + 1]
    BY <2>1 DEF Extends
  <2>3. \A k \in DOMAIN nodes[n + 1].inputs : nodes[n + 1].inputs[k] \in 1..n
    BY <2>1 DEF Grounded
  <2> DEFINE node == nodes[n + 1]
  <2>4. [k \in DOMAIN node.inputs |-> w[node.inputs[k]]] = [k \in DOMAIN node.inputs |-> v[node.inputs[k]]]
    <3>1. \A i \in 1..n : w[i] = v[i]
      OBVIOUS
    <3> HIDE DEF v, w
    <3> QED
      BY <2>3, <3>1
  <2>5. w[n + 1] = Apply(node.kind, node.name, [k \in DOMAIN node.inputs |-> w[node.inputs[k]]], env)
    <3>1. w[n + 1] = Apply(more[n + 1].kind, more[n + 1].name,
                           [k \in DOMAIN more[n + 1].inputs |-> w[more[n + 1].inputs[k]]], env)
      BY <2>1, EvaluateApplies
    <3> HIDE DEF w
    <3> QED
      BY <3>1, <2>2
  <2>6. v[n + 1] = Apply(node.kind, node.name, [k \in DOMAIN node.inputs |-> v[node.inputs[k]]], env)
    BY <2>1, EvaluateApplies
  <2>7. w[n + 1] = v[n + 1]
    BY <2>4, <2>5, <2>6
  <2> HIDE DEF v, w
  <2>8. \A i \in 1..(n + 1) : w[i] = v[i]
    BY <2>1, <2>7
  <2> QED
    BY <2>1, <2>8
<1>4. 0..Len(nodes) \subseteq S
  <2> HIDE DEF S
  <2> QED
    BY <1>1, <1>2, <1>3, CountingUp
<1> QED
  BY <1>1, <1>4

-----------------------------------------------------------------------------
(* Adding a node.                                                          *)

Results == [nodes : Seq(Nodes), id : Nat]

LEMMA OneIsASequence == \A S, x : x \in S => <<x>> \in Seq(S) /\ DOMAIN <<x>> = {1} /\ <<x>>[1] = x
OBVIOUS

LEMMA TwoAreASequence ==
    \A S, x, y : x \in S /\ y \in S =>
        <<x, y>> \in Seq(S) /\ DOMAIN <<x, y>> = {1, 2} /\ <<x, y>>[1] = x /\ <<x, y>>[2] = y
OBVIOUS

LEMMA NodeIsANode ==
    ASSUME NEW kind \in LogicKinds, NEW inputs \in Seq(Nat), NEW name \in Names
    PROVE  /\ Node(kind, inputs, name) \in Nodes
           /\ Node(kind, inputs, name).kind = kind /\ Node(kind, inputs, name).inputs = inputs
           /\ Node(kind, inputs, name).name = name
BY DEF Node, Nodes

LEMMA InternTyped ==
    ASSUME NEW nodes \in Seq(Nodes), NEW kind \in LogicKinds, NEW inputs \in Seq(Nat), NEW name \in Names
    PROVE  LET r == Intern(nodes, kind, inputs, name)
           IN  /\ r \in Results /\ Extends(r.nodes, nodes)
               /\ r.id \in DOMAIN r.nodes /\ r.nodes[r.id] = Node(kind, inputs, name)
               /\ \A i \in DOMAIN r.nodes : i \in DOMAIN nodes \/ (r.nodes[i] = Node(kind, inputs, name) /\ i = Len(nodes) + 1)
<1> DEFINE node == Node(kind, inputs, name)
           same == Places(nodes, node)
           r == Intern(nodes, kind, inputs, name)
<1>1. node \in Nodes
  BY NodeIsANode
<1>2. DOMAIN nodes = 1..Len(nodes) /\ Len(nodes) \in Nat
  OBVIOUS
<1>3. same \subseteq DOMAIN nodes /\ \A i \in same : nodes[i] = node
  BY DEF Places
<1>4. CASE same = {}
  <2> DEFINE added == Append(nodes, node)
  <2>1. r = [nodes |-> added, id |-> Len(nodes) + 1]
    BY <1>4 DEF Intern
  <2> HIDE DEF r, node, same
  <2>2. added \in Seq(Nodes) /\ Len(added) = Len(nodes) + 1 /\ added[Len(nodes) + 1] = node
        /\ (\A i \in 1..Len(nodes) : added[i] = nodes[i]) /\ DOMAIN added = 1..(Len(nodes) + 1)
    BY <1>1, <1>2
  <2> HIDE DEF added
  <2>3. r.nodes = added /\ r.id = Len(nodes) + 1 /\ r \in Results
    BY <2>1, <2>2, <1>2 DEF Results
  <2>4. Extends(r.nodes, nodes)
    BY <2>2, <2>3, <1>2 DEF Extends
  <2>5. r.id \in DOMAIN r.nodes /\ r.nodes[r.id] = node
    BY <2>2, <2>3, <1>2
  <2>6. \A i \in DOMAIN r.nodes : i \in DOMAIN nodes \/ (r.nodes[i] = node /\ i = Len(nodes) + 1)
    BY <2>2, <2>3, <1>2
  <2> QED
    BY <2>3, <2>4, <2>5, <2>6 DEF r, node
<1>5. CASE same # {}
  <2>1. r = [nodes |-> nodes, id |-> CHOOSE i \in same : TRUE]
    BY <1>5 DEF Intern
  <2> HIDE DEF r, node, same
  <2>2. (CHOOSE i \in same : TRUE) \in same
    BY <1>5
  <2>3. r.nodes = nodes /\ r.id \in same
    BY <2>1, <2>2
  <2>4. r.id \in DOMAIN nodes /\ nodes[r.id] = node
    BY <2>3, <1>3
  <2>5. r \in Results
    <3>1. r.id \in Nat
      BY <2>4, <1>2
    <3> QED
      BY <2>1, <2>3, <3>1 DEF Results
  <2>6. Extends(r.nodes, nodes)
    BY <2>3, <1>2 DEF Extends
  <2> QED
    BY <2>3, <2>4, <2>5, <2>6 DEF r, node
<1> QED
  BY <1>4, <1>5

LEMMA InternGrounds ==
    ASSUME NEW nodes, Grounded(nodes), NEW kind \in LogicKinds, NEW inputs \in Seq(DOMAIN nodes), NEW name \in Names
    PROVE  LET r == Intern(nodes, kind, inputs, name)
           IN  /\ r \in Results /\ Grounded(r.nodes) /\ Extends(r.nodes, nodes)
               /\ r.id \in DOMAIN r.nodes /\ r.nodes[r.id] = Node(kind, inputs, name)
<1> DEFINE r == Intern(nodes, kind, inputs, name)
           node == Node(kind, inputs, name)
<1>1. nodes \in Seq(Nodes) /\ DOMAIN nodes = 1..Len(nodes) /\ Len(nodes) \in Nat
  BY DEF Grounded
<1>2. inputs \in Seq(Nat) /\ \A k \in DOMAIN inputs : inputs[k] \in 1..Len(nodes)
  <2>1. DOMAIN nodes \subseteq Nat
    BY <1>1
  <2> QED
    BY <1>1, <2>1
<1>3. /\ r \in Results /\ Extends(r.nodes, nodes) /\ r.id \in DOMAIN r.nodes /\ r.nodes[r.id] = node
      /\ \A i \in DOMAIN r.nodes : i \in DOMAIN nodes \/ (r.nodes[i] = node /\ i = Len(nodes) + 1)
  BY <1>1, <1>2, InternTyped
<1>4. node.inputs = inputs
  BY DEF Node
<1> HIDE DEF r, node
<1>5. Grounded(r.nodes)
  <2>1. r.nodes \in Seq(Nodes)
    BY <1>3 DEF Results
  <2>2. ASSUME NEW i \in DOMAIN r.nodes, NEW k \in DOMAIN r.nodes[i].inputs
        PROVE  r.nodes[i].inputs[k] \in 1..(i - 1)
    <3>1. CASE i \in DOMAIN nodes
      <4>1. r.nodes[i] = nodes[i]
        BY <3>1, <1>3 DEF Extends
      <4> QED
        BY <3>1, <4>1, <2>2 DEF Grounded
    <3>2. CASE r.nodes[i] = node /\ i = Len(nodes) + 1
      <4>1. i - 1 = Len(nodes)
        BY <3>2, <1>1
      <4> QED
        BY <3>2, <4>1, <2>2, <1>2, <1>4
    <3> QED
      BY <3>1, <3>2, <1>3
  <2> QED
    BY <2>1, <2>2 DEF Grounded
<1> QED
  BY <1>3, <1>5 DEF r, node

-----------------------------------------------------------------------------
(* What operators do with two values.                                      *)

Boole == {"and", "or", "xor"}

LEMMA ApplyOne ==
    ASSUME NEW kind \in Boole, NEW values, DOMAIN values = {1}, values[1] \in BOOLEAN, NEW name, NEW env
    PROVE  Apply(kind, name, values, env) = values[1]
<1>1. CASE kind = "and"
  BY <1>1 DEF Apply
<1>2. CASE kind = "or"
  BY <1>2 DEF Apply
<1>3. CASE kind = "xor"
  <2> DEFINE S == {i \in DOMAIN values : values[i]}
  <2>1. Apply(kind, name, values, env) = (Cardinality(S) % 2 = 1)
    BY <1>3 DEF Apply, Count
  <2>2. CASE values[1]
    <3>1. S = {1}
      BY <2>2
    <3>2. Cardinality(S) = 1
      BY <3>1, FS_Singleton
    <3>3. Cardinality(S) % 2 = 1
      BY <3>2
    <3> HIDE DEF S
    <3> QED
      BY <2>1, <2>2, <3>3
  <2>3. CASE ~values[1]
    <3>1. S = {}
      BY <2>3
    <3>2. Cardinality(S) = 0
      BY <3>1, FS_EmptySet
    <3>3. ~(Cardinality(S) % 2 = 1)
      BY <3>2
    <3> HIDE DEF S
    <3> QED
      BY <2>1, <2>3, <3>3
  <2> QED
    BY <2>2, <2>3
<1> QED
  BY <1>1, <1>2, <1>3 DEF Boole

LEMMA ExclusiveOfTwo ==
    ASSUME NEW a \in BOOLEAN, NEW b \in BOOLEAN, NEW name, NEW env
    PROVE  Apply("xor", name, <<a, b>>, env) = (a # b)
<1> DEFINE S == {i \in DOMAIN <<a, b>> : <<a, b>>[i]}
<1>1. Apply("xor", name, <<a, b>>, env) = (Cardinality(S) % 2 = 1)
  BY DEF Apply, Count
<1>2. DOMAIN <<a, b>> = {1, 2} /\ <<a, b>>[1] = a /\ <<a, b>>[2] = b
  OBVIOUS
<1>3. Cardinality({1}) % 2 = 1 /\ Cardinality({2}) % 2 = 1 /\ ~(Cardinality({1, 2}) % 2 = 1) /\ ~(Cardinality({}) % 2 = 1)
  <2>1. Cardinality({1}) = 1 /\ Cardinality({2}) = 1 /\ IsFiniteSet({1})
    BY FS_Singleton
  <2>2. Cardinality({}) = 0
    BY FS_EmptySet
  <2>3. Cardinality({1, 2}) = 2
    <3>1. 2 \notin {1} /\ {1, 2} = {1} \cup {2}
      OBVIOUS
    <3>2. Cardinality({1} \cup {2}) = Cardinality({1}) + 1
      BY <2>1, <3>1, FS_AddElement
    <3> QED
      BY <3>1, <3>2, <2>1
  <2> QED
    BY <2>1, <2>2, <2>3
<1>4. CASE a /\ b
  <2>1. S = {1, 2}
    BY <1>2, <1>4
  <2> HIDE DEF S
  <2> QED
    BY <1>1, <1>3, <1>4, <2>1
<1>5. CASE a /\ ~b
  <2>1. S = {1}
    BY <1>2, <1>5
  <2> HIDE DEF S
  <2> QED
    BY <1>1, <1>3, <1>5, <2>1
<1>6. CASE ~a /\ b
  <2>1. S = {2}
    BY <1>2, <1>6
  <2> HIDE DEF S
  <2> QED
    BY <1>1, <1>3, <1>6, <2>1
<1>7. CASE ~a /\ ~b
  <2>1. S = {}
    BY <1>2, <1>7
  <2> HIDE DEF S
  <2> QED
    BY <1>1, <1>3, <1>7, <2>1
<1> QED
  BY <1>4, <1>5, <1>6, <1>7

\* An operator of many values is one of two, again and again.
LEMMA ApplyOneMore ==
    ASSUME NEW kind \in Boole, NEW n \in Nat, NEW values, values[n + 1] \in BOOLEAN, NEW name, NEW env
    PROVE  LET before == Apply(kind, name, [j \in 1..n |-> values[j]], env)
               all == Apply(kind, name, [j \in 1..(n + 1) |-> values[j]], env)
           IN  /\ before \in BOOLEAN /\ all \in BOOLEAN
               /\ Apply(kind, name, <<before, values[n + 1]>>, env) = all
<1> DEFINE few == [j \in 1..n |-> values[j]]
           many == [j \in 1..(n + 1) |-> values[j]]
           before == Apply(kind, name, few, env)
           all == Apply(kind, name, many, env)
           last == values[n + 1]
<1>1. 1..(n + 1) = (1..n) \cup {n + 1} /\ n + 1 \notin 1..n
  OBVIOUS
<1>2. \A x, y : DOMAIN <<x, y>> = {1, 2} /\ <<x, y>>[1] = x /\ <<x, y>>[2] = y
  OBVIOUS
<1>3. CASE kind = "and"
  <2>1. before = (\A j \in 1..n : values[j]) /\ all = (\A j \in 1..(n + 1) : values[j])
    BY <1>3 DEF Apply
  <2>2. before \in BOOLEAN /\ all \in BOOLEAN
    BY <2>1
  <2>3. all = (before /\ last)
    BY <2>1, <1>1
  <2> HIDE DEF before, all, last
  <2>4. Apply("and", name, <<before, last>>, env) = (before /\ last)
    BY <1>2 DEF Apply
  <2> QED
    BY <2>2, <2>3, <2>4, <1>3 DEF before, all, last
<1>4. CASE kind = "or"
  <2>1. before = (\E j \in 1..n : values[j]) /\ all = (\E j \in 1..(n + 1) : values[j])
    BY <1>4 DEF Apply
  <2>2. before \in BOOLEAN /\ all \in BOOLEAN
    BY <2>1
  <2>3. all = (before \/ last)
    BY <2>1, <1>1
  <2> HIDE DEF before, all, last
  <2>4. Apply("or", name, <<before, last>>, env) = (before \/ last)
    <3>1. Apply("or", name, <<before, last>>, env) = \E i \in DOMAIN <<before, last>> : <<before, last>>[i]
      BY DEF Apply
    <3>2. (\E i \in DOMAIN <<before, last>> : <<before, last>>[i]) <=> (before \/ last)
      BY <1>2
    <3> QED
      BY <3>1, <3>2
  <2> QED
    BY <2>2, <2>3, <2>4, <1>4 DEF before, all, last
<1>5. CASE kind = "xor"
  <2> DEFINE S == {j \in 1..n : values[j]}
             T == {j \in 1..(n + 1) : values[j]}
  <2>1. before = (Cardinality(S) % 2 = 1) /\ all = (Cardinality(T) % 2 = 1)
    <3>1. {j \in DOMAIN few : few[j]} = S /\ {j \in DOMAIN many : many[j]} = T
      OBVIOUS
    <3> HIDE DEF few, many, S, T
    <3> QED
      BY <3>1, <1>5 DEF Apply, Count
  <2>2. IsFiniteSet(S) /\ Cardinality(S) \in Nat
    <3>1. IsFiniteSet(1..n) /\ S \subseteq 1..n
      BY FS_Interval
    <3> HIDE DEF S
    <3> QED
      BY <3>1, FS_Subset, FS_CardinalityType
  <2>3. Cardinality(T) = IF last THEN Cardinality(S) + 1 ELSE Cardinality(S)
    <3>1. CASE last
      <4>1. T = S \cup {n + 1} /\ n + 1 \notin S
        BY <1>1, <3>1
      <4> HIDE DEF S, T
      <4> QED
        BY <4>1, <2>2, <3>1, FS_AddElement
    <3>2. CASE ~last
      <4>1. T = S
        BY <1>1, <3>2
      <4> QED
        BY <4>1, <3>2
    <3> QED
      BY <3>1, <3>2
  <2> HIDE DEF S, T
  <2>4. before \in BOOLEAN /\ all \in BOOLEAN
    BY <2>1
  <2>5. all = (before # last)
    <3>1. \A x \in Nat : ((x + 1) % 2 = 1) <=> ~(x % 2 = 1)
      OBVIOUS
    <3>2. CASE last
      <4>1. all = (before = FALSE)
        BY <3>1, <3>2, <2>1, <2>2, <2>3
      <4> QED
        BY <3>2, <4>1, <2>4
    <3>3. CASE ~last
      <4>1. all = before
        BY <3>3, <2>1, <2>3
      <4> QED
        BY <3>3, <4>1, <2>4
    <3> QED
      BY <3>2, <3>3
  <2> HIDE DEF before, all, last
  <2>6. Apply("xor", name, <<before, last>>, env) = (before # last)
    BY <2>4, ExclusiveOfTwo DEF last
  <2> QED
    BY <2>4, <2>5, <2>6, <1>5 DEF before, all, last
<1> QED
  BY <1>3, <1>4, <1>5 DEF Boole

-----------------------------------------------------------------------------
(* Lowering.                                                               *)

\* What lowering nodes gave has a node whose value is v.
Gives(r, nodes, v, env) ==
    /\ r \in Results /\ Grounded(r.nodes) /\ Extends(r.nodes, nodes)
    /\ r.id # 0 => r.id \in DOMAIN r.nodes /\ Evaluate(r.nodes, env)[r.id] = v /\ v \in BOOLEAN

Lowerings == [Seq(Nodes) -> Results]

IsLowering(part, v, env) ==
    part \in Lowerings /\ \A nodes : Grounded(nodes) => Gives(part[nodes], nodes, v, env)

\* The values of some nodes of a graph.
Taken(nodes, inputs, env) == [k \in DOMAIN inputs |-> Evaluate(nodes, env)[inputs[k]]]

\* r is a graph with a gate added to nodes, which has the value its operator
\* gives it.
Computes(r, nodes, kind, inputs, name, env) ==
    /\ r \in Results /\ Grounded(r.nodes) /\ Extends(r.nodes, nodes) /\ r.id \in DOMAIN r.nodes
    /\ Evaluate(r.nodes, env)[r.id] = Apply(kind, name, Taken(nodes, inputs, env), env)

LEMMA GateComputes ==
    \A kind \in LogicKinds, name \in Names : \A nodes, env : Grounded(nodes) =>
        \A inputs \in Seq(DOMAIN nodes) : Computes(Intern(nodes, kind, inputs, name), nodes, kind, inputs, name, env)
<1> SUFFICES ASSUME NEW kind \in LogicKinds, NEW name \in Names, NEW nodes, NEW env, Grounded(nodes),
                    NEW inputs \in Seq(DOMAIN nodes)
             PROVE  Computes(Intern(nodes, kind, inputs, name), nodes, kind, inputs, name, env)
  OBVIOUS
<1> DEFINE r == Intern(nodes, kind, inputs, name)
           v == Evaluate(nodes, env)
           w == Evaluate(r.nodes, env)
           node == Node(kind, inputs, name)
<1>1. r \in Results /\ Grounded(r.nodes) /\ Extends(r.nodes, nodes) /\ r.id \in DOMAIN r.nodes /\ r.nodes[r.id] = node
  BY InternGrounds
<1>2. node.kind = kind /\ node.inputs = inputs /\ node.name = name
  BY DEF Node
<1> HIDE DEF r, node
<1>3. w[r.id] = Apply(r.nodes[r.id].kind, r.nodes[r.id].name, [k \in DOMAIN r.nodes[r.id].inputs |-> w[r.nodes[r.id].inputs[k]]], env)
  BY <1>1, EvaluateApplies
<1>4. \A i \in DOMAIN nodes : w[i] = v[i]
  BY <1>1, ValuesStay
<1> HIDE DEF v, w
<1>5. [k \in DOMAIN inputs |-> w[inputs[k]]] = [k \in DOMAIN inputs |-> v[inputs[k]]]
  <2>1. \A k \in DOMAIN inputs : inputs[k] \in DOMAIN nodes
    OBVIOUS
  <2> QED
    BY <2>1, <1>4
<1>6. w[r.id] = Apply(kind, name, [k \in DOMAIN inputs |-> w[inputs[k]]], env)
  BY <1>1, <1>2, <1>3
<1> QED
  BY <1>1, <1>5, <1>6 DEF r, v, w, Taken, Computes

LEMMA NoNameIsAName == NoName \in Names
BY DEF Names

LEMMA GateTyped ==
    ASSUME NEW kind \in LogicKinds, NEW left \in Results, NEW right \in Results
    PROVE  LowerGate(kind, left, right) \in Results
<1>1. CASE left.id = 0 \/ right.id = 0
  BY <1>1 DEF LowerGate, Results
<1>2. CASE ~(left.id = 0 \/ right.id = 0)
  <2>1. right.nodes \in Seq(Nodes) /\ <<left.id, right.id>> \in Seq(Nat)
    BY TwoAreASequence DEF Results
  <2>2. LowerGate(kind, left, right) = Intern(right.nodes, kind, <<left.id, right.id>>, NoName)
    BY <1>2 DEF LowerGate
  <2>3. Intern(right.nodes, kind, <<left.id, right.id>>, NoName) \in Results
    <3>1. NoName \in Names
      BY NoNameIsAName
    <3> QED
      BY <2>1, <3>1, InternTyped
  <2> QED
    BY <2>2, <2>3
<1> QED
  BY <1>1, <1>2

LEMMA NotTyped ==
    ASSUME NEW value \in Results
    PROVE  LowerNot(value) \in Results
<1>1. CASE value.id = 0
  BY <1>1 DEF LowerNot
<1>2. CASE value.id # 0
  <2>1. value.nodes \in Seq(Nodes) /\ <<value.id>> \in Seq(Nat) /\ "not" \in LogicKinds
    BY DEF Results, LogicKinds
  <2>2. LowerNot(value) = Intern(value.nodes, "not", <<value.id>>, NoName)
    BY <1>2 DEF LowerNot
  <2>3. Intern(value.nodes, "not", <<value.id>>, NoName) \in Results
    BY <2>1, NoNameIsAName, InternTyped
  <2> QED
    BY <2>2, <2>3
<1> QED
  BY <1>1, <1>2

LEMMA GateGives ==
    ASSUME NEW kind \in Boole \cup {"nand"}, NEW nodes, Grounded(nodes), NEW env, NEW a, NEW b,
           NEW left, Gives(left, nodes, a, env), NEW right, Gives(right, left.nodes, b, env)
    PROVE  Gives(LowerGate(kind, left, right), nodes, Apply(kind, NoName, <<a, b>>, env), env)
<1> DEFINE r == LowerGate(kind, left, right)
<1>1. /\ left \in Results /\ Grounded(left.nodes) /\ Extends(left.nodes, nodes)
      /\ right \in Results /\ Grounded(right.nodes) /\ Extends(right.nodes, left.nodes)
  BY DEF Gives
<1>2. Extends(right.nodes, nodes)
  BY <1>1, ExtendsOn DEF Grounded
<1>3. kind \in LogicKinds
  BY DEF Boole, LogicKinds
<1>4. CASE left.id = 0 \/ right.id = 0
  <2>1. r = [right EXCEPT !.id = 0]
    BY <1>4 DEF LowerGate
  <2>2. r \in Results /\ r.nodes = right.nodes /\ r.id = 0
    BY <2>1, <1>1 DEF Results
  <2> QED
    BY <2>2, <1>1, <1>2 DEF Gives
<1>5. CASE left.id # 0 /\ right.id # 0
  <2> DEFINE inputs == <<left.id, right.id>>
             v == Evaluate(right.nodes, env)
  <2>1. r = Intern(right.nodes, kind, inputs, NoName)
    BY <1>5 DEF LowerGate
  <2>2. left.id \in DOMAIN left.nodes /\ right.id \in DOMAIN right.nodes /\ a \in BOOLEAN /\ b \in BOOLEAN
    BY <1>5 DEF Gives
  <2>3. DOMAIN left.nodes \subseteq DOMAIN right.nodes
    BY <1>1 DEF Extends, Grounded
  <2>4. inputs \in Seq(DOMAIN right.nodes) /\ DOMAIN inputs = {1, 2} /\ inputs[1] = left.id /\ inputs[2] = right.id
    <3>1. left.id \in DOMAIN right.nodes /\ right.id \in DOMAIN right.nodes
      BY <2>2, <2>3
    <3> QED
      BY <3>1, TwoAreASequence
  <2>5. v[left.id] = a /\ v[right.id] = b
    BY <1>1, <1>5, <2>2, ValuesStay DEF Gives
  <2> HIDE DEF inputs, v
  <2>6. [k \in DOMAIN inputs |-> v[inputs[k]]] = <<a, b>>
    BY <2>4, <2>5
  <2>7. /\ r \in Results /\ Grounded(r.nodes) /\ Extends(r.nodes, right.nodes) /\ r.id \in DOMAIN r.nodes
        /\ Evaluate(r.nodes, env)[r.id] = Apply(kind, NoName, <<a, b>>, env)
    <3> DEFINE s == Intern(right.nodes, kind, inputs, NoName)
    <3>1. NoName \in Names /\ inputs \in Seq(DOMAIN right.nodes) /\ Grounded(right.nodes)
      BY <1>1, <2>4, NoNameIsAName
    <3>2. Computes(s, right.nodes, kind, inputs, NoName, env)
      <4> HIDE DEF inputs
      <4> QED
        BY <1>3, <3>1, GateComputes
    <3>3. Taken(right.nodes, inputs, env) = <<a, b>>
      BY <2>6 DEF v, Taken
    <3> HIDE DEF s, r
    <3>4. s = r
      BY <2>1 DEF s, r
    <3> QED
      BY <3>2, <3>3, <3>4 DEF Computes
  <2>8. Extends(r.nodes, nodes)
    BY <1>1, <1>2, <2>7, ExtendsOn DEF Grounded
  <2>9. Apply(kind, NoName, <<a, b>>, env) \in BOOLEAN
    <3>1. CASE kind = "and"
      BY <3>1 DEF Apply
    <3>2. CASE kind = "or"
      BY <3>2 DEF Apply
    <3>3. CASE kind = "nand"
      BY <3>3 DEF Apply
    <3>4. CASE kind = "xor"
      <4>1. Apply("xor", NoName, <<a, b>>, env) = (a # b)
        BY <2>2, ExclusiveOfTwo
      <4> QED
        BY <3>4, <4>1
    <3> QED
      BY <3>1, <3>2, <3>3, <3>4 DEF Boole
  <2> QED
    BY <2>7, <2>8, <2>9 DEF Gives
<1> QED
  BY <1>4, <1>5

LEMMA NotGives ==
    ASSUME NEW nodes, NEW env, NEW a, NEW value, Gives(value, nodes, a, env), Grounded(nodes)
    PROVE  Gives(LowerNot(value), nodes, ~a, env)
<1> DEFINE r == LowerNot(value)
<1>1. value \in Results /\ Grounded(value.nodes) /\ Extends(value.nodes, nodes)
  BY DEF Gives
<1>2. CASE value.id = 0
  <2>1. r = value
    BY <1>2 DEF LowerNot
  <2> QED
    BY <2>1, <1>1, <1>2 DEF Gives
<1>3. CASE value.id # 0
  <2> DEFINE inputs == <<value.id>>
             v == Evaluate(value.nodes, env)
  <2>1. r = Intern(value.nodes, "not", inputs, NoName)
    BY <1>3 DEF LowerNot
  <2>2. value.id \in DOMAIN value.nodes /\ v[value.id] = a /\ a \in BOOLEAN
    BY <1>3 DEF Gives
  <2>3. inputs \in Seq(DOMAIN value.nodes) /\ DOMAIN inputs = {1} /\ inputs[1] = value.id
    BY <2>2, OneIsASequence
  <2> HIDE DEF inputs, v
  <2>4. Taken(value.nodes, inputs, env) = [k \in {1} |-> a]
    BY <2>2, <2>3 DEF v, Taken
  <2>5. /\ r \in Results /\ Grounded(r.nodes) /\ Extends(r.nodes, value.nodes) /\ r.id \in DOMAIN r.nodes
        /\ Evaluate(r.nodes, env)[r.id] = Apply("not", NoName, [k \in {1} |-> a], env)
    <3>1. "not" \in LogicKinds /\ NoName \in Names
      BY NoNameIsAName DEF LogicKinds
    <3>2. Computes(Intern(value.nodes, "not", inputs, NoName), value.nodes, "not", inputs, NoName, env)
      BY <1>1, <3>1, <2>3, GateComputes
    <3>3. Computes(r, value.nodes, "not", inputs, NoName, env)
      BY <2>1, <3>2
    <3> HIDE DEF r
    <3> QED
      BY <3>3, <2>4 DEF Computes
  <2>6. Apply("not", NoName, [k \in {1} |-> a], env) = ~a
    BY DEF Apply
  <2>7. Extends(r.nodes, nodes)
    BY <1>1, <2>5, ExtendsOn DEF Grounded
  <2> QED
    BY <2>5, <2>6, <2>7 DEF Gives
<1> QED
  BY <1>2, <1>3

\* A chain of gates for the parts of an operator, from the first one on.
Chained(c, parts, nodes, kind) ==
    /\ c \in [DOMAIN parts -> Results] /\ c[1] = parts[1][nodes]
    /\ \A i \in DOMAIN parts \ {1} : c[i] = LowerGate(kind, c[i - 1], parts[i][c[i - 1].nodes])

LEMMA OperatorChains ==
    ASSUME NEW kind \in LogicKinds, NEW parts \in Seq(Lowerings), parts # <<>>, NEW nodes \in Seq(Nodes)
    PROVE  \E c : Chained(c, parts, nodes, kind) /\ LowerOperator(parts, nodes, kind) = c[Len(parts)]
<1> DEFINE n == Len(parts)
           with(i, left) == LowerGate(kind, left, parts[i][left.nodes])
           link(h, i) == IF i = 1 THEN parts[1][nodes] ELSE with(i, h[i - 1])
           step == [m \in 1..(n - 1) |-> [left \in Results |-> with(m + 1, left)]]
           start == parts[1][nodes]
<1>1. n \in Nat /\ n >= 1 /\ DOMAIN parts = 1..n /\ n - 1 \in Nat /\ 1 \in DOMAIN parts /\ n \in DOMAIN parts
  OBVIOUS
<1>2. \A i \in DOMAIN parts : \A left \in Results : with(i, left) \in Results
  <2> SUFFICES ASSUME NEW i \in DOMAIN parts, NEW left \in Results
               PROVE  with(i, left) \in Results
    OBVIOUS
  <2>1. parts[i] \in Lowerings /\ left.nodes \in Seq(Nodes)
    BY DEF Results
  <2>2. parts[i][left.nodes] \in Results
    BY <2>1 DEF Lowerings
  <2> QED
    BY <2>2, GateTyped
<1>3. start \in Results
  <2>1. parts[1] \in Lowerings
    BY <1>1
  <2> QED
    BY <2>1 DEF Lowerings
<1> HIDE DEF with, start, n
<1>4. \A m \in 1..(n - 1) : step[m] \in [Results -> Results]
  <2>1. \A m \in 1..(n - 1) : m + 1 \in DOMAIN parts
    BY <1>1
  <2> QED
    BY <2>1, <1>2
<1> HIDE DEF step
<1>5. PICK f : StepsUp(f, n - 1, start, step)
  BY <1>1, <1>3, <1>4, StepsAreDefined
<1>6. f \in [0..(n - 1) -> Results]
  BY <1>1, <1>3, <1>4, <1>5, StepsStay
<1> DEFINE g == [i \in DOMAIN parts |-> f[i - 1]]
<1>7. f[0] = start /\ \A i \in 2..n : f[i - 1] = with(i, f[i - 2])
  <2>1. f = [m \in 0..(n - 1) |-> IF m = 0 THEN start ELSE step[m][f[m - 1]]]
    BY <1>5 DEF StepsUp
  <2>2. 0 \in 0..(n - 1)
    BY <1>1
  <2>3. f[0] = start
    BY <2>1, <2>2
  <2>4. ASSUME NEW i \in 2..n PROVE f[i - 1] = with(i, f[i - 2])
    <3>1. i - 1 \in 0..(n - 1) /\ i - 1 # 0 /\ i - 1 \in 1..(n - 1) /\ (i - 1) - 1 = i - 2 /\ i - 2 \in 0..(n - 1) /\ (i - 1) + 1 = i
      BY <1>1
    <3>2. f[i - 1] = step[i - 1][f[(i - 1) - 1]]
      BY <2>1, <3>1
    <3>3. f[i - 2] \in Results
      BY <3>1, <1>6
    <3>4. step[i - 1] = [left \in Results |-> with((i - 1) + 1, left)]
      BY <3>1 DEF step
    <3> QED
      BY <3>1, <3>2, <3>3, <3>4
  <2> QED
    BY <2>3, <2>4
<1>8. \A i \in DOMAIN parts : g[i] = link(g, i)
  <2> SUFFICES ASSUME NEW i \in DOMAIN parts
               PROVE  g[i] = link(g, i)
    OBVIOUS
  <2>1. CASE i = 1
    BY <2>1, <1>7 DEF start
  <2>2. CASE i # 1
    <3>1. i \in 2..n /\ i - 1 \in DOMAIN parts /\ (i - 1) - 1 = i - 2
      BY <1>1, <2>2
    <3>2. g[i - 1] = f[i - 2] /\ g[i] = f[i - 1]
      BY <3>1
    <3> HIDE DEF g
    <3>3. link(g, i) = with(i, g[i - 1])
      BY <2>2
    <3> QED
      BY <3>1, <3>2, <3>3, <1>7
  <2> QED
    BY <2>1, <2>2
<1>9. g = [i \in DOMAIN parts |-> link(g, i)]
  <2>1. g = [i \in DOMAIN parts |-> g[i]]
    OBVIOUS
  <2> HIDE DEF g, link
  <2> QED
    BY <1>8, <2>1
<1> DEFINE c == CHOOSE h : h = [i \in DOMAIN parts |-> link(h, i)]
<1>10. c = [i \in DOMAIN parts |-> link(c, i)]
  <2> HIDE DEF g, link
  <2> QED
    BY <1>9
<1>11. LowerOperator(parts, nodes, kind) = c[Len(parts)]
  BY DEF LowerOperator, with
<1> HIDE DEF c
<1>12. c[1] = parts[1][nodes] /\ \A i \in DOMAIN parts \ {1} : c[i] = with(i, c[i - 1])
  <2>1. \A i \in DOMAIN parts : c[i] = link(c, i)
    <3> HIDE DEF link
    <3> QED
      BY <1>10
  <2> QED
    BY <2>1, <1>1
<1>13. c \in [DOMAIN parts -> Results]
  <2> DEFINE S == {m \in 0..n : \A i \in 1..m : c[i] \in Results}
  <2>1. 0 \in S
    BY <1>1
  <2>2. \A m \in 0..n : m \in S /\ m < n => m + 1 \in S
    <3> SUFFICES ASSUME NEW m \in 0..n, m \in S, m < n
                 PROVE  m + 1 \in S
      OBVIOUS
    <3>1. m + 1 \in DOMAIN parts /\ m + 1 \in 0..n /\ (m + 1) - 1 = m /\ (m + 1 # 1 => m \in 1..m)
          /\ \A i \in 1..(m + 1) : i \in 1..m \/ i = m + 1
      BY <1>1
    <3>2. c[m + 1] \in Results
      <4>1. CASE m + 1 = 1
        BY <4>1, <1>12, <1>3 DEF start
      <4>2. CASE m + 1 # 1
        <5>1. c[m] \in Results
          BY <3>1, <4>2
        <5>2. c[m + 1] = with(m + 1, c[(m + 1) - 1])
          BY <1>12, <3>1, <4>2
        <5>3. with(m + 1, c[m]) \in Results
          BY <5>1, <3>1, <1>2
        <5> QED
          BY <5>2, <5>3, <3>1
      <4> QED
        BY <4>1, <4>2
    <3> QED
      BY <3>1, <3>2
  <2>3. 0..n \subseteq S
    <3> HIDE DEF S
    <3> QED
      BY <1>1, <2>1, <2>2, CountingUp
  <2>4. n \in S
    BY <2>3, <1>1
  <2>5. \A i \in DOMAIN parts : c[i] \in Results
    BY <2>4, <1>1
  <2>6. c = [i \in DOMAIN parts |-> c[i]]
    <3> HIDE DEF link
    <3> QED
      BY <1>10
  <2> QED
    BY <2>5, <2>6
<1> QED
  BY <1>11, <1>12, <1>13 DEF Chained, with

\* A chain of gates has the value of the operator.
LEMMA ChainGives ==
    ASSUME NEW kind \in Boole, NEW parts \in Seq(Lowerings), parts # <<>>, NEW env,
           NEW values, \A i \in DOMAIN parts : values[i] \in BOOLEAN /\ IsLowering(parts[i], values[i], env),
           NEW nodes, Grounded(nodes)
    PROVE  Gives(LowerOperator(parts, nodes, kind), nodes, Apply(kind, NoName, [i \in 1..Len(parts) |-> values[i]], env), env)
<1> DEFINE n == Len(parts)
           upto(m) == Apply(kind, NoName, [i \in 1..m |-> values[i]], env)
<1>1. n \in Nat /\ n >= 1 /\ DOMAIN parts = 1..n /\ 1 \in DOMAIN parts /\ n \in DOMAIN parts
  OBVIOUS
<1>2. kind \in LogicKinds /\ nodes \in Seq(Nodes)
  BY DEF Boole, LogicKinds, Grounded
<1>3. PICK c : Chained(c, parts, nodes, kind) /\ LowerOperator(parts, nodes, kind) = c[n]
  BY <1>2, OperatorChains
<1> DEFINE S == {m \in 0..n : m # 0 => Gives(c[m], nodes, upto(m), env)}
<1> HIDE DEF n, upto
<1>4. 0 \in S
  BY <1>1
<1>5. \A m \in 0..n : m \in S /\ m < n => m + 1 \in S
  <2> SUFFICES ASSUME NEW m \in 0..n, m \in S, m < n
               PROVE  Gives(c[m + 1], nodes, upto(m + 1), env) /\ m + 1 \in 0..n
    OBVIOUS
  <2>1. m + 1 \in DOMAIN parts /\ m + 1 \in 0..n /\ (m + 1) - 1 = m /\ m \in Nat
    BY <1>1
  <2>2. values[m + 1] \in BOOLEAN /\ IsLowering(parts[m + 1], values[m + 1], env)
    BY <2>1
  <2>3. CASE m = 0
    <3>1. c[1] = parts[1][nodes] /\ m + 1 = 1
      BY <1>3, <2>3 DEF Chained
    <3>2. Gives(parts[1][nodes], nodes, values[1], env)
      BY <2>2, <3>1 DEF IsLowering
    <3> DEFINE one == [i \in 1..1 |-> values[i]]
    <3>3. DOMAIN one = {1} /\ one[1] = values[1]
      OBVIOUS
    <3> HIDE DEF one
    <3>4. Apply(kind, NoName, one, env) = values[1]
      BY <3>3, <3>1, <2>2, ApplyOne
    <3>5. upto(1) = values[1]
      BY <3>4 DEF upto, one
    <3> QED
      BY <3>1, <3>2, <3>5, <2>1
  <2>4. CASE m # 0
    <3>1. c[m + 1] = LowerGate(kind, c[m], parts[m + 1][c[m].nodes])
      <4>1. m + 1 \in DOMAIN parts \ {1}
        BY <2>1, <2>4
      <4>2. c[m + 1] = LowerGate(kind, c[(m + 1) - 1], parts[m + 1][c[(m + 1) - 1].nodes])
        BY <4>1, <1>3 DEF Chained
      <4> QED
        BY <4>2, <2>1
    <3>2. Gives(c[m], nodes, upto(m), env)
      BY <2>4
    <3>3. Gives(parts[m + 1][c[m].nodes], c[m].nodes, values[m + 1], env)
      BY <2>2, <3>2 DEF IsLowering, Gives
    <3>4. kind \in Boole \cup {"nand"}
      OBVIOUS
    <3>5. Gives(c[m + 1], nodes, Apply(kind, NoName, <<upto(m), values[m + 1]>>, env), env)
      BY <3>1, <3>2, <3>3, <3>4, GateGives
    <3>6. Apply(kind, NoName, <<upto(m), values[m + 1]>>, env) = upto(m + 1)
      <4> HIDE DEF S
      <4>1. LET before == Apply(kind, NoName, [j \in 1..m |-> values[j]], env)
                all == Apply(kind, NoName, [j \in 1..(m + 1) |-> values[j]], env)
            IN  Apply(kind, NoName, <<before, values[m + 1]>>, env) = all
        BY <2>1, <2>2, ApplyOneMore
      <4> QED
        BY <4>1 DEF upto
    <3> QED
      BY <3>5, <3>6, <2>1
  <2> QED
    BY <2>3, <2>4
<1>6. 0..n \subseteq S
  <2> HIDE DEF S
  <2> QED
    BY <1>1, <1>4, <1>5, CountingUp
<1>7. Gives(c[n], nodes, upto(n), env)
  <2>1. n \in S /\ n # 0
    BY <1>6, <1>1
  <2> QED
    BY <2>1
<1> QED
  BY <1>3, <1>7 DEF n, upto

-----------------------------------------------------------------------------
(* Expressions, level by level.                                            *)

Trees(arguments) == [op : Operators, name : Names, args : arguments]
TreesOver(A) == Trees(Seq(A))

LEMMA TreesOverMore ==
    ASSUME NEW A, NEW B, A \subseteq B
    PROVE  TreesOver(A) \subseteq TreesOver(B)
<1>1. Seq(A) \subseteq Seq(B)
  <2> SUFFICES ASSUME NEW s \in Seq(A)
               PROVE  s \in Seq(B)
    OBVIOUS
  <2>1. Len(s) \in Nat /\ DOMAIN s = 1..Len(s) /\ \A i \in 1..Len(s) : s[i] \in B
    OBVIOUS
  <2>2. s = [i \in 1..Len(s) |-> s[i]]
    OBVIOUS
  <2> QED
    BY <2>1, <2>2
<1>2. ASSUME NEW e \in TreesOver(A) PROVE e \in TreesOver(B)
  BY <1>1 DEF TreesOver, Trees
<1> QED
  BY <1>2

LEMMA LeavesAreAboveNothing == Seq({}) = {<<>>}
<1>1. <<>> \in Seq({})
  OBVIOUS
<1>2. ASSUME NEW s \in Seq({}) PROVE s = <<>>
  <2>1. Len(s) \in Nat /\ \A i \in 1..Len(s) : s[i] \in {}
    OBVIOUS
  <2>2. Len(s) = 0
    BY <2>1
  <2> QED
    BY <2>2
<1> QED
  BY <1>1, <1>2

LEMMA ExprsAreLevels == Exprs = TreesOver(TreesOver(TreesOver(TreesOver({}))))
<1> DEFINE level(h, d) == [op : Operators, name : Names, args : IF d = 0 THEN {<<>>} ELSE Seq(h[d - 1])]
           g == [d \in 0..ExprDepth |-> IF d = 0 THEN TreesOver({}) ELSE IF d = 1 THEN TreesOver(TreesOver({}))
                                        ELSE IF d = 2 THEN TreesOver(TreesOver(TreesOver({}))) ELSE TreesOver(TreesOver(TreesOver(TreesOver({}))))]
           deep == CHOOSE h : h = [d \in 0..ExprDepth |-> level(h, d)]
<1>1. 0..ExprDepth = {0, 1, 2, 3} /\ ExprDepth = 3
  BY DEF ExprDepth
<1>8. \A h : level(h, 0) = TreesOver({}) /\ level(h, 1) = TreesOver(h[0]) /\ level(h, 2) = TreesOver(h[1]) /\ level(h, 3) = TreesOver(h[2])
  <2> SUFFICES ASSUME NEW h
               PROVE  level(h, 0) = TreesOver({}) /\ level(h, 1) = TreesOver(h[0]) /\ level(h, 2) = TreesOver(h[1])
                      /\ level(h, 3) = TreesOver(h[2])
    OBVIOUS
  <2>1. level(h, 0) = TreesOver({})
    BY LeavesAreAboveNothing DEF TreesOver, Trees
  <2>2. \A d : d # 0 => level(h, d) = TreesOver(h[d - 1])
    BY DEF TreesOver, Trees
  <2> HIDE DEF level
  <2>3. 1 - 1 = 0 /\ 2 - 1 = 1 /\ 3 - 1 = 2 /\ 1 # 0 /\ 2 # 0 /\ 3 # 0
    OBVIOUS
  <2>4. level(h, 1) = TreesOver(h[1 - 1]) /\ level(h, 2) = TreesOver(h[2 - 1]) /\ level(h, 3) = TreesOver(h[3 - 1])
    BY <2>2, <2>3
  <2> QED
    BY <2>1, <2>3, <2>4
<1>2. \A d \in 0..ExprDepth : g[d] = level(g, d)
  <2>1. g[0] = TreesOver({}) /\ g[1] = TreesOver(g[0]) /\ g[2] = TreesOver(g[1]) /\ g[3] = TreesOver(g[2])
    BY <1>1
  <2> HIDE DEF g
  <2> HIDE DEF level
  <2> QED
    BY <1>1, <1>8, <2>1
<1>3. g = [d \in 0..ExprDepth |-> level(g, d)]
  <2>1. g = [d \in 0..ExprDepth |-> g[d]]
    OBVIOUS
  <2> HIDE DEF g, level
  <2> QED
    BY <1>2, <2>1
<1>4. deep = [d \in 0..ExprDepth |-> level(deep, d)]
  <2> HIDE DEF g, level
  <2> QED
    BY <1>3
<1>5. Exprs = deep[ExprDepth]
  BY DEF Exprs
<1> HIDE DEF deep
<1>6. \A d \in 0..ExprDepth : deep[d] = level(deep, d)
  <2> HIDE DEF level
  <2> QED
    BY <1>4
<1>7. deep[0] = TreesOver({}) /\ deep[1] = TreesOver(deep[0]) /\ deep[2] = TreesOver(deep[1]) /\ deep[3] = TreesOver(deep[2])
  <2>1. deep[0] = level(deep, 0) /\ deep[1] = level(deep, 1) /\ deep[2] = level(deep, 2) /\ deep[3] = level(deep, 3)
    <3> HIDE DEF level
    <3> QED
      BY <1>1, <1>6
  <2> HIDE DEF level
  <2> QED
    BY <1>8, <2>1
<1> QED
  BY <1>1, <1>5, <1>7

LEMMA ExprParts ==
    \A e \in Exprs : /\ e.args \in Seq(Exprs) /\ e.op \in Operators /\ e.name \in Names
                     /\ DOMAIN e.args = 1..Len(e.args) /\ \A i \in DOMAIN e.args : e.args[i] \in Exprs
<1>1. TreesOver({}) \subseteq TreesOver(TreesOver({}))
  BY TreesOverMore
<1>2. TreesOver(TreesOver({})) \subseteq TreesOver(TreesOver(TreesOver({})))
  BY <1>1, TreesOverMore
<1>3. TreesOver(TreesOver(TreesOver({}))) \subseteq Exprs
  BY <1>2, TreesOverMore, ExprsAreLevels
<1>4. Exprs \subseteq TreesOver(Exprs)
  BY <1>3, TreesOverMore, ExprsAreLevels
<1>5. \A e \in TreesOver(Exprs) : e.args \in Seq(Exprs) /\ e.op \in Operators /\ e.name \in Names
  BY DEF TreesOver, Trees
<1> SUFFICES ASSUME NEW e \in Exprs
             PROVE  /\ e.args \in Seq(Exprs) /\ e.op \in Operators /\ e.name \in Names
                    /\ DOMAIN e.args = 1..Len(e.args) /\ \A i \in DOMAIN e.args : e.args[i] \in Exprs
  OBVIOUS
<1>6. e.args \in Seq(Exprs) /\ e.op \in Operators /\ e.name \in Names
  BY <1>4, <1>5
<1> QED
  BY <1>6

\* What holds of an expression when it holds of its arguments holds of all.
LEMMA ExprsInduction ==
    ASSUME NEW S, \A e \in Exprs : (\A i \in DOMAIN e.args : e.args[i] \in S) => e \in S
    PROVE  Exprs \subseteq S
<1>1. ASSUME NEW A, A \subseteq S, TreesOver(A) \subseteq Exprs PROVE TreesOver(A) \subseteq S
  <2> SUFFICES ASSUME NEW e \in TreesOver(A)
               PROVE  e \in S
    OBVIOUS
  <2>1. e.args \in Seq(A)
    BY DEF TreesOver, Trees
  <2>2. \A i \in DOMAIN e.args : e.args[i] \in S
    BY <2>1, <1>1
  <2> QED
    BY <2>2, <1>1
<1> DEFINE a == TreesOver({})
           b == TreesOver(a)
           c == TreesOver(b)
<1>2. Exprs = TreesOver(c)
  BY ExprsAreLevels
<1>3. a \subseteq b
  BY TreesOverMore
<1>4. b \subseteq c
  BY <1>3, TreesOverMore
<1>5. c \subseteq Exprs
  BY <1>2, <1>4, TreesOverMore
<1>6. a \subseteq S
  BY <1>1, <1>3, <1>4, <1>5
<1> HIDE DEF a
<1>7. b \subseteq S
  BY <1>1, <1>6, <1>4, <1>5
<1> HIDE DEF b
<1>8. c \subseteq S
  BY <1>1, <1>7, <1>5
<1> HIDE DEF c
<1> QED
  BY <1>1, <1>8, <1>2

\* f makes a value of each of the expressions A from those of its arguments.
MadeOf(f, A, T, combine) ==
    /\ A \subseteq TreesOver(A) /\ f \in [A -> T]
    /\ \A e \in A : f[e] = combine[e][[i \in DOMAIN e.args |-> f[e.args[i]]]]

LEMMA OneLevelMore ==
    ASSUME NEW T, NEW combine, NEW A, NEW f, MadeOf(f, A, T, combine),
           \A e \in TreesOver(A) : combine[e] \in [[DOMAIN e.args -> T] -> T]
    PROVE  \E g : MadeOf(g, TreesOver(A), T, combine)
<1> DEFINE made(h, e) == combine[e][[i \in DOMAIN e.args |-> h[e.args[i]]]]
           g == [e \in TreesOver(A) |-> made(f, e)]
<1>1. A \subseteq TreesOver(A) /\ f \in [A -> T] /\ \A e \in A : f[e] = made(f, e)
  BY DEF MadeOf
<1>2. TreesOver(A) \subseteq TreesOver(TreesOver(A))
  BY <1>1, TreesOverMore
<1>3. \A e \in TreesOver(A) : \A i \in DOMAIN e.args : e.args[i] \in A
  BY DEF TreesOver, Trees
<1>4. \A e \in TreesOver(A) : made(f, e) \in T
  <2> SUFFICES ASSUME NEW e \in TreesOver(A)
               PROVE  made(f, e) \in T
    OBVIOUS
  <2>1. [i \in DOMAIN e.args |-> f[e.args[i]]] \in [DOMAIN e.args -> T]
    BY <1>1, <1>3
  <2> QED
    BY <2>1
<1>5. g \in [TreesOver(A) -> T]
  <2> HIDE DEF made
  <2> QED
    BY <1>4
<1>6. \A e \in A : g[e] = f[e]
  <2> HIDE DEF made
  <2> QED
    BY <1>1
<1>7. \A e \in TreesOver(A) : g[e] = made(g, e)
  <2> SUFFICES ASSUME NEW e \in TreesOver(A)
               PROVE  g[e] = made(g, e)
    OBVIOUS
  <2>1. g[e] = made(f, e)
    <3> HIDE DEF made
    <3> QED
      OBVIOUS
  <2> HIDE DEF g
  <2>2. [i \in DOMAIN e.args |-> f[e.args[i]]] = [i \in DOMAIN e.args |-> g[e.args[i]]]
    BY <1>3, <1>6
  <2> QED
    BY <2>1, <2>2
<1> HIDE DEF g
<1>8. MadeOf(g, TreesOver(A), T, combine)
  BY <1>2, <1>5, <1>7 DEF MadeOf
<1> QED
  BY <1>8

\* A function that is given for every expression by its values for the
\* arguments is there.
LEMMA ValuesOfTreesExist ==
    ASSUME NEW T, NEW combine, \A e \in Exprs : combine[e] \in [[DOMAIN e.args -> T] -> T]
    PROVE  \E f : MadeOf(f, Exprs, T, combine)
<1> DEFINE a == TreesOver({})
           b == TreesOver(a)
           c == TreesOver(b)
<1>2. Exprs = TreesOver(c)
  BY ExprsAreLevels
<1>3. a \subseteq b
  BY TreesOverMore
<1>4. b \subseteq c
  BY <1>3, TreesOverMore
<1>5. c \subseteq Exprs
  BY <1>2, <1>4, TreesOverMore
<1>6. MadeOf([e \in {} |-> e], {}, T, combine)
  BY DEF MadeOf
<1>7. PICK f0 : MadeOf(f0, a, T, combine)
  BY <1>6, <1>3, <1>4, <1>5, OneLevelMore
<1> HIDE DEF a
<1>8. PICK f1 : MadeOf(f1, b, T, combine)
  BY <1>7, <1>4, <1>5, OneLevelMore
<1> HIDE DEF b
<1>9. PICK f2 : MadeOf(f2, c, T, combine)
  BY <1>8, <1>5, OneLevelMore
<1> HIDE DEF c
<1>10. \E f : MadeOf(f, TreesOver(c), T, combine)
  BY <1>9, <1>2, OneLevelMore
<1> QED
  BY <1>10, <1>2

-----------------------------------------------------------------------------
(* Lowering an expression.                                                 *)

\* env has a value for every variable of the expressions E, which are there
\* with their arguments.
Sound(E, env) ==
    /\ E \subseteq Exprs
    /\ \A e \in E : /\ \A i \in DOMAIN e.args : e.args[i] \in E
                    /\ e.op = "var" => env[e.name] \in BOOLEAN

LEMMA ApplyIsBoolean ==
    ASSUME NEW op \in Operators, NEW name, NEW values, NEW env, op = "var" => env[name] \in BOOLEAN
    PROVE  Apply(op, name, values, env) \in BOOLEAN
<1>1. CASE op = "var"
  BY <1>1 DEF Apply
<1>2. CASE op \in {"true", "false"}
  BY <1>2 DEF Apply
<1>3. CASE op \in {"not", "and", "or", "nand"}
  BY <1>3 DEF Apply
<1>4. CASE op = "xor"
  BY <1>4 DEF Apply
<1> QED
  BY <1>1, <1>2, <1>3, <1>4 DEF Operators

\* The value of an expression is what its operator makes of its arguments'.
LEMMA ExprApplies ==
    ASSUME NEW env
    PROVE  \A e \in Exprs :
               EvaluateExpr(e, env) = Apply(e.op, e.name, [i \in DOMAIN e.args |-> EvaluateExpr(e.args[i], env)], env)
<1> DEFINE of(h, e) == Apply(e.op, e.name, [i \in DOMAIN e.args |-> h[e.args[i]]], env)
           T == BOOLEAN \cup {env[n] : n \in Names}
           combine == [e \in Exprs |-> [values \in [DOMAIN e.args -> T] |-> Apply(e.op, e.name, values, env)]]
           value == CHOOSE h : h = [e \in Exprs |-> of(h, e)]
<1>0. \A e \in Exprs : \A values : Apply(e.op, e.name, values, env) \in T
  <2> SUFFICES ASSUME NEW e \in Exprs, NEW values
               PROVE  Apply(e.op, e.name, values, env) \in T
    OBVIOUS
  <2>1. e.op \in Operators /\ e.name \in Names
    BY ExprParts
  <2>2. CASE e.op = "var"
    <3>1. Apply(e.op, e.name, values, env) = env[e.name]
      BY <2>2 DEF Apply
    <3> QED
      BY <2>1, <3>1
  <2>3. CASE e.op # "var"
    BY <2>1, <2>3, ApplyIsBoolean
  <2> QED
    BY <2>2, <2>3
<1> HIDE DEF T
<1>1. \A e \in Exprs : combine[e] \in [[DOMAIN e.args -> T] -> T]
  BY <1>0
<1>2. PICK f : MadeOf(f, Exprs, T, combine)
  <2> HIDE DEF combine
  <2> QED
    BY <1>1, ValuesOfTreesExist
<1>3. f \in [Exprs -> T] /\ \A e \in Exprs : f[e] = of(f, e)
  <2>1. f \in [Exprs -> T] /\ \A e \in Exprs : f[e] = combine[e][[i \in DOMAIN e.args |-> f[e.args[i]]]]
    BY <1>2 DEF MadeOf
  <2>2. ASSUME NEW e \in Exprs PROVE f[e] = of(f, e)
    <3>1. [i \in DOMAIN e.args |-> f[e.args[i]]] \in [DOMAIN e.args -> T]
      BY <2>1, ExprParts
    <3> QED
      BY <3>1, <2>1
  <2> QED
    BY <2>1, <2>2
<1>4. f = [e \in Exprs |-> of(f, e)]
  <2>1. f = [e \in Exprs |-> f[e]]
    BY <1>3
  <2> HIDE DEF of
  <2> QED
    BY <1>3, <2>1
<1>5. value = [e \in Exprs |-> of(value, e)]
  <2> HIDE DEF of
  <2> QED
    BY <1>4
<1>6. \A e : EvaluateExpr(e, env) = value[e]
  BY DEF EvaluateExpr
<1> HIDE DEF value
<1>7. \A e \in Exprs : value[e] = of(value, e)
  <2> HIDE DEF of
  <2> QED
    BY <1>5
<1> TAKE e \in Exprs
<1>9. of(value, e) = Apply(e.op, e.name, [i \in DOMAIN e.args |-> EvaluateExpr(e.args[i], env)], env)
  BY <1>6
<1> HIDE DEF of
<1> QED
  BY <1>6, <1>7, <1>9

LEMMA ExprIsBoolean ==
    ASSUME NEW E, NEW env, Sound(E, env), NEW e \in E
    PROVE  EvaluateExpr(e, env) \in BOOLEAN
<1>1. e \in Exprs /\ (e.op = "var" => env[e.name] \in BOOLEAN) /\ e.op \in Operators
  BY ExprParts DEF Sound
<1>2. EvaluateExpr(e, env) = Apply(e.op, e.name, [i \in DOMAIN e.args |-> EvaluateExpr(e.args[i], env)], env)
  BY <1>1, ExprApplies
<1>3. \A values : Apply(e.op, e.name, values, env) \in BOOLEAN
  BY <1>1, ApplyIsBoolean
<1> QED
  BY <1>2, <1>3

LEMMA PartsAreASequence ==
    ASSUME NEW e \in Exprs, NEW parts \in [DOMAIN e.args -> Lowerings]
    PROVE  parts \in Seq(Lowerings) /\ Len(parts) = Len(e.args) /\ DOMAIN parts = 1..Len(parts)
<1>1. Len(e.args) \in Nat /\ DOMAIN e.args = 1..Len(e.args)
  BY ExprParts
<1> QED
  BY <1>1

LEMMA LoweringIsTyped ==
    ASSUME NEW e \in Exprs, NEW parts \in [DOMAIN e.args -> Lowerings]
    PROVE  LowerBy(parts, e) \in Lowerings
<1>1. parts \in Seq(Lowerings) /\ Len(parts) = Len(e.args) /\ DOMAIN parts = 1..Len(parts)
  BY PartsAreASequence
<1>2. e.op \in Operators /\ e.name \in Names /\ Len(e.args) \in Nat /\ e.args \in Seq(Exprs)
  BY ExprParts
<1> SUFFICES ASSUME NEW nodes \in Seq(Nodes)
             PROVE  LowerBy(parts, e)[nodes] \in Results
  BY DEF LowerBy, Lowerings
<1> DEFINE r == LowerBy(parts, e)[nodes]
<1>3. CASE e.op = "var"
  <2>1. r = Intern(nodes, "input", <<>>, e.name)
    BY <1>3 DEF LowerBy
  <2>2. "input" \in LogicKinds /\ <<>> \in Seq(Nat)
    BY DEF LogicKinds
  <2>3. Intern(nodes, "input", <<>>, e.name) \in Results
    <3>1. \A name \in Names : Intern(nodes, "input", <<>>, name) \in Results
      BY <2>2, InternTyped
    <3> QED
      BY <3>1, <1>2
  <2> QED
    BY <2>1, <2>3
<1>4. CASE e.op # "var" /\ (e.op \in {"true", "false"} \/ e.args = <<>>)
  <2>1. r = [nodes |-> nodes, id |-> 0]
    BY <1>4 DEF LowerBy
  <2> QED
    BY <2>1 DEF Results
<1>5. CASE ~(e.op \in {"var", "true", "false"} \/ e.args = <<>>)
  <2>1. parts # <<>> /\ 1 \in DOMAIN parts /\ parts[1] \in Lowerings
    <3>1. Len(e.args) # 0
      BY <1>2, <1>5
    <3>2. 1 \in DOMAIN parts
      BY <3>1, <1>1, <1>2
    <3> QED
      BY <3>2, <1>1
  <2>2. \A kind \in LogicKinds : LowerOperator(parts, nodes, kind) \in Results
    <3> SUFFICES ASSUME NEW kind \in LogicKinds
                 PROVE  LowerOperator(parts, nodes, kind) \in Results
      OBVIOUS
    <3>1. PICK c : Chained(c, parts, nodes, kind) /\ LowerOperator(parts, nodes, kind) = c[Len(parts)]
      BY <1>1, <2>1, OperatorChains
    <3>2. Len(parts) \in DOMAIN parts
      BY <1>1, <2>1
    <3> QED
      BY <3>1, <3>2 DEF Chained
  <2>3. CASE e.op = "not"
    <3>1. r = LowerNot(parts[1][nodes])
      BY <1>5, <2>3 DEF LowerBy
    <3>2. parts[1][nodes] \in Results
      BY <2>1 DEF Lowerings
    <3> QED
      BY <3>1, <3>2, NotTyped
  <2>4. CASE e.op = "nand" /\ Len(e.args) # 2
    <3>1. r = LowerNot(LowerOperator(parts, nodes, "and"))
      BY <1>5, <2>4 DEF LowerBy
    <3>2. "and" \in LogicKinds
      BY DEF LogicKinds
    <3> QED
      BY <3>1, <3>2, <2>2, NotTyped
  <2>5. CASE e.op # "not" /\ ~(e.op = "nand" /\ Len(e.args) # 2)
    <3>1. r = LowerOperator(parts, nodes, e.op)
      BY <1>5, <2>5 DEF LowerBy
    <3>2. e.op \in LogicKinds
      BY <1>2, <1>5 DEF Operators, LogicKinds
    <3> QED
      BY <3>1, <3>2, <2>2
  <2> QED
    BY <2>3, <2>4, <2>5
<1> QED
  BY <1>3, <1>4, <1>5

LEMMA NamesDoNotMatter ==
    ASSUME NEW op \in {"not", "and", "or", "xor", "nand"}, NEW m, NEW n, NEW values, NEW env
    PROVE  Apply(op, m, values, env) = Apply(op, n, values, env)
<1>1. CASE op = "not"
  BY <1>1 DEF Apply
<1>2. CASE op = "and"
  BY <1>2 DEF Apply
<1>3. CASE op = "or"
  BY <1>3 DEF Apply
<1>4. CASE op = "xor"
  BY <1>4 DEF Apply
<1>5. CASE op = "nand"
  BY <1>5 DEF Apply
<1> QED
  BY <1>1, <1>2, <1>3, <1>4, <1>5

\* When each part computes its argument, the whole computes the expression.
LEMMA LoweringComputes ==
    ASSUME NEW e \in Exprs, NEW env, e.op = "var" => env[e.name] \in BOOLEAN,
           NEW parts \in [DOMAIN e.args -> Lowerings],
           NEW values \in [DOMAIN e.args -> BOOLEAN], \A i \in DOMAIN e.args : IsLowering(parts[i], values[i], env)
    PROVE  IsLowering(LowerBy(parts, e), Apply(e.op, e.name, values, env), env)
<1> DEFINE v == Apply(e.op, e.name, values, env)
<1>1. parts \in Seq(Lowerings) /\ Len(parts) = Len(e.args) /\ DOMAIN parts = 1..Len(parts) /\ DOMAIN parts = DOMAIN e.args
  BY PartsAreASequence
<1>2. e.op \in Operators /\ e.name \in Names /\ Len(e.args) \in Nat /\ e.args \in Seq(Exprs)
  BY ExprParts
<1>3. v \in BOOLEAN
  BY <1>2, ApplyIsBoolean
<1> SUFFICES ASSUME NEW nodes, Grounded(nodes)
             PROVE  Gives(LowerBy(parts, e)[nodes], nodes, v, env)
  BY LoweringIsTyped DEF IsLowering
<1> DEFINE r == LowerBy(parts, e)[nodes]
<1>4. nodes \in Seq(Nodes) /\ Extends(nodes, nodes)
  BY DEF Grounded, Extends
<1>5. ASSUME e.op = "var" PROVE Gives(r, nodes, v, env)
  <2>1. r = Intern(nodes, "input", <<>>, e.name)
    BY <1>4, <1>5 DEF LowerBy
  <2>2. "input" \in LogicKinds /\ <<>> \in Seq(DOMAIN nodes)
    BY DEF LogicKinds
  <2>3. Computes(Intern(nodes, "input", <<>>, e.name), nodes, "input", <<>>, e.name, env)
    BY <1>2, <2>2, GateComputes
  <2>4. Computes(r, nodes, "input", <<>>, e.name, env)
    BY <2>1, <2>3
  <2>5. \A xs : Apply("input", e.name, xs, env) = v
    BY <1>5 DEF Apply
  <2> HIDE DEF r, v
  <2> QED
    BY <2>4, <2>5, <1>3 DEF Computes, Gives
<1>6. CASE e.op # "var" /\ (e.op \in {"true", "false"} \/ e.args = <<>>)
  <2>1. r = [nodes |-> nodes, id |-> 0]
    BY <1>4, <1>6 DEF LowerBy
  <2> QED
    BY <2>1, <1>4 DEF Results, Gives
<1>7. ASSUME ~(e.op \in {"var", "true", "false"} \/ e.args = <<>>) PROVE Gives(r, nodes, v, env)
  <2>1. parts # <<>> /\ 1 \in DOMAIN parts /\ parts[1] \in Lowerings
    <3>1. Len(e.args) # 0
      BY <1>2, <1>7
    <3>2. 1 \in DOMAIN parts
      BY <3>1, <1>1, <1>2
    <3> QED
      BY <3>2, <1>1
  <2>2. \A i \in DOMAIN parts : values[i] \in BOOLEAN /\ IsLowering(parts[i], values[i], env)
    BY <1>1
  <2>3. values = [i \in 1..Len(parts) |-> values[i]]
    BY <1>1
  <2>4. \A kind \in Boole : Gives(LowerOperator(parts, nodes, kind), nodes, Apply(kind, NoName, values, env), env)
    <3> SUFFICES ASSUME NEW kind \in Boole
                 PROVE  Gives(LowerOperator(parts, nodes, kind), nodes, Apply(kind, NoName, values, env), env)
      OBVIOUS
    <3>1. Gives(LowerOperator(parts, nodes, kind), nodes,
                Apply(kind, NoName, [i \in 1..Len(parts) |-> values[i]], env), env)
      BY <1>1, <2>1, <2>2, ChainGives
    <3> QED
      BY <3>1, <2>3
  <2>5. CASE e.op = "not"
    <3>1. r = LowerNot(parts[1][nodes])
      BY <1>4, <1>7, <2>5 DEF LowerBy
    <3>2. Gives(parts[1][nodes], nodes, values[1], env)
      BY <2>1, <2>2 DEF IsLowering
    <3>3. v = ~values[1]
      BY <2>5 DEF Apply
    <3>4. Gives(LowerNot(parts[1][nodes]), nodes, ~values[1], env)
      BY <3>2, NotGives
    <3> HIDE DEF r, v
    <3> QED
      BY <3>1, <3>3, <3>4
  <2>6. CASE e.op = "nand" /\ Len(e.args) # 2
    <3> DEFINE all == Apply("and", NoName, values, env)
    <3>1. r = LowerNot(LowerOperator(parts, nodes, "and"))
      BY <1>4, <1>7, <2>6 DEF LowerBy
    <3>2. Gives(LowerOperator(parts, nodes, "and"), nodes, all, env)
      BY <2>4 DEF Boole
    <3>3. v = ~all
      BY <2>6, <1>1 DEF Apply
    <3>4. Gives(LowerNot(LowerOperator(parts, nodes, "and")), nodes, ~all, env)
      <4> HIDE DEF all
      <4> QED
        BY <3>2, NotGives
    <3> HIDE DEF r, v, all
    <3> QED
      BY <3>1, <3>3, <3>4
  <2>7. CASE e.op = "nand" /\ Len(e.args) = 2
    <3>1. r = LowerOperator(parts, nodes, "nand")
      BY <1>4, <1>7, <2>7 DEF LowerBy
    <3>2. DOMAIN parts = {1, 2}
      BY <1>1, <2>7
    <3>3. PICK c : Chained(c, parts, nodes, "nand") /\ LowerOperator(parts, nodes, "nand") = c[Len(parts)]
      <4>1. "nand" \in LogicKinds
        BY DEF LogicKinds
      <4> QED
        BY <4>1, <1>1, <1>4, <2>1, OperatorChains
    <3>4. r = LowerGate("nand", c[1], parts[2][c[1].nodes]) /\ c[1] = parts[1][nodes]
      <4>1. 2 \in DOMAIN parts \ {1} /\ 2 - 1 = 1 /\ Len(parts) = 2
        BY <3>2, <1>1, <2>7
      <4>2. c[2] = LowerGate("nand", c[2 - 1], parts[2][c[2 - 1].nodes]) /\ c[1] = parts[1][nodes]
        BY <3>3, <4>1 DEF Chained
      <4> QED
        BY <3>1, <3>3, <4>1, <4>2
    <3>5. Gives(c[1], nodes, values[1], env)
      BY <3>4, <2>1, <2>2 DEF IsLowering
    <3>6. Gives(parts[2][c[1].nodes], c[1].nodes, values[2], env)
      BY <3>2, <3>5, <2>2 DEF IsLowering, Gives
    <3>7. Gives(r, nodes, Apply("nand", NoName, <<values[1], values[2]>>, env), env)
      <4>1. "nand" \in Boole \cup {"nand"}
        OBVIOUS
      <4> HIDE DEF r
      <4> QED
        BY <4>1, <3>4, <3>5, <3>6, GateGives
    <3>8. values = <<values[1], values[2]>>
      <4>1. values = [i \in {1, 2} |-> values[i]]
        BY <3>2, <1>1
      <4>2. [i \in {1, 2} |-> values[i]] = <<values[1], values[2]>>
        OBVIOUS
      <4> QED
        BY <4>1, <4>2
    <3>9. v = Apply("nand", NoName, values, env)
      BY <2>7, NamesDoNotMatter
    <3> HIDE DEF r, v
    <3> QED
      BY <3>7, <3>8, <3>9
  <2>8. CASE e.op \in Boole
    <3>1. r = LowerOperator(parts, nodes, e.op)
      BY <1>4, <1>7, <2>8 DEF LowerBy, Boole
    <3>2. v = Apply(e.op, NoName, values, env)
      BY <2>8, NamesDoNotMatter DEF Boole
    <3> HIDE DEF r, v
    <3> QED
      BY <3>1, <3>2, <2>4, <2>8
  <2> QED
    BY <2>5, <2>6, <2>7, <2>8, <1>2, <1>7 DEF Operators, Boole
<1> QED
  BY <1>5, <1>6, <1>7

\* A lowered expression is a node that has the expression's value.
LEMMA LoweredExpressions ==
    ASSUME NEW e \in Exprs
    PROVE  \E lowering \in Lowerings :
               /\ \A nodes : LowerExpression(nodes, e) = lowering[nodes]
               /\ \A E, env : Sound(E, env) /\ e \in E => IsLowering(lowering, EvaluateExpr(e, env), env)
<1> DEFINE of(h, x) == LowerBy([i \in DOMAIN x.args |-> h[x.args[i]]], x)
           combine == [x \in Exprs |-> [parts \in [DOMAIN x.args -> Lowerings] |-> LowerBy(parts, x)]]
           lower == CHOOSE h : h = [x \in Exprs |-> of(h, x)]
<1>1. \A x \in Exprs : combine[x] \in [[DOMAIN x.args -> Lowerings] -> Lowerings]
  BY LoweringIsTyped
<1>2. PICK f : MadeOf(f, Exprs, Lowerings, combine)
  <2> HIDE DEF combine
  <2> QED
    BY <1>1, ValuesOfTreesExist
<1>3. f \in [Exprs -> Lowerings] /\ \A x \in Exprs : f[x] = of(f, x)
  <2>1. f \in [Exprs -> Lowerings] /\ \A x \in Exprs : f[x] = combine[x][[i \in DOMAIN x.args |-> f[x.args[i]]]]
    BY <1>2 DEF MadeOf
  <2>2. ASSUME NEW x \in Exprs PROVE f[x] = of(f, x)
    <3>1. [i \in DOMAIN x.args |-> f[x.args[i]]] \in [DOMAIN x.args -> Lowerings]
      BY <2>1, ExprParts
    <3> QED
      BY <3>1, <2>1
  <2> QED
    BY <2>1, <2>2
<1>4. f = [x \in Exprs |-> of(f, x)]
  <2>1. f = [x \in Exprs |-> f[x]]
    BY <1>3
  <2> HIDE DEF of
  <2> QED
    BY <1>3, <2>1
<1>5. lower = [x \in Exprs |-> of(lower, x)]
  <2> HIDE DEF of
  <2> QED
    BY <1>4
<1>6. \A nodes : LowerExpression(nodes, e) = lower[e][nodes]
  BY DEF LowerExpression
<1> HIDE DEF lower
<1>7. \A x \in Exprs : lower[x] = of(lower, x)
  <2> HIDE DEF of
  <2> QED
    BY <1>5
<1>8. \A x \in Exprs : lower[x] \in Lowerings
  <2> DEFINE S == {x \in Exprs : lower[x] \in Lowerings}
  <2>1. ASSUME NEW x \in Exprs, \A i \in DOMAIN x.args : x.args[i] \in S PROVE x \in S
    <3> DEFINE parts == [i \in DOMAIN x.args |-> lower[x.args[i]]]
    <3>1. parts \in [DOMAIN x.args -> Lowerings]
      BY <2>1
    <3>2. lower[x] = LowerBy(parts, x)
      BY <1>7
    <3> HIDE DEF parts
    <3> QED
      BY <3>1, <3>2, LoweringIsTyped
  <2>2. Exprs \subseteq S
    <3> HIDE DEF S
    <3> QED
      BY <2>1, ExprsInduction
  <2> QED
    BY <2>2
<1>9. ASSUME NEW E, NEW env, Sound(E, env), e \in E PROVE IsLowering(lower[e], EvaluateExpr(e, env), env)
  <2> DEFINE S == {x \in Exprs : x \in E => IsLowering(lower[x], EvaluateExpr(x, env), env)}
  <2>1. ASSUME NEW x \in Exprs, \A i \in DOMAIN x.args : x.args[i] \in S PROVE x \in S
    <3> SUFFICES ASSUME x \in E
                 PROVE  IsLowering(lower[x], EvaluateExpr(x, env), env)
      OBVIOUS
    <3> DEFINE parts == [i \in DOMAIN x.args |-> lower[x.args[i]]]
               values == [i \in DOMAIN x.args |-> EvaluateExpr(x.args[i], env)]
    <3>1. /\ x.op = "var" => env[x.name] \in BOOLEAN
          /\ \A i \in DOMAIN x.args : x.args[i] \in E
      BY <1>9 DEF Sound
    <3>2. \A i \in DOMAIN x.args : EvaluateExpr(x.args[i], env) \in BOOLEAN
      BY <3>1, <1>9, ExprIsBoolean
    <3>3. \A i \in DOMAIN x.args : IsLowering(parts[i], values[i], env)
      BY <2>1, <3>1
    <3>4. parts \in [DOMAIN x.args -> Lowerings] /\ values \in [DOMAIN x.args -> BOOLEAN]
      BY <1>8, <3>2, ExprParts
    <3>5. EvaluateExpr(x, env) = Apply(x.op, x.name, values, env) /\ lower[x] = LowerBy(parts, x)
      BY <1>7, ExprApplies
    <3> HIDE DEF parts, values
    <3>6. IsLowering(LowerBy(parts, x), Apply(x.op, x.name, values, env), env)
      BY <3>1, <3>3, <3>4, LoweringComputes
    <3> QED
      BY <3>5, <3>6
  <2>2. Exprs \subseteq S
    <3> HIDE DEF S
    <3> QED
      BY <2>1, ExprsInduction
  <2> QED
    BY <2>2, <1>9
<1> QED
  BY <1>6, <1>8, <1>9

-----------------------------------------------------------------------------
(* The graph of a circuit's expressions.                                   *)

NamedExprs == [name : Names, expr : Exprs]
Dags == [nodes : Seq(Nodes), outputs : Seq([name : Names, node : Nat]), ok : BOOLEAN]

\* A graph for the first m outputs: each has the value of its expression.
Computed(dag, outputs, m) ==
    /\ dag \in Dags /\ Grounded(dag.nodes)
    /\ dag.ok =>
          /\ Len(dag.outputs) = m
          /\ \A k \in 1..m :
                /\ dag.outputs[k].name = outputs[k].name /\ dag.outputs[k].node \in DOMAIN dag.nodes
                /\ \A env, E : Sound(E, env) /\ outputs[k].expr \in E =>
                      Evaluate(dag.nodes, env)[dag.outputs[k].node] = EvaluateExpr(outputs[k].expr, env)

WithOutput(before, output) ==
    LET value == LowerExpression(before.nodes, output.expr)
        gate == Intern(value.nodes, "output", <<value.id>>, output.name)
    IN  IF ~before.ok \/ value.id = 0 THEN [before EXCEPT !.ok = FALSE]
        ELSE [nodes |-> gate.nodes, ok |-> TRUE,
              outputs |-> Append(before.outputs, [name |-> output.name, node |-> gate.id])]

LEMMA SoundnessIsPossible == Sound(Exprs, [n \in Names |-> TRUE])
<1> DEFINE env == [n \in Names |-> TRUE]
<1>1. \A n \in Names : env[n] \in BOOLEAN
  OBVIOUS
<1> HIDE DEF env
<1>2. Sound(Exprs, env)
  BY <1>1, ExprParts DEF Sound
<1> QED
  BY <1>2 DEF env

LEMMA OutputTyped ==
    ASSUME NEW before \in Dags, NEW output \in NamedExprs
    PROVE  WithOutput(before, output) \in Dags
<1>1. output.name \in Names /\ output.expr \in Exprs
  BY DEF NamedExprs
<1> DEFINE value == LowerExpression(before.nodes, output.expr)
           gate == Intern(value.nodes, "output", <<value.id>>, output.name)
<1>2. before.nodes \in Seq(Nodes) /\ before.ok \in BOOLEAN
      /\ before.outputs \in Seq([name : Names, node : Nat])
  BY DEF Dags
<1>3. value \in Results
  <2>1. PICK lowering \in Lowerings : \A nodes : LowerExpression(nodes, output.expr) = lowering[nodes]
    BY <1>1, LoweredExpressions
  <2> QED
    BY <1>2, <2>1 DEF Lowerings
<1>4. gate \in Results
  <2>1. value.nodes \in Seq(Nodes) /\ value.id \in Nat
    BY <1>3 DEF Results
  <2>2. "output" \in LogicKinds /\ <<value.id>> \in Seq(Nat)
    BY <2>1, OneIsASequence DEF LogicKinds
  <2> HIDE DEF value
  <2>3. \A name \in Names : Intern(value.nodes, "output", <<value.id>>, name) \in Results
    BY <2>1, <2>2, InternTyped
  <2> QED
    BY <2>3, <1>1
<1>5. CASE ~before.ok \/ value.id = 0
  <2>1. WithOutput(before, output) = [before EXCEPT !.ok = FALSE]
    BY <1>5 DEF WithOutput
  <2> QED
    BY <2>1 DEF Dags
<1>6. CASE ~(~before.ok \/ value.id = 0)
  <2>1. WithOutput(before, output) = [nodes |-> gate.nodes, ok |-> TRUE,
              outputs |-> Append(before.outputs, [name |-> output.name, node |-> gate.id])]
    BY <1>6 DEF WithOutput
  <2> HIDE DEF gate
  <2>2. gate.nodes \in Seq(Nodes) /\ gate.id \in Nat
    BY <1>4 DEF Results
  <2>3. Append(before.outputs, [name |-> output.name, node |-> gate.id]) \in Seq([name : Names, node : Nat])
    <3>1. [name |-> output.name, node |-> gate.id] \in [name : Names, node : Nat]
      BY <1>1, <2>2
    <3> QED
      BY <3>1, <1>2
  <2> QED
    BY <2>1, <2>2, <2>3 DEF Dags
<1> QED
  BY <1>5, <1>6

LEMMA OutputComputes ==
    ASSUME NEW outputs \in Seq(NamedExprs), NEW m \in Nat, m + 1 \in DOMAIN outputs, NEW before, Computed(before, outputs, m)
    PROVE  Computed(WithOutput(before, outputs[m + 1]), outputs, m + 1)
<1> DEFINE output == outputs[m + 1]
           value == LowerExpression(before.nodes, output.expr)
           gate == Intern(value.nodes, "output", <<value.id>>, output.name)
           after == WithOutput(before, output)
<1>1. output \in NamedExprs /\ output.name \in Names /\ output.expr \in Exprs
  <2>1. output \in NamedExprs
    OBVIOUS
  <2> HIDE DEF output
  <2> QED
    BY <2>1 DEF NamedExprs
<1>2. before \in Dags /\ Grounded(before.nodes) /\ before.nodes \in Seq(Nodes)
      /\ before.outputs \in Seq([name : Names, node : Nat])
  BY DEF Computed, Dags
<1>3. after \in Dags
  BY <1>1, <1>2, OutputTyped
<1>4. CASE ~before.ok \/ value.id = 0
  <2>1. after = [before EXCEPT !.ok = FALSE]
    BY <1>4 DEF WithOutput
  <2>2. after.nodes = before.nodes /\ after.ok = FALSE
    BY <2>1, <1>2 DEF Dags
  <2> HIDE DEF after
  <2> QED
    BY <2>2, <1>2, <1>3 DEF Computed, after
<1>5. CASE before.ok /\ value.id # 0
  <2>1. after = [nodes |-> gate.nodes, ok |-> TRUE,
                 outputs |-> Append(before.outputs, [name |-> output.name, node |-> gate.id])]
    BY <1>5 DEF WithOutput
  <2>2. PICK lowering \in Lowerings :
            /\ \A nodes : LowerExpression(nodes, output.expr) = lowering[nodes]
            /\ \A E, env : Sound(E, env) /\ output.expr \in E => IsLowering(lowering, EvaluateExpr(output.expr, env), env)
    BY <1>1, LoweredExpressions
  <2>3. \A E, env : Sound(E, env) /\ output.expr \in E => Gives(value, before.nodes, EvaluateExpr(output.expr, env), env)
    BY <2>2, <1>2 DEF IsLowering
  <2> HIDE DEF value, output
  <2>4. \E E, env : Sound(E, env) /\ output.expr \in E
    BY <1>1, SoundnessIsPossible
  <2>5. /\ value \in Results /\ Grounded(value.nodes) /\ Extends(value.nodes, before.nodes) /\ value.id \in DOMAIN value.nodes
        /\ value.nodes \in Seq(Nodes)
    BY <2>3, <2>4, <1>5 DEF Gives, Grounded
  <2>6. "output" \in LogicKinds /\ <<value.id>> \in Seq(DOMAIN value.nodes) /\ DOMAIN <<value.id>> = {1} /\ <<value.id>>[1] = value.id
    BY <2>5, OneIsASequence DEF LogicKinds
  <2>7. \A env : Computes(gate, value.nodes, "output", <<value.id>>, output.name, env)
    BY <1>1, <2>5, <2>6, GateComputes
  <2> HIDE DEF gate
  <2>8. /\ gate \in Results /\ Grounded(gate.nodes) /\ Extends(gate.nodes, value.nodes) /\ gate.id \in DOMAIN gate.nodes
        /\ gate.nodes \in Seq(Nodes)
    BY <2>7 DEF Computes, Grounded
  <2>9. ASSUME NEW env
        PROVE  /\ \A E : Sound(E, env) /\ output.expr \in E =>
                        Evaluate(gate.nodes, env)[gate.id] = EvaluateExpr(output.expr, env)
               /\ \A i \in DOMAIN before.nodes : Evaluate(gate.nodes, env)[i] = Evaluate(before.nodes, env)[i]
    <3>1. Evaluate(gate.nodes, env)[gate.id] = Apply("output", output.name, Taken(value.nodes, <<value.id>>, env), env)
      BY <2>7 DEF Computes
    <3>2. Taken(value.nodes, <<value.id>>, env)[1] = Evaluate(value.nodes, env)[value.id]
      BY <2>6 DEF Taken
    <3>3. \A xs : Apply("output", output.name, xs, env) = xs[1]
      BY DEF Apply
    <3>4. \A E : Sound(E, env) /\ output.expr \in E => Evaluate(value.nodes, env)[value.id] = EvaluateExpr(output.expr, env)
      BY <2>3, <1>5 DEF Gives
    <3>5. Evaluate(gate.nodes, env)[gate.id] = Evaluate(value.nodes, env)[value.id]
      BY <3>1, <3>2, <3>3
    <3>6. Extends(gate.nodes, before.nodes)
      BY <1>2, <2>5, <2>8, ExtendsOn
    <3> QED
      BY <3>4, <3>5, <3>6, <1>2, <2>8, ValuesStay
  <2>10. DOMAIN before.nodes \subseteq DOMAIN gate.nodes
    <3>1. Extends(gate.nodes, before.nodes)
      BY <1>2, <2>5, <2>8, ExtendsOn
    <3> QED
      BY <3>1, <1>2, <2>8 DEF Extends
  <2> DEFINE added == [name |-> output.name, node |-> gate.id]
  <2>11. after.nodes = gate.nodes /\ after.ok = TRUE /\ after.outputs = Append(before.outputs, added)
    BY <2>1
  <2>12. Len(before.outputs) = m
    BY <1>5 DEF Computed
  <2>13. /\ Len(after.outputs) = m + 1 /\ after.outputs[m + 1] = added
         /\ \A k \in 1..m : after.outputs[k] = before.outputs[k]
    <3>1. added \in [name : Names, node : Nat]
      BY <1>1, <2>8 DEF Results
    <3> HIDE DEF added, after
    <3> QED
      BY <3>1, <2>11, <2>12, <1>2
  <2>14. added.name = output.name /\ added.node = gate.id
    OBVIOUS
  <2> HIDE DEF added, after
  <2>15. ASSUME NEW k \in 1..(m + 1)
         PROVE  /\ after.outputs[k].name = outputs[k].name /\ after.outputs[k].node \in DOMAIN after.nodes
                /\ \A env, E : Sound(E, env) /\ outputs[k].expr \in E =>
                      Evaluate(after.nodes, env)[after.outputs[k].node] = EvaluateExpr(outputs[k].expr, env)
    <3>1. CASE k = m + 1
      <4>1. after.outputs[k] = added /\ outputs[k] = output
        BY <3>1, <2>13 DEF output
      <4> QED
        BY <4>1, <2>8, <2>9, <2>11, <2>14
    <3>2. CASE k # m + 1
      <4>1. k \in 1..m
        BY <3>2
      <4>2. /\ before.outputs[k].name = outputs[k].name /\ before.outputs[k].node \in DOMAIN before.nodes
            /\ \A env, E : Sound(E, env) /\ outputs[k].expr \in E =>
                  Evaluate(before.nodes, env)[before.outputs[k].node] = EvaluateExpr(outputs[k].expr, env)
        BY <4>1, <1>5 DEF Computed
      <4>3. after.outputs[k] = before.outputs[k]
        BY <4>1, <2>13
      <4> QED
        BY <4>2, <4>3, <2>9, <2>10, <2>11
    <3> QED
      BY <3>1, <3>2
  <2>16. after \in Dags
    BY <1>3
  <2>17. Computed(after, outputs, m + 1)
    BY <2>8, <2>11, <2>13, <2>15, <2>16 DEF Computed
  <2> QED
    BY <2>17 DEF after, output
<1> QED
  BY <1>4, <1>5 DEF output

\* The graph that logic_from_expressions makes of a circuit's expressions, when
\* it makes one: whatever gates it shares between them, every output has the
\* name it was given and, for all inputs, the value of its expression.
THEOREM GraphsCompute ==
    ASSUME NEW outputs \in Seq(NamedExprs), LogicFromExpressions(outputs).ok
    PROVE  LET dag == LogicFromExpressions(outputs)
           IN  /\ Len(dag.outputs) = Len(outputs)
               /\ \A k \in DOMAIN outputs :
                     /\ dag.outputs[k].name = outputs[k].name
                     /\ \A env, E : Sound(E, env) /\ outputs[k].expr \in E =>
                           Evaluate(dag.nodes, env)[dag.outputs[k].node] = EvaluateExpr(outputs[k].expr, env)
<1> DEFINE n == Len(outputs)
           empty == [nodes |-> <<>>, outputs |-> <<>>, ok |-> TRUE]
           link(h, i) == IF i = 0 THEN empty ELSE WithOutput(h[i - 1], outputs[i])
           step == [i \in 1..n |-> [before \in Dags |-> WithOutput(before, outputs[i])]]
           built == CHOOSE h : h = [i \in 0..n |-> link(h, i)]
<1>1. n \in Nat /\ DOMAIN outputs = 1..n /\ \A i \in 1..n : outputs[i] \in NamedExprs
  OBVIOUS
<1>2. LogicFromExpressions(outputs) = built[n]
  BY DEF LogicFromExpressions, WithOutput
<1> HIDE DEF n
<1>3. empty \in Dags /\ Computed(empty, outputs, 0)
  <2>1. <<>> \in Seq(Nodes) /\ <<>> \in Seq([name : Names, node : Nat]) /\ Len(<<>>) = 0 /\ DOMAIN <<>> = 1..0
    OBVIOUS
  <2>2. empty \in Dags
    BY <2>1 DEF Dags
  <2>3. Grounded(<<>>)
    BY <2>1 DEF Grounded
  <2> QED
    BY <2>1, <2>2, <2>3 DEF Computed
<1> HIDE DEF empty
<1>4. \A i \in 1..n : step[i] \in [Dags -> Dags]
  BY <1>1, OutputTyped
<1>5. PICK f : StepsUp(f, n, empty, step)
  <2> HIDE DEF step
  <2> QED
    BY <1>1, <1>3, <1>4, StepsAreDefined
<1>6. f \in [0..n -> Dags]
  <2> HIDE DEF step
  <2> QED
    BY <1>1, <1>3, <1>4, <1>5, StepsStay
<1>7. \A i \in 0..n : f[i] = link(f, i)
  <2>1. f = [i \in 0..n |-> IF i = 0 THEN empty ELSE step[i][f[i - 1]]]
    BY <1>5 DEF StepsUp
  <2> TAKE i \in 0..n
  <2>2. CASE i = 0
    BY <2>1, <2>2
  <2>3. CASE i # 0
    <3>1. i \in 1..n /\ i - 1 \in 0..n
      BY <1>1, <2>3
    <3>2. f[i] = step[i][f[i - 1]] /\ f[i - 1] \in Dags
      BY <2>1, <3>1, <2>3, <1>6
    <3>3. step[i][f[i - 1]] = WithOutput(f[i - 1], outputs[i])
      BY <3>1, <3>2
    <3> HIDE DEF step
    <3> QED
      BY <2>3, <3>2, <3>3
  <2> QED
    BY <2>2, <2>3
<1>8. f = [i \in 0..n |-> link(f, i)]
  <2>1. f = [i \in 0..n |-> f[i]]
    BY <1>6
  <2> HIDE DEF link
  <2> QED
    BY <1>7, <2>1
<1>9. built = [i \in 0..n |-> link(built, i)]
  <2> HIDE DEF link
  <2> QED
    BY <1>8
<1> HIDE DEF built
<1>10. \A i \in 0..n : built[i] = link(built, i)
  <2> HIDE DEF link
  <2> QED
    BY <1>9
<1> DEFINE S == {m \in 0..n : Computed(built[m], outputs, m)}
<1>11. 0 \in S
  <2>1. 0 \in 0..n
    BY <1>1
  <2>2. built[0] = empty
    BY <1>10, <2>1
  <2> QED
    BY <2>1, <2>2, <1>3
<1>12. \A m \in 0..n : m \in S /\ m < n => m + 1 \in S
  <2> SUFFICES ASSUME NEW m \in 0..n, m \in S, m < n
               PROVE  m + 1 \in S
    OBVIOUS
  <2>1. m + 1 \in 0..n /\ m + 1 # 0 /\ (m + 1) - 1 = m /\ m + 1 \in DOMAIN outputs /\ m \in Nat
    BY <1>1
  <2>2. built[m + 1] = WithOutput(built[m], outputs[m + 1])
    BY <1>10, <2>1
  <2>3. Computed(WithOutput(built[m], outputs[m + 1]), outputs, m + 1)
    BY <2>1, OutputComputes
  <2> QED
    BY <2>1, <2>2, <2>3
<1>13. 0..n \subseteq S
  <2> HIDE DEF S
  <2> QED
    BY <1>1, <1>11, <1>12, CountingUp
<1>14. Computed(built[n], outputs, n)
  <2>1. n \in 0..n
    BY <1>1
  <2> QED
    BY <2>1, <1>13
<1> QED
  BY <1>1, <1>2, <1>14 DEF Computed, n

-----------------------------------------------------------------------------
(* The size of an expression.                                              *)

LEMMA TotalIsNatural ==
    ASSUME NEW n \in Nat, NEW sizes \in [1..n -> Nat]
    PROVE  Total(sizes) \in Nat
<1> DEFINE step == [i \in 1..n |-> [x \in Nat |-> x + sizes[i]]]
           link(h, i) == IF i = 0 THEN 1 ELSE h[i - 1] + sizes[i]
           upto == CHOOSE h : h = [i \in 0..n |-> link(h, i)]
<1>1. Len(sizes) = n
  OBVIOUS
<1>2. Total(sizes) = upto[n]
  BY <1>1 DEF Total
<1>3. \A i \in 1..n : step[i] \in [Nat -> Nat]
  OBVIOUS
<1>4. PICK f : StepsUp(f, n, 1, step)
  <2> HIDE DEF step
  <2> QED
    BY <1>3, StepsAreDefined
<1>5. f \in [0..n -> Nat]
  <2> HIDE DEF step
  <2> QED
    BY <1>3, <1>4, StepsStay
<1>6. \A i \in 0..n : f[i] = link(f, i)
  <2>1. f = [i \in 0..n |-> IF i = 0 THEN 1 ELSE step[i][f[i - 1]]]
    BY <1>4 DEF StepsUp
  <2> TAKE i \in 0..n
  <2>2. CASE i = 0
    BY <2>1, <2>2
  <2>3. CASE i # 0
    <3>1. i \in 1..n /\ i - 1 \in 0..n
      BY <2>3
    <3>2. f[i] = step[i][f[i - 1]] /\ f[i - 1] \in Nat
      BY <2>1, <3>1, <2>3, <1>5
    <3>3. step[i][f[i - 1]] = f[i - 1] + sizes[i]
      BY <3>1, <3>2
    <3> HIDE DEF step
    <3> QED
      BY <2>3, <3>2, <3>3
  <2> QED
    BY <2>2, <2>3
<1>7. f = [i \in 0..n |-> link(f, i)]
  <2>1. f = [i \in 0..n |-> f[i]]
    BY <1>5
  <2> HIDE DEF link
  <2> QED
    BY <1>6, <2>1
<1>8. upto = [i \in 0..n |-> link(upto, i)]
  <2> HIDE DEF link
  <2> QED
    BY <1>7
<1> HIDE DEF upto
<1> DEFINE S == {m \in 0..n : upto[m] \in Nat}
<1>9. \A i \in 0..n : upto[i] = link(upto, i)
  <2> HIDE DEF link
  <2> QED
    BY <1>8
<1>10. 0 \in S
  BY <1>9
<1>11. \A m \in 0..n : m \in S /\ m < n => m + 1 \in S
  <2> SUFFICES ASSUME NEW m \in 0..n, m \in S, m < n
               PROVE  m + 1 \in S
    OBVIOUS
  <2>1. m + 1 \in 0..n /\ m + 1 # 0 /\ (m + 1) - 1 = m /\ m + 1 \in 1..n
    OBVIOUS
  <2>2. upto[m + 1] = upto[m] + sizes[m + 1]
    BY <1>9, <2>1
  <2> QED
    BY <2>1, <2>2
<1>12. 0..n \subseteq S
  <2> HIDE DEF S
  <2> QED
    BY <1>10, <1>11, CountingUp
<1> QED
  BY <1>2, <1>12

LEMMA SizeIsNatural == \A e \in Exprs : Size(e) \in Nat
<1> DEFINE of(h, e) == Total([i \in DOMAIN e.args |-> h[e.args[i]]])
           combine == [e \in Exprs |-> [sizes \in [DOMAIN e.args -> Nat] |-> Total(sizes)]]
           size == CHOOSE h : h = [e \in Exprs |-> of(h, e)]
<1>1. \A e \in Exprs : combine[e] \in [[DOMAIN e.args -> Nat] -> Nat]
  <2>1. \A e \in Exprs : \A sizes \in [DOMAIN e.args -> Nat] : Total(sizes) \in Nat
    <3> TAKE e \in Exprs
    <3> TAKE sizes \in [DOMAIN e.args -> Nat]
    <3>1. Len(e.args) \in Nat /\ DOMAIN e.args = 1..Len(e.args)
      BY ExprParts
    <3> QED
      BY <3>1, TotalIsNatural
  <2> QED
    BY <2>1
<1>2. PICK f : MadeOf(f, Exprs, Nat, combine)
  <2> HIDE DEF combine
  <2> QED
    BY <1>1, ValuesOfTreesExist
<1>3. f \in [Exprs -> Nat] /\ \A e \in Exprs : f[e] = of(f, e)
  <2>1. f \in [Exprs -> Nat] /\ \A e \in Exprs : f[e] = combine[e][[i \in DOMAIN e.args |-> f[e.args[i]]]]
    BY <1>2 DEF MadeOf
  <2>2. ASSUME NEW e \in Exprs PROVE f[e] = of(f, e)
    <3>1. [i \in DOMAIN e.args |-> f[e.args[i]]] \in [DOMAIN e.args -> Nat]
      BY <2>1, ExprParts
    <3> QED
      BY <3>1, <2>1
  <2> QED
    BY <2>1, <2>2
<1>4. f = [e \in Exprs |-> of(f, e)]
  <2>1. f = [e \in Exprs |-> f[e]]
    BY <1>3
  <2> HIDE DEF of
  <2> QED
    BY <1>3, <2>1
<1>5. size = [e \in Exprs |-> of(size, e)]
  <2> HIDE DEF of
  <2> QED
    BY <1>4
<1>6. \A e : Size(e) = size[e]
  BY DEF Size
<1> HIDE DEF size
<1>7. \A e \in Exprs : size[e] = of(size, e)
  <2> HIDE DEF of
  <2> QED
    BY <1>5
<1> DEFINE S == {e \in Exprs : size[e] \in Nat}
<1>8. ASSUME NEW e \in Exprs, \A i \in DOMAIN e.args : e.args[i] \in S PROVE e \in S
  <2> DEFINE sizes == [i \in DOMAIN e.args |-> size[e.args[i]]]
  <2>1. Len(e.args) \in Nat /\ DOMAIN e.args = 1..Len(e.args)
    BY ExprParts
  <2>2. sizes \in [1..Len(e.args) -> Nat]
    BY <2>1, <1>8
  <2>3. size[e] = Total(sizes)
    BY <1>7
  <2> HIDE DEF sizes
  <2> QED
    BY <2>1, <2>2, <2>3, TotalIsNatural
<1>9. Exprs \subseteq S
  <2> HIDE DEF S
  <2> QED
    BY <1>8, ExprsInduction
<1> QED
  BY <1>6, <1>9

\* Of expressions there is one that is no larger than any other.
LEMMA OneIsSmallest ==
    ASSUME NEW S, S \subseteq Exprs, S # {}
    PROVE  \E e \in S : \A f \in S : Size(e) <= Size(f)
<1> DEFINE sizes == {Size(e) : e \in S}
<1>1. sizes \subseteq Nat /\ sizes # {}
  BY SizeIsNatural
<1>2. PICK n \in sizes : \A m \in sizes : n <= m
  <2> HIDE DEF sizes
  <2> QED
    BY <1>1, LeastNatural
<1> QED
  BY <1>2

-----------------------------------------------------------------------------
(* The expressions a circuit is read as: their variables are its inputs.   *)

InputNames(count) == {Named("in", i) : i \in 1..count}
Fit(A, count) == {e \in TreesOver(A) : e.op = "var" => e.name \in InputNames(count)}
Readable(count) == Fit(Fit(Fit(Fit({}, count), count), count), count)

LEMMA FitIsMore ==
    ASSUME NEW count, NEW A, NEW B, A \subseteq B
    PROVE  Fit(A, count) \subseteq Fit(B, count)
<1>1. TreesOver(A) \subseteq TreesOver(B)
  BY TreesOverMore
<1> QED
  BY <1>1 DEF Fit

LEMMA FitLevels ==
    ASSUME NEW count
    PROVE  LET a == Fit({}, count)
               b == Fit(a, count)
               c == Fit(b, count)
           IN  a \subseteq b /\ b \subseteq c /\ c \subseteq Readable(count) /\ Readable(count) = Fit(c, count)
<1> DEFINE a == Fit({}, count)
           b == Fit(a, count)
           c == Fit(b, count)
<1>1. a \subseteq b
  BY FitIsMore
<1>2. b \subseteq c
  BY <1>1, FitIsMore
<1>3. c \subseteq Fit(c, count)
  BY <1>2, FitIsMore
<1> QED
  BY <1>1, <1>2, <1>3 DEF Readable

LEMMA ReadableParts ==
    ASSUME NEW count
    PROVE  /\ Readable(count) \subseteq Exprs
           /\ \A e \in Readable(count) : /\ \A i \in DOMAIN e.args : e.args[i] \in Readable(count)
                                         /\ e.op = "var" => e.name \in InputNames(count)
<1> DEFINE a == Fit({}, count)
           b == Fit(a, count)
           c == Fit(b, count)
<1>1. c \subseteq Readable(count) /\ Readable(count) = Fit(c, count)
  BY FitLevels
<1>2. a \subseteq TreesOver({})
  BY DEF Fit
<1>3. b \subseteq TreesOver(TreesOver({}))
  <2>1. TreesOver(a) \subseteq TreesOver(TreesOver({}))
    BY <1>2, TreesOverMore
  <2> HIDE DEF a
  <2> QED
    BY <2>1 DEF Fit
<1> HIDE DEF b
<1>4. c \subseteq TreesOver(TreesOver(TreesOver({})))
  <2>1. TreesOver(b) \subseteq TreesOver(TreesOver(TreesOver({})))
    BY <1>3, TreesOverMore
  <2> QED
    BY <2>1 DEF Fit
<1> HIDE DEF c
<1>5. Readable(count) \subseteq Exprs
  <2>1. TreesOver(c) \subseteq TreesOver(TreesOver(TreesOver(TreesOver({}))))
    BY <1>4, TreesOverMore
  <2>2. Readable(count) \subseteq TreesOver(c)
    BY <1>1 DEF Fit
  <2> QED
    BY <2>1, <2>2, ExprsAreLevels
<1>6. ASSUME NEW e \in Readable(count)
      PROVE  /\ \A i \in DOMAIN e.args : e.args[i] \in Readable(count)
             /\ e.op = "var" => e.name \in InputNames(count)
  <2>1. e \in TreesOver(c) /\ (e.op = "var" => e.name \in InputNames(count))
    BY <1>1 DEF Fit
  <2>2. e.args \in Seq(c)
    BY <2>1 DEF TreesOver, Trees
  <2> QED
    BY <2>1, <2>2, <1>1
<1> QED
  BY <1>5, <1>6

\* Expressions are readable, level by level.
LEMMA ExprFits ==
    ASSUME NEW count, NEW A, NEW op \in Operators \ {"var"}, NEW args \in Seq(A)
    PROVE  Expr(op, args) \in Fit(A, count)
<1>1. Expr(op, args) = [op |-> op, name |-> NoName, args |-> args]
  BY DEF Expr
<1> QED
  BY <1>1, NoNameIsAName DEF Fit, TreesOver, Trees

LEMMA InputFits ==
    ASSUME NEW count \in Nat, NEW i \in 1..count
    PROVE  Input(i) \in Fit({}, count)
<1>1. Input(i) = [op |-> "var", name |-> Named("in", i), args |-> <<>>]
  BY DEF Input, Var
<1>2. Named("in", i) \in Names /\ Named("in", i) \in InputNames(count)
  <2>1. i - 1 \in Nat
    OBVIOUS
  <2> QED
    BY <2>1 DEF Names, Named, InputNames
<1> QED
  BY <1>1, <1>2 DEF Fit, TreesOver, Trees, Operators

\* The value of an input is the one the row has for it.
LEMMA EnvironmentIsTheRow ==
    ASSUME NEW count \in Nat, NEW inputs \in [1..count -> BOOLEAN], NEW i \in 1..count
    PROVE  Environment(inputs)[Named("in", i)] = inputs[i]
<1> DEFINE name == Named("in", i)
           j == CHOOSE k \in DOMAIN inputs : Named("in", k) = name
<1>1. \A k \in 1..count : Named("in", k) = Named("in", i) => k = i
  <2>1. \A k : Named("in", k) = <<"in", k - 1>>
    BY DEF Named
  <2>2. \A x, y : <<"in", x>> = <<"in", y>> => x = y
    OBVIOUS
  <2>3. \A k \in 1..count : k - 1 = i - 1 => k = i
    OBVIOUS
  <2> QED
    BY <2>1, <2>2, <2>3
<1>2. j \in 1..count /\ Named("in", j) = name
  OBVIOUS
<1>3. j = i
  BY <1>1, <1>2
<1>4. Environment(inputs)[name] = inputs[j]
  BY DEF Environment
<1> QED
  BY <1>3, <1>4

LEMMA RowsAreSound ==
    ASSUME NEW count \in Nat, NEW inputs \in [1..count -> BOOLEAN]
    PROVE  Sound(Readable(count), Environment(inputs))
<1>1. \A n \in InputNames(count) : Environment(inputs)[n] \in BOOLEAN
  BY EnvironmentIsTheRow DEF InputNames
<1> QED
  BY <1>1, ReadableParts DEF Sound

LEMMA CandidatesAreReadable ==
    ASSUME NEW count \in Nat
    PROVE  CandidateExpressions(count) \subseteq Readable(count)
<1> DEFINE a == Fit({}, count)
           b == Fit(a, count)
           c == Fit(b, count)
           inputs == [i \in 1..count |-> Input(i)]
           ordered == {ij \in (1..count) \X (1..count) : ij[1] < ij[2]}
           groups == {<<inputs[ij[1]], inputs[ij[2]]>> : ij \in ordered} \cup (IF count > 2 THEN {inputs} ELSE {})
           majority == Expr("or", <<Expr("and", <<inputs[1], inputs[2]>>), Expr("and", <<inputs[1], inputs[3]>>),
                                    Expr("and", <<inputs[2], inputs[3]>>)>>)
<1>1. a \subseteq b /\ b \subseteq c /\ c \subseteq Readable(count)
  BY FitLevels
<1>2. inputs \in Seq(a) /\ \A i \in 1..count : inputs[i] \in a
  BY InputFits
<1>3. \A op \in {"not", "and", "or", "xor", "nand", "true", "false"} : op \in Operators \ {"var"}
  BY DEF Operators
<1>4. Const(FALSE) \in a /\ Const(TRUE) \in a
  <2>1. <<>> \in Seq({})
    OBVIOUS
  <2>2. \A op \in Operators \ {"var"} : Expr(op, <<>>) \in a
    BY <2>1, ExprFits
  <2>3. Const(FALSE) = Expr("false", <<>>) /\ Const(TRUE) = Expr("true", <<>>)
    BY DEF Const
  <2> HIDE DEF a
  <2> QED
    BY <2>2, <2>3, <1>3
<1>5. On(inputs) \subseteq a
  BY <1>2 DEF On
<1>6. \A x, y \in a : <<x, y>> \in Seq(a)
  BY TwoAreASequence
<1> HIDE DEF a
<1>7. groups \subseteq Seq(a)
  BY <1>2, <1>6
<1>8. \A op \in {"not", "and", "or", "xor", "nand"} : \A args \in Seq(a) : Expr(op, args) \in b
  BY <1>3, ExprFits
<1>9. \A v \in On(inputs) : Expr("not", <<v>>) \in b
  BY <1>5, <1>8, OneIsASequence
<1>10. count = 3 => majority \in c
  <2> SUFFICES ASSUME count = 3
               PROVE  majority \in c
    OBVIOUS
  <2>1. inputs[1] \in a /\ inputs[2] \in a /\ inputs[3] \in a
    BY <1>2
  <2> HIDE DEF inputs
  <2>2. <<inputs[1], inputs[2]>> \in Seq(a) /\ <<inputs[1], inputs[3]>> \in Seq(a) /\ <<inputs[2], inputs[3]>> \in Seq(a)
    BY <2>1, <1>6
  <2>3. Expr("and", <<inputs[1], inputs[2]>>) \in b /\ Expr("and", <<inputs[1], inputs[3]>>) \in b
        /\ Expr("and", <<inputs[2], inputs[3]>>) \in b
    BY <2>2, <1>8
  <2> HIDE DEF b
  <2>4. <<Expr("and", <<inputs[1], inputs[2]>>), Expr("and", <<inputs[1], inputs[3]>>), Expr("and", <<inputs[2], inputs[3]>>)>> \in Seq(b)
    BY <2>3
  <2> QED
    BY <2>4, <1>3, ExprFits
<1> HIDE DEF b, c, majority, groups
<1>11. CandidateExpressions(count) =
          {Const(FALSE), Const(TRUE)} \cup On(inputs) \cup {Expr("not", <<v>>) : v \in On(inputs)}
          \cup {Expr(op, args) : op \in {"and", "or", "xor", "nand"}, args \in groups}
          \cup (IF count = 3 THEN {majority} ELSE {})
  BY DEF CandidateExpressions, groups, majority
<1> HIDE DEF inputs
<1>12. {Const(FALSE), Const(TRUE)} \subseteq b
  BY <1>1, <1>4
<1>13. {Expr("not", <<v>>) : v \in On(inputs)} \subseteq b
  BY <1>9
<1>14. {Expr(op, args) : op \in {"and", "or", "xor", "nand"}, args \in groups} \subseteq b
  <2>1. \A op \in {"and", "or", "xor", "nand"} : \A args \in groups : Expr(op, args) \in b
    BY <1>7, <1>8
  <2> QED
    BY <2>1
<1>15. (IF count = 3 THEN {majority} ELSE {}) \subseteq c
  BY <1>10
<1>16. a \subseteq Readable(count) /\ b \subseteq Readable(count)
  BY <1>1
<1> DEFINE nots == {Expr("not", <<v>>) : v \in On(inputs)}
           gates == {Expr(op, args) : op \in {"and", "or", "xor", "nand"}, args \in groups}
           last == IF count = 3 THEN {majority} ELSE {}
<1>17. CandidateExpressions(count) = {Const(FALSE), Const(TRUE)} \cup On(inputs) \cup nots \cup gates \cup last
  BY <1>11
<1>18. nots \subseteq Readable(count) /\ gates \subseteq Readable(count) /\ last \subseteq Readable(count)
  <2>1. nots \subseteq b
    BY <1>13
  <2>2. gates \subseteq b
    BY <1>14
  <2>3. last \subseteq c
    BY <1>15
  <2>4. c \subseteq Readable(count)
    BY <1>1
  <2> HIDE DEF nots, gates, last
  <2> QED
    BY <2>1, <2>2, <2>3, <2>4, <1>16
<1> HIDE DEF ordered, nots, gates, last
<1> QED
  BY <1>5, <1>12, <1>16, <1>17, <1>18

-----------------------------------------------------------------------------
(* The truth table of a circuit and the sum of its products.               *)

LEMMA WrittenIsItself ==
    ASSUME NEW n \in Nat, NEW f, f = [i \in 1..n |-> f[i]]
    PROVE  Written(f) = f /\ Len(f) = n /\ DOMAIN f = 1..n
<1> DEFINE T == {f[i] : i \in 1..n}
<1>1. f \in [1..n -> T]
  OBVIOUS
<1> HIDE DEF T
<1>2. f \in Seq(T) /\ Len(f) = n /\ DOMAIN f = 1..n
  BY <1>1
<1>3. f \o <<>> = f
  BY <1>2
<1> QED
  BY <1>2, <1>3 DEF Written

LEMMA RowsAreCounted ==
    ASSUME NEW count \in Nat
    PROVE  RowCount(count) \in Nat
<1> DEFINE step == [n \in 1..count |-> [x \in Nat |-> 2 * x]]
           link(h, n) == IF n = 0 THEN 1 ELSE 2 * h[n - 1]
           double == CHOOSE h : h = [n \in 0..count |-> link(h, n)]
<1>1. RowCount(count) = double[count]
  BY DEF RowCount
<1>2. \A n \in 1..count : step[n] \in [Nat -> Nat]
  OBVIOUS
<1>3. PICK f : StepsUp(f, count, 1, step)
  <2> HIDE DEF step
  <2> QED
    BY <1>2, StepsAreDefined
<1>4. f \in [0..count -> Nat]
  <2> HIDE DEF step
  <2> QED
    BY <1>2, <1>3, StepsStay
<1>5. \A n \in 0..count : f[n] = link(f, n)
  <2>1. f = [n \in 0..count |-> IF n = 0 THEN 1 ELSE step[n][f[n - 1]]]
    BY <1>3 DEF StepsUp
  <2> TAKE n \in 0..count
  <2>2. CASE n = 0
    BY <2>1, <2>2
  <2>3. CASE n # 0
    <3>1. n \in 1..count /\ n - 1 \in 0..count
      BY <2>3
    <3>2. f[n] = step[n][f[n - 1]] /\ f[n - 1] \in Nat
      BY <2>1, <3>1, <2>3, <1>4
    <3>3. step[n][f[n - 1]] = 2 * f[n - 1]
      BY <3>1, <3>2
    <3> HIDE DEF step
    <3> QED
      BY <2>3, <3>2, <3>3
  <2> QED
    BY <2>2, <2>3
<1>6. f = [n \in 0..count |-> link(f, n)]
  <2>1. f = [n \in 0..count |-> f[n]]
    BY <1>4
  <2> HIDE DEF link
  <2> QED
    BY <1>5, <2>1
<1>7. double = [n \in 0..count |-> link(double, n)]
  <2> HIDE DEF link
  <2> QED
    BY <1>6
<1> HIDE DEF double
<1>8. \A n \in 0..count : double[n] = link(double, n)
  <2> HIDE DEF link
  <2> QED
    BY <1>7
<1> DEFINE S == {n \in 0..count : double[n] \in Nat}
<1>9. 0 \in S
  BY <1>8
<1>10. \A n \in 0..count : n \in S /\ n < count => n + 1 \in S
  <2> SUFFICES ASSUME NEW n \in 0..count, n \in S, n < count
               PROVE  n + 1 \in S
    OBVIOUS
  <2>1. n + 1 \in 0..count /\ n + 1 # 0 /\ (n + 1) - 1 = n
    OBVIOUS
  <2>2. double[n + 1] = 2 * double[n]
    BY <1>8, <2>1
  <2> QED
    BY <2>1, <2>2
<1>11. 0..count \subseteq S
  <2> HIDE DEF S
  <2> QED
    BY <1>9, <1>10, CountingUp
<1> QED
  BY <1>1, <1>11

\* The rows of a table: those of the same inputs have the same outputs.
Rows(count, outs) == [inputs : [1..count -> BOOLEAN], outputs : [outs -> BOOLEAN]]
IsTable(rows, count, outs) ==
    /\ rows \in Seq(Rows(count, outs))
    /\ \A i, j \in DOMAIN rows : rows[i].inputs = rows[j].inputs => rows[i].outputs = rows[j].outputs

LEMMA RowIsARow ==
    ASSUME NEW W, NEW drivers, NEW outputs, NEW count, NEW bits \in [1..count -> BOOLEAN]
    PROVE  TruthRow(W, drivers, outputs, bits) \in Rows(count, DOMAIN outputs)
           /\ TruthRow(W, drivers, outputs, bits).inputs = bits
<1> DEFINE state == SettleTicks(DrivenWorld(W, drivers, bits), SettleCount)
           lit(k) == SignalAt(state.signals, outputs[k].anchor) > 0
           outs == [k \in DOMAIN outputs |-> lit(k)]
<1>1. TruthRow(W, drivers, outputs, bits) = [inputs |-> bits, outputs |-> outs]
  BY DEF TruthRow
<1> HIDE DEF state
<1>2. \A k : lit(k) \in BOOLEAN
  OBVIOUS
<1>3. outs \in [DOMAIN outputs -> BOOLEAN]
  <2> HIDE DEF lit
  <2> QED
    BY <1>2
<1> HIDE DEF outs
<1> QED
  BY <1>1, <1>3 DEF Rows

LEMMA TablesAreTables ==
    ASSUME NEW scene, NEW found, Len(found) \in Nat, NEW outputs
    PROVE  IsTable(TruthTable(scene, found, outputs).rows, Len(found), DOMAIN outputs)
<1> DEFINE count == Len(found)
           drivers == Written([i \in 1..count |-> FirstOf(found[i])])
           row(n) == TruthRow(scene.world, drivers, outputs, Bits(count, n))
           size == RowCount(count)
           rows == [n \in 1..size |-> row(n)]
           table == TruthTable(scene, found, outputs)
<1>1. table.rows = <<>> \/ table.rows = Written(rows)
  BY DEF TruthTable
<1>2. IsTable(<<>>, count, DOMAIN outputs)
  BY DEF IsTable
<1> HIDE DEF drivers, table
<1>3. \A n : Bits(count, n) \in [1..count -> BOOLEAN]
  BY DEF Bits
<1>4. \A n : row(n) \in Rows(count, DOMAIN outputs) /\ row(n).inputs = Bits(count, n)
  BY <1>3, RowIsARow
<1>5. \A m, n : Bits(count, m) = Bits(count, n) => row(m) = row(n)
  OBVIOUS
<1>6. size \in Nat
  BY RowsAreCounted
<1> HIDE DEF row, size
<1>7. Written(rows) = rows /\ DOMAIN rows = 1..size
  <2>1. rows = [n \in 1..size |-> rows[n]]
    OBVIOUS
  <2> HIDE DEF rows
  <2> QED
    BY <2>1, <1>6, WrittenIsItself
<1>8. rows \in Seq(Rows(count, DOMAIN outputs))
  <2>1. rows \in [1..size -> Rows(count, DOMAIN outputs)]
    BY <1>4
  <2> HIDE DEF rows
  <2> QED
    BY <2>1, <1>6
<1>9. \A i, j \in DOMAIN rows : rows[i].inputs = rows[j].inputs => rows[i].outputs = rows[j].outputs
  <2> TAKE i, j \in DOMAIN rows
  <2>1. rows[i] = row(i) /\ rows[j] = row(j)
    OBVIOUS
  <2> QED
    BY <2>1, <1>4, <1>5
<1>10. IsTable(rows, count, DOMAIN outputs)
  BY <1>8, <1>9 DEF IsTable
<1> QED
  BY <1>1, <1>2, <1>7, <1>10 DEF table

Literal(i, value) == IF value THEN Input(i) ELSE Expr("not", <<Input(i)>>)
Term(count, row) == Expr("and", [i \in 1..count |-> Literal(i, row.inputs[i])])

LEMMA LiteralReads ==
    ASSUME NEW count \in Nat, NEW i \in 1..count, NEW value \in BOOLEAN
    PROVE  /\ Literal(i, value) \in Fit(Fit({}, count), count)
           /\ \A inputs \in [1..count -> BOOLEAN] :
                EvaluateExpr(Literal(i, value), Environment(inputs)) <=> inputs[i] = value
<1> DEFINE a == Fit({}, count)
           b == Fit(a, count)
<1>1. a \subseteq b /\ b \subseteq Readable(count)
  BY FitLevels
<1>2. Input(i) \in a
  BY InputFits
<1>3. Expr("not", <<Input(i)>>) \in b
  <2>1. <<Input(i)>> \in Seq(a) /\ "not" \in Operators \ {"var"}
    BY <1>2, OneIsASequence DEF Operators
  <2> HIDE DEF a
  <2> QED
    BY <2>1, ExprFits
<1> HIDE DEF a, b
<1>4. Literal(i, value) \in b
  BY <1>1, <1>2, <1>3 DEF Literal
<1>5. Input(i) \in Exprs /\ Expr("not", <<Input(i)>>) \in Exprs
  BY <1>1, <1>2, <1>3, ReadableParts
<1>6. ASSUME NEW inputs \in [1..count -> BOOLEAN]
      PROVE  EvaluateExpr(Literal(i, value), Environment(inputs)) <=> inputs[i] = value
  <2> DEFINE env == Environment(inputs)
  <2>1. EvaluateExpr(Input(i), env) = inputs[i]
    <3>1. Input(i).op = "var" /\ Input(i).name = Named("in", i)
      BY DEF Input, Var
    <3>2. EvaluateExpr(Input(i), env) = env[Named("in", i)]
      BY <1>5, <3>1, ExprApplies DEF Apply
    <3> QED
      BY <3>2, EnvironmentIsTheRow
  <2>2. EvaluateExpr(Expr("not", <<Input(i)>>), env) = ~inputs[i]
    <3> DEFINE e == Expr("not", <<Input(i)>>)
    <3>1. e.op = "not" /\ e.args = <<Input(i)>>
      BY DEF Expr
    <3>2. DOMAIN e.args = {1} /\ e.args[1] = Input(i)
      BY <3>1
    <3> DEFINE values == [j \in DOMAIN e.args |-> EvaluateExpr(e.args[j], env)]
    <3>3. values[1] = EvaluateExpr(Input(i), env)
      BY <3>2
    <3>4. EvaluateExpr(e, env) = Apply(e.op, e.name, values, env)
      BY <1>5, ExprApplies
    <3> HIDE DEF values, e
    <3>5. Apply("not", e.name, values, env) = ~values[1]
      BY DEF Apply
    <3> QED
      BY <3>1, <3>3, <3>4, <3>5, <2>1 DEF e
  <2> HIDE DEF env
  <2>3. inputs[i] \in BOOLEAN
    OBVIOUS
  <2> QED
    BY <2>1, <2>2, <2>3 DEF Literal, env
<1> QED
  BY <1>4, <1>6 DEF a, b

LEMMA TermReads ==
    ASSUME NEW count \in Nat, NEW row, row.inputs \in [1..count -> BOOLEAN]
    PROVE  /\ Term(count, row) \in Fit(Fit(Fit({}, count), count), count)
           /\ \A inputs \in [1..count -> BOOLEAN] :
                EvaluateExpr(Term(count, row), Environment(inputs)) <=> inputs = row.inputs
<1> DEFINE b == Fit(Fit({}, count), count)
           c == Fit(b, count)
           literals == [i \in 1..count |-> Literal(i, row.inputs[i])]
           e == Term(count, row)
<1>1. b \subseteq c /\ c \subseteq Readable(count)
  BY FitLevels
<1>2. \A i \in 1..count : row.inputs[i] \in BOOLEAN
  OBVIOUS
<1>3. \A i \in 1..count : Literal(i, row.inputs[i]) \in b
  BY <1>2, LiteralReads
<1> HIDE DEF b
<1>4. literals \in Seq(b) /\ DOMAIN literals = 1..count
  <2>1. literals \in [1..count -> b]
    BY <1>3
  <2> HIDE DEF literals
  <2> QED
    BY <2>1
<1>5. e = Expr("and", literals)
  BY DEF Term
<1>6. \A i \in 1..count : literals[i] = Literal(i, row.inputs[i])
  OBVIOUS
<1> HIDE DEF literals, e
<1>7. e \in c
  <2>1. "and" \in Operators \ {"var"}
    BY DEF Operators
  <2> QED
    BY <2>1, <1>4, <1>5, ExprFits
<1>8. e \in Exprs
  BY <1>1, <1>7, ReadableParts
<1>9. e.op = "and" /\ e.args = literals
  BY <1>5 DEF Expr
<1>10. ASSUME NEW inputs \in [1..count -> BOOLEAN]
       PROVE  EvaluateExpr(e, Environment(inputs)) <=> inputs = row.inputs
  <2> DEFINE env == Environment(inputs)
             values == [i \in DOMAIN e.args |-> EvaluateExpr(e.args[i], env)]
  <2>1. EvaluateExpr(e, env) = Apply("and", e.name, values, env)
    BY <1>8, <1>9, ExprApplies
  <2>2. Apply("and", e.name, values, env) = \A i \in DOMAIN values : values[i]
    <3> HIDE DEF values
    <3> QED
      BY DEF Apply
  <2>3. DOMAIN values = 1..count /\ \A i \in 1..count : values[i] = EvaluateExpr(Literal(i, row.inputs[i]), env)
    BY <1>4, <1>6, <1>9
  <2>4. \A i \in 1..count : EvaluateExpr(Literal(i, row.inputs[i]), env) <=> inputs[i] = row.inputs[i]
    BY <1>2, LiteralReads
  <2> HIDE DEF values, env
  <2>5. (\A i \in DOMAIN values : values[i]) <=> \A i \in 1..count : inputs[i] = row.inputs[i]
    BY <2>3, <2>4
  <2>6. (\A i \in 1..count : inputs[i] = row.inputs[i]) <=> inputs = row.inputs
    OBVIOUS
  <2> QED
    BY <2>1, <2>2, <2>5, <2>6 DEF env
<1> QED
  BY <1>7, <1>10 DEF b, c, e

SumOf(products) ==
    IF products = <<>> THEN Const(FALSE)
    ELSE IF Len(products) = 1 THEN products[1] ELSE Expr("or", products)

LEMMA SumReads ==
    ASSUME NEW count \in Nat, NEW products \in Seq(Fit(Fit(Fit({}, count), count), count))
    PROVE  /\ SumOf(products) \in Readable(count)
           /\ \A env : EvaluateExpr(SumOf(products), env)
                          <=> \E i \in DOMAIN products : EvaluateExpr(products[i], env)
<1> DEFINE a == Fit({}, count)
           b == Fit(a, count)
           c == Fit(b, count)
           e == SumOf(products)
<1>1. a \subseteq b /\ b \subseteq c /\ c \subseteq Readable(count) /\ Readable(count) = Fit(c, count)
  BY FitLevels
<1>2. CASE products = <<>>
  <2>1. e = Expr("false", <<>>)
    BY <1>2 DEF SumOf, Const
  <2>2. Expr("false", <<>>) \in a
    <3>1. <<>> \in Seq({}) /\ "false" \in Operators \ {"var"}
      BY DEF Operators
    <3> QED
      BY <3>1, ExprFits
  <2> HIDE DEF a, b, c, e
  <2>3. e \in Readable(count) /\ e \in Exprs /\ e.op = "false"
    BY <1>1, <2>1, <2>2, ReadableParts DEF Expr
  <2>4. \A env : EvaluateExpr(e, env) = FALSE
    BY <2>3, ExprApplies DEF Apply
  <2>5. DOMAIN products = {}
    BY <1>2
  <2> QED
    BY <2>3, <2>4, <2>5 DEF e
<1>3. CASE products # <<>> /\ Len(products) = 1
  <2> HIDE DEF a, b, c
  <2>1. e = products[1] /\ DOMAIN products = {1} /\ products[1] \in c
    BY <1>3 DEF SumOf, c, b, a
  <2> QED
    BY <1>1, <2>1 DEF e
<1>4. CASE products # <<>> /\ Len(products) # 1
  <2>1. e = Expr("or", products)
    BY <1>4 DEF SumOf
  <2>2. "or" \in Operators \ {"var"}
    BY DEF Operators
  <2>3. products \in Seq(c)
    OBVIOUS
  <2> HIDE DEF a, b, c, e
  <2>4. e \in Readable(count)
    BY <1>1, <2>1, <2>2, <2>3, ExprFits
  <2>5. e \in Exprs /\ e.op = "or" /\ e.args = products
    BY <2>1, <2>4, ReadableParts DEF Expr
  <2>6. ASSUME NEW env
        PROVE  EvaluateExpr(e, env) <=> \E i \in DOMAIN products : EvaluateExpr(products[i], env)
    <3> DEFINE values == [i \in DOMAIN e.args |-> EvaluateExpr(e.args[i], env)]
    <3>1. EvaluateExpr(e, env) = Apply("or", e.name, values, env)
      BY <2>5, ExprApplies
    <3>2. DOMAIN values = DOMAIN products /\ \A i \in DOMAIN products : values[i] = EvaluateExpr(products[i], env)
      BY <2>5
    <3> HIDE DEF values
    <3>3. Apply("or", e.name, values, env) = \E i \in DOMAIN values : values[i]
      BY DEF Apply
    <3> QED
      BY <3>1, <3>2, <3>3
  <2> QED
    BY <2>4, <2>6 DEF e
<1> HIDE DEF e
<1> QED
  BY <1>2, <1>3, <1>4 DEF e

TermsOn(rows, k, count) == {Term(count, rows[i]) : i \in {j \in DOMAIN rows : rows[j].outputs[k]}}

\* The products of a table are the terms of its rows whose output is on.
LEMMA ProductsOfATable ==
    ASSUME NEW count \in Nat, NEW outs, NEW k \in outs, NEW rows, IsTable(rows, count, outs)
    PROVE  \E products \in Seq(Fit(Fit(Fit({}, count), count), count)) :
              /\ SumOfProducts(rows, k, count) = SumOf(products)
              /\ On(products) = TermsOn(rows, k, count)
<1> DEFINE c == Fit(Fit(Fit({}, count), count), count)
           size == Len(rows)
           more(s, n) == IF rows[n].outputs[k] THEN Append(s, Term(count, rows[n])) ELSE s
           step == [n \in 1..size |-> [s \in Seq(c) |-> more(s, n)]]
           link(h, n) == IF n = 0 THEN <<>> ELSE more(h[n - 1], n)
           terms == CHOOSE h : h = [n \in 0..size |-> link(h, n)]
           on(n) == {Term(count, rows[i]) : i \in {j \in 1..n : rows[j].outputs[k]}}
<1>1. SumOfProducts(rows, k, count) = SumOf(terms[size])
  BY DEF SumOfProducts, SumOf, Term, Literal
<1>2. size \in Nat /\ DOMAIN rows = 1..size /\ \A n \in 1..size : rows[n] \in Rows(count, outs)
  BY DEF IsTable
<1>3. \A n \in 1..size : Term(count, rows[n]) \in c
  <2> TAKE n \in 1..size
  <2>1. rows[n].inputs \in [1..count -> BOOLEAN]
    BY <1>2 DEF Rows
  <2> QED
    BY <2>1, TermReads
<1> HIDE DEF c, size
<1>4. \A n \in 1..size : \A s \in Seq(c) : more(s, n) \in Seq(c)
  BY <1>3
<1>5. \A n \in 1..size : step[n] \in [Seq(c) -> Seq(c)]
  <2> HIDE DEF more
  <2> QED
    BY <1>4
<1>6. <<>> \in Seq(c)
  OBVIOUS
<1>7. PICK f : StepsUp(f, size, <<>>, step)
  <2> HIDE DEF step
  <2> QED
    BY <1>2, <1>5, <1>6, StepsAreDefined
<1>8. f \in [0..size -> Seq(c)]
  <2> HIDE DEF step
  <2> QED
    BY <1>2, <1>5, <1>6, <1>7, StepsStay
<1>9. \A n \in 0..size : f[n] = link(f, n)
  <2>1. f = [n \in 0..size |-> IF n = 0 THEN <<>> ELSE step[n][f[n - 1]]]
    BY <1>7 DEF StepsUp
  <2> TAKE n \in 0..size
  <2>2. CASE n = 0
    BY <2>1, <2>2
  <2>3. CASE n # 0
    <3>1. n \in 1..size /\ n - 1 \in 0..size
      BY <1>2, <2>3
    <3>2. f[n] = step[n][f[n - 1]] /\ f[n - 1] \in Seq(c)
      BY <2>1, <3>1, <2>3, <1>8
    <3> HIDE DEF more
    <3>3. step[n][f[n - 1]] = more(f[n - 1], n)
      BY <3>1, <3>2
    <3> HIDE DEF step
    <3> QED
      BY <2>3, <3>2, <3>3
  <2> QED
    BY <2>2, <2>3
<1>10. f = [n \in 0..size |-> link(f, n)]
  <2>1. f = [n \in 0..size |-> f[n]]
    BY <1>8
  <2> HIDE DEF link
  <2> QED
    BY <1>9, <2>1
<1>11. terms = [n \in 0..size |-> link(terms, n)]
  <2> HIDE DEF link
  <2> QED
    BY <1>10
<1> HIDE DEF terms
<1>12. \A n \in 0..size : terms[n] = link(terms, n)
  <2> HIDE DEF link
  <2> QED
    BY <1>11
<1> DEFINE S == {n \in 0..size : terms[n] \in Seq(c) /\ On(terms[n]) = on(n)}
<1>13. 0 \in S
  <2>1. terms[0] = <<>> /\ 0 \in 0..size
    BY <1>2, <1>12
  <2>2. On(<<>>) = {} /\ on(0) = {}
    BY DEF On
  <2> QED
    BY <1>6, <2>1, <2>2
<1>14. \A n \in 0..size : n \in S /\ n < size => n + 1 \in S
  <2> SUFFICES ASSUME NEW n \in 0..size, n \in S, n < size
               PROVE  n + 1 \in S
    OBVIOUS
  <2>1. n + 1 \in 0..size /\ n + 1 # 0 /\ (n + 1) - 1 = n /\ n + 1 \in 1..size /\ n \in Nat
    BY <1>2
  <2>2. terms[n + 1] = more(terms[n], n + 1)
    BY <1>12, <2>1
  <2>3. terms[n] \in Seq(c) /\ On(terms[n]) = on(n)
    OBVIOUS
  <2>4. 1..(n + 1) = 1..n \cup {n + 1}
    BY <2>1
  <2>5. CASE rows[n + 1].outputs[k]
    <3> DEFINE t == Term(count, rows[n + 1])
    <3>1. terms[n + 1] = Append(terms[n], t)
      BY <2>2, <2>5
    <3>2. t \in c
      BY <1>3, <2>1
    <3> HIDE DEF t
    <3>3. \A s \in Seq(c) : Append(s, t) \in Seq(c) /\ On(Append(s, t)) = On(s) \cup {t}
      <4> TAKE s \in Seq(c)
      <4> DEFINE u == Append(s, t)
      <4>1. u \in Seq(c) /\ Len(u) = Len(s) + 1 /\ DOMAIN u = 1..Len(u) /\ DOMAIN s = 1..Len(s) /\ Len(s) \in Nat
        BY <3>2
      <4>2. u[Len(s) + 1] = t /\ \A i \in 1..Len(s) : u[i] = s[i]
        BY <3>2
      <4> HIDE DEF u
      <4>3. 1..(Len(s) + 1) = 1..Len(s) \cup {Len(s) + 1}
        BY <4>1
      <4>4. On(u) = On(s) \cup {t}
        BY <4>1, <4>2, <4>3 DEF On
      <4> QED
        BY <4>1, <4>4 DEF u
    <3>4. on(n + 1) = on(n) \cup {t}
      BY <2>4, <2>5 DEF t
    <3> QED
      BY <2>1, <2>3, <3>1, <3>3, <3>4
  <2>6. CASE ~rows[n + 1].outputs[k]
    <3>1. terms[n + 1] = terms[n]
      BY <2>2, <2>6
    <3>2. on(n + 1) = on(n)
      BY <2>4, <2>6
    <3> QED
      BY <2>1, <2>3, <3>1, <3>2
  <2> QED
    BY <2>5, <2>6
<1>15. 0..size \subseteq S
  <2> HIDE DEF S
  <2> QED
    BY <1>2, <1>13, <1>14, CountingUp
<1>16. terms[size] \in Seq(c) /\ On(terms[size]) = on(size)
  <2>1. size \in S
    <3> HIDE DEF S
    <3> QED
      BY <1>2, <1>15
  <2> HIDE DEF on
  <2> QED
    BY <2>1
<1>17. on(size) = TermsOn(rows, k, count)
  BY <1>2 DEF TermsOn
<1> HIDE DEF on
<1> QED
  BY <1>1, <1>16, <1>17 DEF c

\* An expression that is read for an output has its value in every row.
LEMMA OutputsAreRead ==
    ASSUME NEW count \in Nat, NEW outs, NEW k \in outs, NEW rows, IsTable(rows, count, outs)
    PROVE  LET e == OutputExpression(rows, k, count)
           IN  e \in Readable(count) /\ Matches(rows, k, e)
<1> DEFINE e == OutputExpression(rows, k, count)
           fitting == {f \in CandidateExpressions(count) : Matches(rows, k, f)}
           sum == SumOfProducts(rows, k, count)
<1>1. e = IF fitting # {} THEN CHOOSE f \in fitting : \A g \in fitting : Size(f) <= Size(g) ELSE sum
  BY DEF OutputExpression
<1> HIDE DEF e, fitting, sum
<1>2. CASE fitting # {}
  <2>1. fitting \subseteq Readable(count) /\ fitting \subseteq Exprs
    BY CandidatesAreReadable, ReadableParts DEF fitting
  <2>2. \E f \in fitting : \A g \in fitting : Size(f) <= Size(g)
    BY <1>2, <2>1, OneIsSmallest
  <2>3. e \in fitting
    BY <1>1, <1>2, <2>2
  <2> QED
    BY <2>1, <2>3 DEF fitting, e
<1>3. CASE fitting = {}
  <2>1. PICK products \in Seq(Fit(Fit(Fit({}, count), count), count)) :
              /\ sum = SumOf(products)
              /\ On(products) = TermsOn(rows, k, count)
    <3> HIDE DEF sum
    <3>1. sum = SumOfProducts(rows, k, count)
      BY DEF sum
    <3> QED
      BY <3>1, ProductsOfATable
  <2>2. sum \in Readable(count)
    BY <2>1, SumReads
  <2>3. ASSUME NEW i \in DOMAIN rows
        PROVE  EvaluateExpr(sum, Environment(rows[i].inputs)) = rows[i].outputs[k]
    <3> DEFINE env == Environment(rows[i].inputs)
    <3>1. \A j \in DOMAIN rows : rows[j].inputs \in [1..count -> BOOLEAN] /\ rows[j].outputs \in [outs -> BOOLEAN]
      <4>1. \A j \in DOMAIN rows : rows[j] \in Rows(count, outs)
        BY DEF IsTable
      <4> QED
        BY <4>1 DEF Rows
    <3>2. \A j \in DOMAIN rows : EvaluateExpr(Term(count, rows[j]), env) <=> rows[i].inputs = rows[j].inputs
      BY <3>1, TermReads
    <3>3. EvaluateExpr(sum, env) \in BOOLEAN
      BY <2>2, <3>1, RowsAreSound, ExprIsBoolean
    <3>4. rows[i].outputs[k] \in BOOLEAN
      BY <3>1
    <3> HIDE DEF env
    <3>5. EvaluateExpr(sum, env) <=> \E m \in DOMAIN products : EvaluateExpr(products[m], env)
      BY <2>1, SumReads
    <3>6. (\E m \in DOMAIN products : EvaluateExpr(products[m], env)) <=> \E t \in On(products) : EvaluateExpr(t, env)
      BY DEF On
    <3>7. (\E t \in On(products) : EvaluateExpr(t, env))
             <=> \E j \in DOMAIN rows : rows[j].outputs[k] /\ rows[i].inputs = rows[j].inputs
      BY <2>1, <3>2 DEF TermsOn
    <3>8. (\E j \in DOMAIN rows : rows[j].outputs[k] /\ rows[i].inputs = rows[j].inputs) <=> rows[i].outputs[k]
      <4>1. \A j \in DOMAIN rows : rows[i].inputs = rows[j].inputs => rows[i].outputs = rows[j].outputs
        BY DEF IsTable
      <4> QED
        BY <4>1
    <3>9. EvaluateExpr(sum, env) <=> rows[i].outputs[k]
      BY <3>5, <3>6, <3>7, <3>8
    <3> QED
      BY <3>3, <3>4, <3>9 DEF env
  <2>4. Matches(rows, k, sum)
    BY <2>3 DEF Matches
  <2> QED
    BY <1>1, <1>3, <2>2, <2>4 DEF e
<1> QED
  BY <1>2, <1>3 DEF e

-----------------------------------------------------------------------------
(* What is read of a scene.                                                *)

LEMMA OnePerPlace ==
    ASSUME NEW I, IsFiniteSet(I), NEW h, DOMAIN h = I, NEW S, S \subseteq {h[i] : i \in I}
    PROVE  IsFiniteSet(S)
<1> DEFINE T == {h[i] : i \in I}
           g == [i \in I |-> h[i]]
<1>1. g \in Surjection(I, T)
  BY DEF Surjection
<1>2. IsFiniteSet(T)
  <2> HIDE DEF g, T
  <2> QED
    BY <1>1, FS_Surjection
<1> QED
  BY <1>2, FS_Subset

IsAList(s) == \E n \in Nat : s = [i \in 1..n |-> s[i]]

LEMMA TerminalsAreLists ==
    ASSUME NEW scene, NEW pairs, NEW components, IsFiniteSet(DOMAIN components)
    PROVE  /\ IsAList(Terminals(scene, pairs, components).inputs)
           /\ IsAList(Terminals(scene, pairs, components).outputs)
<1>1. ASSUME NEW S, IsFiniteSet(S) PROVE IsAList(ByComponent(S))
  <2>1. Cardinality(S) \in Nat
    BY <1>1, FS_CardinalityType
  <2> DEFINE placed == {<<Cardinality({y \in S \ {x} : y.component < x.component}) + 1, x>> : x \in S}
  <2>2. ByComponent(S) = [i \in 1..Cardinality(S) |-> (CHOOSE r \in placed : r[1] = i)[2]]
    BY DEF ByComponent, Sorted
  <2> HIDE DEF placed
  <2>3. ByComponent(S) = [i \in 1..Cardinality(S) |-> ByComponent(S)[i]]
    BY <2>2
  <2> QED
    BY <2>1, <2>3 DEF IsAList
<1>2. \A end, other : IsFiniteSet(BufferedBoundaries(scene, components, end, other))
  <2> TAKE end, other
  <2> DEFINE found == {b \in BoundaryCells(scene.world) :
                         ~ExternallyConnected(scene, b, b[end]) /\ ExternallyConnected(scene, b, b[other])}
             of(id) == {b[2] : b \in {c \in found : c[end] \in components[id]}}
             anchor(p) == (CHOOSE b \in found : b[2] = p)[end]
             I == {i \in DOMAIN components : of(i) # {}}
             h == [id \in I |-> TerminalAt(anchor(LastOf(of(id))), id)]
             S == BufferedBoundaries(scene, components, end, other)
  <2>1. S = {TerminalAt(anchor(LastOf(of(id))), id) : id \in I}
    BY DEF BufferedBoundaries
  <2>2. I \subseteq DOMAIN components
    OBVIOUS
  <2> HIDE DEF found, of, anchor, I
  <2>3. S \subseteq {h[id] : id \in I}
    BY <2>1
  <2>4. IsFiniteSet(I) /\ DOMAIN h = I
    BY <2>2, FS_Subset
  <2> HIDE DEF S, h
  <2> QED
    BY <2>3, <2>4, OnePerPlace DEF S
<1>3. \A I \in SUBSET DOMAIN components : IsFiniteSet(UNION {InferInput(scene.world, components[id], id) : id \in I})
  <2> TAKE I \in SUBSET DOMAIN components
  <2> DEFINE W == scene.world
             certain(id) == {p \in components[id] : KindAt(W, p) \in {"lever", "redstone_block"}}
             likely(id) == components[id] \cap Wires(W)
             best(id) == IF certain(id) # {} THEN certain(id) ELSE likely(id)
             h == [id \in I |-> TerminalAt(FirstOf(best(id)), id)]
             S == UNION {InferInput(W, components[id], id) : id \in I}
  <2>1. \A id \in I : InferInput(W, components[id], id) = {TerminalAt(FirstOf(T), id) : T \in {best(id)} \ {{}}}
    BY DEF InferInput
  <2> HIDE DEF best
  <2>2. S \subseteq {h[id] : id \in I}
    BY <2>1
  <2>3. IsFiniteSet(I) /\ DOMAIN h = I
    BY FS_Subset
  <2> HIDE DEF S, h
  <2> QED
    BY <2>2, <2>3, OnePerPlace DEF S
<1>4. \A I \in SUBSET DOMAIN components : IsFiniteSet(UNION {InferOutput(scene.world, components[id], id) : id \in I})
  <2> TAKE I \in SUBSET DOMAIN components
  <2> DEFINE W == scene.world
             outlets(id) == {p \in components[id] : KindAt(W, p) \in {"wire", "repeater", "piston"}}
             h == [id \in I |-> TerminalAt(LastOf(outlets(id)), id)]
             S == UNION {InferOutput(W, components[id], id) : id \in I}
  <2>1. \A id \in I : InferOutput(W, components[id], id) = {TerminalAt(LastOf(T), id) : T \in {outlets(id)} \ {{}}}
    BY DEF InferOutput
  <2> HIDE DEF outlets
  <2>2. S \subseteq {h[id] : id \in I}
    BY <2>1
  <2>3. IsFiniteSet(I) /\ DOMAIN h = I
    BY FS_Subset
  <2> HIDE DEF S, h
  <2> QED
    BY <2>2, <2>3, OnePerPlace DEF S
<1> DEFINE starts == {id \in DOMAIN components :
                        Incoming(pairs, components, id) = {} /\ Outgoing(pairs, components, id) # {}}
           ends == {id \in DOMAIN components :
                        Outgoing(pairs, components, id) = {} /\ Incoming(pairs, components, id) # {}}
           ins == UNION {InferInput(scene.world, components[id], id) : id \in starts}
           outs == UNION {InferOutput(scene.world, components[id], id) : id \in ends}
           bufferedIns == BufferedBoundaries(scene, components, 1, 3)
           bufferedOuts == BufferedBoundaries(scene, components, 3, 1)
<1>5. IsFiniteSet(ins) /\ IsFiniteSet(outs) /\ IsFiniteSet(bufferedIns) /\ IsFiniteSet(bufferedOuts)
  <2>1. starts \in SUBSET DOMAIN components /\ ends \in SUBSET DOMAIN components
    OBVIOUS
  <2> HIDE DEF starts, ends
  <2> QED
    BY <2>1, <1>2, <1>3, <1>4
<1>6. Terminals(scene, pairs, components) =
         IF bufferedIns = {} \/ bufferedOuts = {}
         THEN [inputs |-> ByComponent(ins), outputs |-> ByComponent(outs)]
         ELSE [inputs |-> ByComponent(bufferedIns), outputs |-> ByComponent(bufferedOuts)]
  BY DEF Terminals
<1> HIDE DEF ins, outs, bufferedIns, bufferedOuts
<1> QED
  BY <1>1, <1>5, <1>6

\* The gates of a reading have the outputs of its rows.
Follows(r) ==
    r.logic.ok => \A i \in DOMAIN r.rows, k \in DOMAIN r.outputs :
        Evaluate(r.logic.nodes, Environment(r.rows[i].inputs))[r.logic.outputs[k].node] = r.rows[i].outputs[k]

LEMMA ReadRowsFollow ==
    ASSUME NEW components, NEW terminals, NEW table, NEW count \in Nat, NEW m \in Nat,
           DOMAIN terminals.outputs = 1..m, IsTable(table.rows, count, 1..m),
           NEW expressions, DOMAIN expressions = 1..m,
           \A k \in 1..m : expressions[k] \in Readable(count) /\ Matches(table.rows, k, expressions[k])
    PROVE  Follows(ReadRows(components, terminals, table, expressions))
<1> DEFINE r == ReadRows(components, terminals, table, expressions)
           outputs == [k \in DOMAIN expressions |-> [name |-> Named("o", k), expr |-> expressions[k]]]
           rows == table.rows
<1>1. r.rows = rows /\ r.outputs = terminals.outputs /\ r.logic = LogicFromExpressions(outputs)
  BY DEF ReadRows
<1>2. \A k \in 1..m : Named("o", k) \in Names
  <2>1. \A k \in 1..m : k - 1 \in Nat
    OBVIOUS
  <2> QED
    BY <2>1 DEF Named, Names
<1>3. \A k \in 1..m : expressions[k] \in Exprs
  BY ReadableParts
<1>4. outputs \in Seq(NamedExprs) /\ DOMAIN outputs = 1..m /\ \A k \in 1..m : outputs[k].expr = expressions[k]
  <2>1. outputs \in [1..m -> NamedExprs]
    BY <1>2, <1>3 DEF NamedExprs
  <2>2. \A k \in 1..m : outputs[k].expr = expressions[k]
    OBVIOUS
  <2> HIDE DEF outputs
  <2> QED
    BY <2>1, <2>2
<1> HIDE DEF outputs, r
<1> SUFFICES ASSUME r.logic.ok, NEW i \in DOMAIN rows, NEW k \in 1..m
             PROVE  Evaluate(r.logic.nodes, Environment(rows[i].inputs))[r.logic.outputs[k].node] = rows[i].outputs[k]
  BY <1>1 DEF Follows, r
<1> DEFINE env == Environment(rows[i].inputs)
<1>5. Sound(Readable(count), env)
  <2>1. rows[i] \in Rows(count, 1..m)
    BY DEF IsTable
  <2>2. rows[i].inputs \in [1..count -> BOOLEAN]
    BY <2>1 DEF Rows
  <2> QED
    BY <2>2, RowsAreSound
<1>6. expressions[k] \in Readable(count) /\ EvaluateExpr(expressions[k], env) = rows[i].outputs[k]
  BY DEF Matches
<1> HIDE DEF env
<1>7. Evaluate(r.logic.nodes, env)[r.logic.outputs[k].node] = EvaluateExpr(outputs[k].expr, env)
  BY <1>1, <1>4, <1>5, <1>6, GraphsCompute
<1> QED
  BY <1>4, <1>6, <1>7 DEF env

LEMMA ReadingFollows ==
    ASSUME NEW scene, IsFiniteSet(Ends(FunctionalEdges(scene))), Ends(FunctionalEdges(scene)) \subseteq Position
    PROVE  Follows(Read(scene))
<1> DEFINE pairs == FunctionalEdges(scene)
           components == SignalComponents(pairs)
           terminals == Terminals(scene, pairs, components)
           lists == [i \in DOMAIN terminals.inputs |-> InputDriver(scene, pairs, components, terminals.inputs[i])]
           found == Written(lists)
           table == TruthTable(scene, found, terminals.outputs)
           known == {k \in DOMAIN terminals.outputs : table.error = "none"}
           read == [k \in known |-> OutputExpression(table.rows, k, Len(terminals.inputs))]
<1>1. Read(scene) = ReadRows(components, terminals, table, Written(read))
  BY DEF Read, ReadSignals, ReadComponents, ReadTerminals, ReadTable, InferTruthTable
<1>2. IsFiniteSet(DOMAIN components)
  <2>1. components \in Seq(SUBSET Ends(pairs))
    BY SignalComponentsAreStrong
  <2> HIDE DEF components
  <2>2. DOMAIN components = 1..Len(components) /\ Len(components) \in Nat
    BY <2>1
  <2> QED
    BY <2>2, FS_Interval
<1>3. IsAList(terminals.inputs) /\ IsAList(terminals.outputs)
  <2> HIDE DEF components, pairs
  <2> QED
    BY <1>2, TerminalsAreLists
<1> HIDE DEF terminals, components, pairs
<1>4. PICK n \in Nat : terminals.inputs = [i \in 1..n |-> terminals.inputs[i]]
  BY <1>3 DEF IsAList
<1>5. PICK m \in Nat : terminals.outputs = [i \in 1..m |-> terminals.outputs[i]]
  BY <1>3 DEF IsAList
<1>6. Len(terminals.inputs) = n /\ DOMAIN terminals.inputs = 1..n
  BY <1>4, WrittenIsItself
<1>7. Len(terminals.outputs) = m /\ DOMAIN terminals.outputs = 1..m
  BY <1>5, WrittenIsItself
<1>8. Len(found) = n
  <2>1. lists = [i \in 1..n |-> lists[i]]
    BY <1>6
  <2> HIDE DEF lists
  <2>2. Written(lists) = lists /\ Len(lists) = n
    BY <2>1, WrittenIsItself
  <2> QED
    BY <2>2
<1> HIDE DEF found
<1>9. IsTable(table.rows, n, 1..m)
  BY <1>7, <1>8, TablesAreTables
<1>10. CASE table.error = "none"
  <2>1. known = 1..m
    BY <1>7, <1>10
  <2>2. read = [k \in 1..m |-> OutputExpression(table.rows, k, n)]
    BY <1>6, <2>1
  <2> HIDE DEF table, known, read
  <2>3. read = [k \in 1..m |-> read[k]] /\ \A k \in 1..m : read[k] = OutputExpression(table.rows, k, n)
    BY <2>2
  <2>4. Written(read) = read /\ DOMAIN read = 1..m
    BY <2>3, WrittenIsItself
  <2>5. \A k \in 1..m : read[k] \in Readable(n) /\ Matches(table.rows, k, read[k])
    BY <1>9, <2>3, OutputsAreRead
  <2> QED
    BY <1>1, <1>7, <1>9, <2>4, <2>5, ReadRowsFollow
<1>11. CASE table.error # "none"
  <2>1. table.rows = <<>>
    BY <1>11 DEF TruthTable
  <2>2. Read(scene).rows = <<>>
    BY <1>1, <2>1 DEF ReadRows
  <2> QED
    BY <2>2 DEF Follows
<1> QED
  BY <1>10, <1>11

-----------------------------------------------------------------------------
(* The circuit that is mended: what is in the world is a circuit, and      *)
(* what was read is of the scene that was captured.                        *)

IsCircuit(W) == IsWorld(W) /\ IsFiniteSet(DOMAIN W)
IsPlaced(change) == change.pos \in Position /\ change.after \in Block \cup {Air}

LinksAreThere(scene) ==
    \A c \in scene.links :
        {c.source, c.sink} \subseteq DOMAIN scene.world /\ c.source # c.sink

SceneInv ==
    /\ circuit \in Circuits
    /\ IsCircuit(world)
    /\ captured # None =>
         /\ IsCircuit(captured.world)
         /\ LinksAreThere(captured)
         /\ timing.feedback = ActiveFeedback(captured.world, Dependencies(captured.links))
         /\ reading = Read(captured)
    /\ \A offer \in offers : IsPlaced(offer)

LEMMA StepsAreThere ==
    /\ \A p, d \in Position : Plus(p, d) \in Position
    /\ \A f \in Horizontal : Opposite[f] \in Horizontal
    /\ \A p \in Position : Above(p) \in Position /\ \A f \in Horizontal : Side(p, f) \in Position
<1>1. \A p, d \in Position : Plus(p, d) \in Position
  BY DEF Plus, Position
<1>2. \A f \in Horizontal : Opposite[f] \in Horizontal /\ Offset[f] \in Position
  BY DEF Opposite, Offset, Horizontal, Position
<1>3. <<0, 1, 0>> \in Position
  BY DEF Position
<1> QED
  BY <1>1, <1>2, <1>3 DEF Side, Above

LEMMA WireShapeTyped ==
    ASSUME NEW W, NEW p
    PROVE  WireShape(W, p) \in UNION {[arms -> Shapes] : arms \in SUBSET Horizontal}
<1> DEFINE connected == {f \in Horizontal : InferWireConnection(W, p, f) # "none"}
           arms == IF \E f \in Horizontal : connected = {f}
                   THEN connected \cup {Opposite[f] : f \in connected}
                   ELSE connected
           shape(f) == IF f \in connected THEN InferWireConnection(W, p, f) ELSE "side"
<1>1. \A f : InferWireConnection(W, p, f) \in Shapes
  BY DEF InferWireConnection, WireRise, Shapes
<1>2. WireShape(W, p) = [f \in arms |-> shape(f)]
  BY DEF WireShape
<1>3. \A f \in Horizontal : Opposite[f] \in Horizontal
  BY DEF Opposite, Horizontal
<1>4. arms \in SUBSET Horizontal
  BY <1>3
<1>5. \A f \in arms : shape(f) \in Shapes
  BY <1>1 DEF Shapes
<1> HIDE DEF arms, shape
<1>6. WireShape(W, p) \in [arms -> Shapes]
  BY <1>2, <1>5
<1> QED
  BY <1>4, <1>6

LEMMA ShapingKeepsCircuits ==
    ASSUME NEW W, IsCircuit(W)
    PROVE  IsCircuit(UpdateWireShapes(W))
<1> DEFINE shaped(p) == IF W[p].kind = "wire" THEN [W[p] EXCEPT !.arms = WireShape(W, p)] ELSE W[p]
<1>1. DOMAIN W \subseteq Position /\ IsFiniteSet(DOMAIN W) /\ \A p \in DOMAIN W : W[p] \in Block
  BY DEF IsCircuit, IsWorld
<1>2. \A p \in DOMAIN W : shaped(p) \in Block
  <2> TAKE p \in DOMAIN W
  <2>1. W[p] \in Block
    BY <1>1
  <2>2. \A s \in UNION {[arms -> Shapes] : arms \in SUBSET Horizontal} : [W[p] EXCEPT !.arms = s] \in Block
    BY <2>1 DEF Block
  <2> QED
    BY <2>1, <2>2, WireShapeTyped
<1>3. UpdateWireShapes(W) = [p \in DOMAIN W |-> shaped(p)]
  BY DEF UpdateWireShapes
<1> HIDE DEF shaped
<1>4. UpdateWireShapes(W) \in [DOMAIN W -> Block] /\ DOMAIN UpdateWireShapes(W) = DOMAIN W
  BY <1>2, <1>3
<1> QED
  BY <1>1, <1>4 DEF IsCircuit, IsWorld

LEMMA SettingKeepsCircuits ==
    ASSUME NEW W, IsCircuit(W), NEW p \in Position, NEW b \in Block \cup {Air}
    PROVE  IsCircuit(SetBlock(W, p, b))
<1>1. DOMAIN W \subseteq Position /\ IsFiniteSet(DOMAIN W) /\ \A q \in DOMAIN W : W[q] \in Block
  BY DEF IsCircuit, IsWorld
<1>2. CASE b = Air
  <2>1. SetBlock(W, p, b) = [q \in DOMAIN W \ {p} |-> W[q]]
    BY <1>2 DEF SetBlock
  <2>2. IsFiniteSet(DOMAIN W \ {p})
    BY <1>1, FS_RemoveElement
  <2>3. DOMAIN SetBlock(W, p, b) = DOMAIN W \ {p} /\ SetBlock(W, p, b) \in [DOMAIN W \ {p} -> Block]
    BY <1>1, <2>1
  <2> QED
    BY <1>1, <2>2, <2>3 DEF IsCircuit, IsWorld
<1>3. CASE b # Air
  <2>1. SetBlock(W, p, b) = [q \in DOMAIN W \cup {p} |-> IF q = p THEN b ELSE W[q]]
    BY <1>3 DEF SetBlock
  <2>2. IsFiniteSet(DOMAIN W \cup {p})
    BY <1>1, FS_AddElement
  <2>3. b \in Block
    BY <1>3
  <2>4. DOMAIN SetBlock(W, p, b) = DOMAIN W \cup {p} /\ SetBlock(W, p, b) \in [DOMAIN W \cup {p} -> Block]
    BY <1>1, <2>1, <2>3
  <2> QED
    BY <1>1, <2>2, <2>4 DEF IsCircuit, IsWorld
<1> QED
  BY <1>2, <1>3

LEMMA BoundingKeepsCircuits ==
    ASSUME NEW W, IsCircuit(W), NEW bounds
    PROVE  IsCircuit(BoundedWorld(W, bounds))
<1> DEFINE inside == {q \in DOMAIN W : Inside(bounds, q)}
<1>1. DOMAIN W \subseteq Position /\ IsFiniteSet(DOMAIN W) /\ \A q \in DOMAIN W : W[q] \in Block
  BY DEF IsCircuit, IsWorld
<1>2. inside \subseteq DOMAIN W /\ IsFiniteSet(inside)
  BY <1>1, FS_Subset
<1>3. BoundedWorld(W, bounds) = [p \in inside |-> W[p]]
  BY DEF BoundedWorld
<1> HIDE DEF inside
<1>4. DOMAIN BoundedWorld(W, bounds) = inside /\ BoundedWorld(W, bounds) \in [inside -> Block]
  BY <1>1, <1>2, <1>3
<1> QED
  BY <1>1, <1>2, <1>4 DEF IsCircuit, IsWorld

\* What is read begins with the components.
LEMMA ReadingHasTheComponents ==
    ASSUME NEW scene
    PROVE  Read(scene).components = SignalComponents(FunctionalEdges(scene))
<1>1. \A components, terminals, table, expressions :
        ReadRows(components, terminals, table, expressions).components = components
  BY DEF ReadRows
<1>2. \A components, terminals, table : ReadTable(components, terminals, table).components = components
  BY <1>1 DEF ReadTable
<1> QED
  BY <1>2 DEF Read, ReadSignals, ReadComponents, ReadTerminals

LEMMA FacesAreBeside == \A p \in Position : FacingBetween(p, p) = {}
<1> TAKE p \in Position
<1>1. p[1] \in Int /\ p[2] \in Int /\ p[3] \in Int
  BY DEF Position
<1>2. \A d \in Position : Plus(p, d) = p => d = <<0, 0, 0>>
  <2> TAKE d \in Position
  <2> HAVE Plus(p, d) = p
  <2>1. d[1] \in Int /\ d[2] \in Int /\ d[3] \in Int /\ d = <<d[1], d[2], d[3]>>
    BY DEF Position
  <2>2. p[1] + d[1] = p[1] /\ p[2] + d[2] = p[2] /\ p[3] + d[3] = p[3]
    BY DEF Plus
  <2> QED
    BY <1>1, <2>1, <2>2
<1>3. \A f \in Faces : Flat(f) \in Position /\ Flat(f) # <<0, 0, 0>>
  BY DEF Faces, Flat, Horizontal, Offset, Position
<1>4. \A f \in Horizontal : p # Above(Side(p, f)) /\ p # Below(Side(p, f))
  BY <1>1 DEF Above, Below, Side, Plus, Horizontal, Offset
<1> QED
  BY <1>2, <1>3, <1>4 DEF FacingBetween

\* A link joins two blocks: what faces a place is beside it.
LEMMA LinksJoinComponents ==
    ASSUME NEW W, DOMAIN W \subseteq Position, NEW edges, NEW c \in PortConnections(W, edges)
    PROVE  {c.source, c.sink} \subseteq DOMAIN W /\ c.source # c.sink
<1>1. PICK e \in edges : /\ e.source \in DOMAIN W /\ e.sink \in DOMAIN W
                        /\ \E f \in FacingBetween(e.source, e.sink) :
                             c = [source |-> e.source, sink |-> e.sink, face |-> Back[f]]
  BY DEF PortConnections
<1>2. c.source = e.source /\ c.sink = e.sink /\ FacingBetween(e.source, e.sink) # {}
  BY <1>1
<1>3. e.source \in Position
  BY <1>1
<1>4. FacingBetween(e.source, e.source) = {}
  BY <1>3, FacesAreBeside
<1> QED
  BY <1>1, <1>2, <1>4

LEMMA CaptureReads ==
    ASSUME SceneInv, Capture
    PROVE  SceneInv'
<1> DEFINE W == BoundedWorld(world, circuit.bounds)
           scene == Scene(world, circuit.bounds)
<1>1. IsCircuit(W)
  BY BoundingKeepsCircuits DEF SceneInv
<1>2. scene.world = W /\ scene.links = PortConnections(W, ExtractConnectivity(W))
  BY DEF Scene, SceneOf, SceneWith
<1>3. LinksAreThere(scene)
  BY <1>1, <1>2, LinksJoinComponents DEF LinksAreThere, IsCircuit, IsWorld
<1>4. reading' = Read(captured')
  BY DEF Capture
<1>5. /\ captured' = scene /\ reading' = Read(scene) /\ UNCHANGED <<circuit, world>> /\ offers' = {}
      /\ timing' = Timing(captured'.world, captured'.links)
  BY DEF Capture
<1>6. timing'.feedback = ActiveFeedback(captured'.world, Dependencies(captured'.links))
  BY <1>5 DEF Timing
<1> HIDE DEF W, scene
<1> QED
  BY <1>1, <1>2, <1>3, <1>4, <1>5, <1>6 DEF SceneInv

LEMMA PlainBlocks == MissingWire \in Block /\ Plain("solid") \in Block /\ \A f \in Horizontal : Repeater(f) \in Block
<1>1. <<0, -1, 0>> \in Position
  BY DEF Position
<1>2. <<>> \in UNION {[arms -> Shapes] : arms \in SUBSET Horizontal}
  <2>1. <<>> \in [{} -> Shapes] /\ {} \in SUBSET Horizontal
    OBVIOUS
  <2> QED
    BY <2>1
<1>3. \A k \in {"wire", "repeater", "solid"} : Plain(k) \in Block
  BY <1>1, <1>2 DEF Plain, Block, Kinds, Looks, MaxSignal
<1>4. \A f \in Horizontal : [Plain("repeater") EXCEPT !.facing = f] \in Block
  BY <1>3 DEF Block
<1> QED
  BY <1>3, <1>4 DEF MissingWire, Repeater, Facing

LEMMA ChangeIsPlaced ==
    ASSUME NEW reason, NEW p \in Position, NEW before, NEW b \in Block \cup {Air}
    PROVE  IsPlaced(Change(reason, p, before, b))
BY DEF IsPlaced, Change

LEMMA WiresArePlaced == ASSUME NEW W, IsCircuit(W) PROVE DOMAIN W \subseteq Position /\ Wires(W) \subseteq Position
BY DEF IsCircuit, IsWorld, Wires, OfKind

LEMMA GapsArePlaced ==
    ASSUME NEW W, IsCircuit(W), NEW gaps, NEW g \in AlignedGaps(W, gaps)
    PROVE  g[1] \in Position /\ g[2] \in Horizontal
<1>1. PICK d \in gaps \X Horizontal : d[1][1] \in Wires(W) /\ g = <<Side(d[1][1], d[2]), d[2]>>
  BY DEF AlignedGaps
<1>2. d[1][1] \in Position /\ d[2] \in Horizontal
  BY <1>1, WiresArePlaced
<1>3. Side(d[1][1], d[2]) \in Position
  BY <1>2, StepsAreThere
<1> QED
  BY <1>1, <1>2, <1>3

LEMMA MissingWiresArePlaced ==
    ASSUME NEW W, IsCircuit(W), NEW gaps,
           NEW change \in MissingWireRepairs(W, gaps) \cup MissingDirectionalRepairs(W, gaps)
    PROVE  IsPlaced(change)
<1>1. CASE change \in MissingWireRepairs(W, gaps)
  <2>1. PICK g \in AlignedGaps(W, gaps) : change = Change("connect_missing_wire", g[1], Air, MissingWire)
    BY <1>1 DEF MissingWireRepairs
  <2> QED
    BY <2>1, GapsArePlaced, PlainBlocks, ChangeIsPlaced
<1>2. CASE change \in MissingDirectionalRepairs(W, gaps)
  <2>1. PICK g \in AlignedGaps(W, gaps) :
          \E f \in {g[2], Opposite[g[2]]} : change = Change("insert_directional_component", g[1], Air, Repeater(f))
    BY <1>2 DEF MissingDirectionalRepairs
  <2>2. PICK f \in {g[2], Opposite[g[2]]} : change = Change("insert_directional_component", g[1], Air, Repeater(f))
    BY <2>1
  <2>3. g[1] \in Position /\ g[2] \in Horizontal
    BY GapsArePlaced
  <2>4. f \in Horizontal
    BY <2>3, StepsAreThere DEF Opposite, Horizontal
  <2> QED
    BY <2>2, <2>3, <2>4, PlainBlocks, ChangeIsPlaced
<1> QED
  BY <1>1, <1>2

LEMMA StepsOfStairsArePlaced ==
    ASSUME NEW W, IsCircuit(W), NEW gaps, NEW change \in MissingVerticalWireRepairs(W, gaps)
    PROVE  IsPlaced(change)
<1> DEFINE step(lower, upper) == {Above(Side(lower, f)) : f \in {g \in Horizontal :
                                   upper = Above(Side(Side(lower, g), g))}}
           missing(g) == {p \in step(g[1], g[2]) : Free(W, Above(g[1]))} \cup {p \in step(g[2], g[1]) : Free(W, Above(g[2]))}
<1>1. \A p \in Position : \A q : step(p, q) \subseteq Position
  BY StepsAreThere
<1>2. \A p \in Position, q \in Position : missing(<<p, q>>) \subseteq Position
  BY <1>1
<1>3. \A g : g[1] \in Position /\ g[2] \in Position => missing(g) \subseteq Position
  BY <1>1
<1>4. PICK p \in UNION {missing(g) : g \in {h \in gaps : {h[1], h[2]} \subseteq Wires(W)}} :
        change = Change("connect_missing_wire", p, Air, MissingWire)
  BY DEF MissingVerticalWireRepairs
<1> HIDE DEF missing
<1>5. PICK g \in gaps : g[1] \in Wires(W) /\ g[2] \in Wires(W) /\ p \in missing(g)
  BY <1>4
<1>6. p \in Position
  BY <1>3, <1>5, WiresArePlaced
<1> QED
  BY <1>4, <1>6, PlainBlocks, ChangeIsPlaced

\* A scene as it was captured.
IsSeen(scene) == IsCircuit(scene.world) /\ LinksAreThere(scene)

LEMMA DeadRegionIsThere ==
    ASSUME NEW scene, IsSeen(scene), NEW report
    PROVE  DeadRegion(scene, report) \subseteq DOMAIN scene.world
<1> DEFINE U == DOMAIN scene.world
           lit == report.reachable
           into(S) == {c.source : c \in {d \in scene.links : d.sink \in S}} \ lit
           grow == [S \in SUBSET U |-> S \cup into(S)]
           roots == (UNION {Feeding(scene.links, input) : input \in report.undriven}) \ lit
           body(f) == [S \in SUBSET U |->
                         LET more == S \cup ({c.source : c \in {d \in scene.links : d.sink \in S}} \ report.reachable)
                         IN  IF more = S THEN S ELSE f[more]]
           dead == CHOOSE f : f = body(f)
<1>1. DeadRegion(scene, report) = dead[roots]
  BY DEF DeadRegion
<1>2. roots \in SUBSET U
  BY DEF Feeding, IsSeen, LinksAreThere
<1>3. Grows(grow, U)
  <2>1. \A S : into(S) \subseteq U
    BY DEF IsSeen, LinksAreThere
  <2>2. \A S, T : S \subseteq T => into(S) \subseteq into(T)
    OBVIOUS
  <2> HIDE DEF into, U
  <2>3. grow \in [SUBSET U -> SUBSET U] /\ \A S \in SUBSET U : grow[S] = S \cup into(S)
    BY <2>1
  <2> HIDE DEF grow
  <2> QED
    BY <2>2, <2>3 DEF Grows
<1>4. \A f : body(f) = [S \in SUBSET U |-> IF grow[S] = S THEN S ELSE f[grow[S]]]
  OBVIOUS
<1>5. IsFiniteSet(U)
  BY DEF IsSeen, IsCircuit
<1> HIDE DEF U, grow, body, roots
<1>6. dead = body(dead)
  <2>1. PICK f : GrowsInto(f, grow, U)
    BY <1>3, GrowingIsDefined
  <2>2. f = body(f)
    BY <2>1, <1>4 DEF GrowsInto
  <2> QED
    BY <2>2
<1> HIDE DEF dead
<1>7. GrowsInto(dead, grow, U)
  BY <1>4, <1>6 DEF GrowsInto
<1>8. dead[roots] = Grown(grow, U, roots)
  BY <1>2, <1>3, <1>5, <1>7, GrowingEnds
<1>9. Grown(grow, U, roots) \in SUBSET U
  BY <1>2, <1>3, GrownIsLeast
<1> QED
  BY <1>1, <1>8, <1>9 DEF U

LEMMA BridgesArePlaced ==
    ASSUME NEW scene, IsSeen(scene), NEW report, report.undriven \subseteq RequiredInputs(scene.world),
           NEW change \in LivenessBridgeRepairs(scene, report)
    PROVE  IsPlaced(change)
<1> DEFINE before == {Side(input[1], input[2]) : input \in {i \in Disconnected(scene, report) : i[2] \in Horizontal}}
           beside == UNION {Around(p, -1..1) : p \in DeadRegion(scene, report)}
<1>1. PICK p \in before \cup beside : change = Change("connect_missing_wire", p, Air, MissingWire)
  BY DEF LivenessBridgeRepairs
<1>2. DOMAIN scene.world \subseteq Position
  BY WiresArePlaced DEF IsSeen
<1>3. before \subseteq Position
  <2>1. \A i \in Disconnected(scene, report) : i[1] \in Position
    BY <1>2 DEF Disconnected, RequiredInputs
  <2> QED
    BY <2>1, StepsAreThere
<1>4. beside \subseteq Position
  <2>1. \A q \in DeadRegion(scene, report) : q \in Position
    BY <1>2, DeadRegionIsThere
  <2>2. \A y \in -1..1 : <<0, y, 0>> \in Position
    BY DEF Position
  <2>3. \A q \in Position : Around(q, -1..1) \subseteq Position
    BY <2>2, StepsAreThere DEF Around
  <2> QED
    BY <2>1, <2>3
<1> HIDE DEF before, beside
<1> QED
  BY <1>1, <1>3, <1>4, PlainBlocks, ChangeIsPlaced

LEMMA SupportsArePlaced ==
    ASSUME NEW W, IsCircuit(W), NEW change \in MissingSupportRepairs(W)
    PROVE  IsPlaced(change)
<1>1. PICK s \in UNION {SupportOf(W, p) : p \in SupportIssues(W)} :
        change = Change("restore_component_support", s, Air, Plain("solid"))
  BY DEF MissingSupportRepairs
<1>2. PICK p \in DOMAIN W : s \in SupportOf(W, p)
  BY <1>1 DEF SupportIssues
<1>3. p \in Position /\ W[p].support \subseteq Position
  BY DEF IsCircuit, IsWorld, Block
<1>4. s \in Position
  BY <1>2, <1>3 DEF SupportOf, Plus, Position
<1> QED
  BY <1>1, <1>4, PlainBlocks, ChangeIsPlaced

LEMMA TurnsArePlaced ==
    ASSUME NEW W, IsCircuit(W), NEW p \in DOMAIN W, NEW f \in Horizontal
    PROVE  IsPlaced(Reorient(W, p, f))
<1>1. p \in Position /\ W[p] \in Block
  BY DEF IsCircuit, IsWorld
<1>2. [W[p] EXCEPT !.facing = f] \in Block
  BY <1>1 DEF Block
<1> QED
  BY <1>1, <1>2, ChangeIsPlaced DEF Reorient

LEMMA DirectionsArePlaced ==
    ASSUME NEW scene, IsSeen(scene), NEW report, NEW change \in DirectionRepairs(scene, report)
    PROVE  IsPlaced(change)
<1> DEFINE W == scene.world
           wired(p) == {f \in Horizontal : Side(p, f) \in Wires(W)}
           driven(p) == {f \in wired(p) : /\ wired(p) = {f}
                                          /\ Side(p, f) \in report.reachable
                                          /\ \E input \in Disconnected(scene, report) : input[1] = p}
           facings(p) == IF driven(p) # {} THEN {Opposite[f] : f \in driven(p)}
                         ELSE IF \E f \in wired(p) : wired(p) = {f, Opposite[f]} THEN wired(p) ELSE {}
<1>1. \A p : facings(p) \subseteq Horizontal
  <2>1. \A p : driven(p) \subseteq Horizontal /\ wired(p) \subseteq Horizontal
    OBVIOUS
  <2>2. \A f \in Horizontal : Opposite[f] \in Horizontal
    BY DEF Opposite, Horizontal
  <2> HIDE DEF driven, wired
  <2> QED
    BY <2>1, <2>2
<1>2. DirectionRepairs(scene, report) =
        UNION {{Reorient(W, p, f) : f \in facings(p) \ {W[p].facing}} :
                 p \in {q \in DOMAIN W : W[q].kind \in {"repeater", "comparator"}}}
  BY DEF DirectionRepairs
<1>3. IsCircuit(W)
  BY DEF IsSeen
<1> HIDE DEF W, facings
<1>4. PICK p \in DOMAIN W : \E f \in facings(p) : change = Reorient(W, p, f)
  BY <1>2
<1>5. PICK f \in facings(p) : change = Reorient(W, p, f)
  BY <1>4
<1> QED
  BY <1>1, <1>3, <1>5, TurnsArePlaced

LEMMA ProposalsArePlaced ==
    ASSUME NEW scene, IsSeen(scene), NEW gaps, NEW change \in ProposedChanges(scene, gaps, Report(scene))
    PROVE  IsPlaced(change)
<1>1. Report(scene).undriven \subseteq RequiredInputs(scene.world)
  BY DEF Report, Liveness
<1>2. IsCircuit(scene.world)
  BY DEF IsSeen
<1> QED
  BY <1>1, <1>2, MissingWiresArePlaced, StepsOfStairsArePlaced, BridgesArePlaced, SupportsArePlaced,
     DirectionsArePlaced DEF ProposedChanges

LEMMA ProposingKeeps ==
    ASSUME SceneInv, NEW changes, \A change \in changes : IsPlaced(change), Propose(changes)
    PROVE  SceneInv'
<1>1. \A change \in changes : IsPlaced(Judged(captured, was, change))
  BY DEF IsPlaced, Judged
<1>2. \A judged : Worthwhile(judged) \subseteq judged
  BY DEF Worthwhile
<1>3. offers' = offers \cup Worthwhile({Judged(captured, was, change) : change \in changes})
      /\ UNCHANGED <<circuit, world, captured, reading, timing>>
  BY DEF Propose
<1>4. \A offer \in offers' : IsPlaced(offer)
  BY <1>1, <1>2, <1>3 DEF SceneInv
<1> QED
  BY <1>3, <1>4 DEF SceneInv

LEMMA BecomingKeeps ==
    ASSUME SceneInv, NEW p \in Position, NEW b \in Block \cup {Air}, Becomes(p, b)
    PROVE  IsCircuit(world')
<1>1. IsCircuit(SetBlock(world, p, b))
  BY SettingKeepsCircuits DEF SceneInv
<1>2. world' = UpdateWireShapes(SetBlock(world, p, b))
  BY DEF Becomes
<1> QED
  BY <1>1, <1>2, ShapingKeepsCircuits

LEMMA SceneAtFirst == SceneInit => SceneInv
<1> SUFFICES ASSUME SceneInit
             PROVE  SceneInv
  OBVIOUS
<1>1. circuit \in Circuits /\ world = circuit.world /\ captured = None /\ offers = {}
  BY DEF SceneInit
<1>2. IsCircuit(world)
  BY <1>1, SceneRepairAssumption DEF IsCircuit
<1> QED
  BY <1>1, <1>2 DEF SceneInv

LEMMA SceneKeeps == SceneInv /\ [SceneNext]_sceneVars => SceneInv'
<1> SUFFICES ASSUME SceneInv, [SceneNext]_sceneVars
             PROVE  SceneInv'
  OBVIOUS
<1>1. ASSUME NEW change \in Losses \cup Reorientations, Edit(change)
      PROVE  SceneInv'
  <2>1. IsPlaced(change)
    <3>1. Standing \subseteq DOMAIN world /\ IsCircuit(world)
      BY DEF Standing, SceneInv
    <3>2. CASE change \in Losses
      <4>1. PICK p \in Standing : change = Change("lost", p, world[p], Air)
        BY <3>2 DEF Losses
      <4> QED
        BY <3>1, <4>1, WiresArePlaced, ChangeIsPlaced
    <3>3. CASE change \in Reorientations
      <4>1. PICK turn \in Standing \X Horizontal : change = Reorient(world, turn[1], turn[2])
        BY <3>3 DEF Reorientations
      <4>2. turn[1] \in DOMAIN world /\ turn[2] \in Horizontal
        BY <3>1, <4>1
      <4> QED
        BY <3>1, <4>1, <4>2, TurnsArePlaced
    <3> QED
      BY <3>2, <3>3
  <2>2. Becomes(change.pos, change.after) /\ UNCHANGED <<circuit, captured, reading, timing, offers>>
    BY <1>1 DEF Edit
  <2>3. IsCircuit(world')
    BY <2>1, <2>2, BecomingKeeps DEF IsPlaced
  <2> QED
    BY <2>2, <2>3 DEF SceneInv
<1>2. ASSUME NewRepair
      PROVE  SceneInv'
  <2>1. Propose(ProposedChanges(captured, GapCandidates(captured, MaxGap), Report(captured))) /\ captured # None
    BY <1>2 DEF NewRepair, Propose
  <2>2. IsSeen(captured)
    BY <2>1 DEF SceneInv, IsSeen
  <2> QED
    BY <2>1, <2>2, ProposalsArePlaced, ProposingKeeps
<1>3. ASSUME NEW p \in circuit.targets, NewRemoval(p)
      PROVE  SceneInv'
  <2>1. Propose({Removal(captured, p)}) /\ captured # None /\ p \in DOMAIN captured.world
    BY <1>3 DEF NewRemoval, Propose
  <2>2. p \in Position
    BY <2>1, WiresArePlaced DEF SceneInv
  <2>3. IsPlaced(Removal(captured, p))
    BY <2>2, ChangeIsPlaced DEF Removal
  <2> QED
    BY <2>1, <2>3, ProposingKeeps
<1>4. ASSUME NEW offer \in offers, Accept(offer)
      PROVE  SceneInv'
  <2>1. IsPlaced(offer)
    BY DEF SceneInv
  <2>2. Becomes(offer.pos, offer.after) /\ offers' = offers \ {offer} /\ UNCHANGED <<circuit, captured, reading, timing>>
    BY <1>4 DEF Accept
  <2>3. IsCircuit(world')
    BY <2>1, <2>2, BecomingKeeps DEF IsPlaced
  <2> QED
    BY <2>2, <2>3 DEF SceneInv
<1>5. CASE UNCHANGED sceneVars
  BY <1>5 DEF sceneVars, SceneInv
<1> QED
  BY <1>1, <1>2, <1>3, <1>4, <1>5, CaptureReads DEF SceneNext

\* Whatever is lost, turned, read and mended, the world stays a circuit, every
\* link that was captured joins two blocks that were, every offer is of a place
\* and a block, and the components and the feedback that are known are those of
\* the captured scene (handlers of the scene, repair and timing tools).
THEOREM ScenesAreRead == SceneSpec => []SceneInv
BY SceneAtFirst, SceneKeeps, PTL DEF SceneSpec

LEMMA EndsAreThere ==
    ASSUME NEW scene
    PROVE  Ends(FunctionalEdges(scene)) \subseteq DOMAIN scene.world
<1> DEFINE functional == {p \in DOMAIN scene.world : scene.world[p].kind \in FunctionalKinds}
                         \cup ({e.source : e \in scene.edges} \cap DOMAIN scene.world)
<1>1. \A pair \in FunctionalEdges(scene) : pair[1] \in functional /\ pair[2] \in functional
  BY DEF FunctionalEdges
<1> QED
  BY <1>1 DEF Ends

\* Two positions are in one signal component exactly when a signal gets from
\* each to the other, and no component leads to an earlier one
\* (strongly_connected_components, world_reverse.rs).
THEOREM ComponentsReachEachOther == SceneSpec => []ComponentsAreMutual
<1>1. SceneInv => ComponentsAreMutual
  <2> SUFFICES ASSUME SceneInv, captured # None
               PROVE  LET pairs == FunctionalEdges(captured)
                          links == {[source |-> e[1], sink |-> e[2]] : e \in pairs}
                          reach == UNION {{p} \X Reachable(links, {p}) : p \in Ends(pairs)}
                          mutual(p) == {q \in Ends(pairs) : {<<p, q>>, <<q, p>>} \subseteq reach}
                      IN  /\ On(reading.components) = {mutual(p) : p \in Ends(pairs)}
                          /\ \A i, j \in DOMAIN reading.components :
                               i < j => (reading.components[j] \X reading.components[i]) \cap reach = {}
    BY DEF ComponentsAreMutual
  <2> DEFINE pairs == FunctionalEdges(captured)
             reach == Reach(pairs)
  <2>1. reading.components = SignalComponents(pairs) /\ IsCircuit(captured.world)
    BY ReadingHasTheComponents DEF SceneInv
  <2>2. Ends(pairs) \subseteq DOMAIN captured.world
    BY EndsAreThere
  <2>3. IsFiniteSet(Ends(pairs)) /\ Ends(pairs) \subseteq Position
    BY <2>1, <2>2, FS_Subset DEF IsCircuit, IsWorld
  <2> HIDE DEF pairs
  <2>4. LET components == SignalComponents(pairs)
        IN  /\ On(components) = {{q \in Ends(pairs) : {<<p, q>>, <<q, p>>} \subseteq reach} : p \in Ends(pairs)}
            /\ \A i, j \in DOMAIN components : i < j => (components[j] \X components[i]) \cap reach = {}
    BY <2>3, SignalComponentsAreStrong
  <2> QED
    BY <2>1, <2>4 DEF pairs, Reach, Links
<1> QED
  BY <1>1, ScenesAreRead, PTL

\* The gates a circuit is read as have, for every row of its truth table, the
\* outputs of the row: of the candidates one that fits every row is taken, or
\* else the sum of the rows' products, and lowering it to gates keeps what it
\* computes (infer_output_expressions and logic_from_expressions).
THEOREM GatesAreTrue == SceneSpec => [](captured # None => GatesFollowTheTable)
<1>1. SceneInv => (captured # None => GatesFollowTheTable)
  <2> SUFFICES ASSUME SceneInv, captured # None
               PROVE  GatesFollowTheTable
    OBVIOUS
  <2> DEFINE pairs == FunctionalEdges(captured)
  <2>1. reading = Read(captured) /\ IsCircuit(captured.world)
    BY DEF SceneInv
  <2>2. Ends(pairs) \subseteq DOMAIN captured.world
    BY EndsAreThere
  <2>3. IsFiniteSet(Ends(pairs)) /\ Ends(pairs) \subseteq Position
    BY <2>1, <2>2, FS_Subset DEF IsCircuit, IsWorld
  <2>4. Follows(reading)
    BY <2>1, <2>3, ReadingFollows
  <2> QED
    BY <2>4 DEF GatesFollowTheTable, Follows
<1> QED
  BY <1>1, ScenesAreRead, PTL

\* What active_feedback_components reports is every device on a way along the
\* scene's links that leads back to it, and nothing else: dust that leads both
\* ways is one group and reports nothing (physical_projection.rs).
THEOREM FeedbackIsOnCycles == SceneSpec => [](captured # None => FeedbackIsExact)
<1>1. SceneInv => (captured # None => FeedbackIsExact)
  <2> SUFFICES ASSUME SceneInv, captured # None
               PROVE  FeedbackIsExact
    OBVIOUS
  <2> DEFINE W == captured.world
             links == captured.links
             pairs == Dependencies(links)
             back(p) == p \in Reachable(links, Forward(links, {p}))
  <2>1. IsCircuit(W) /\ LinksAreThere(captured) /\ timing.feedback = ActiveFeedback(W, pairs)
    BY DEF SceneInv
  <2>2. \A c \in links : c.source \in DOMAIN W /\ c.sink \in DOMAIN W /\ c.source # c.sink
    BY <2>1 DEF LinksAreThere
  <2>3. \A e \in pairs : e[1] \in DOMAIN W /\ e[2] \in DOMAIN W
    BY <2>2 DEF Dependencies
  <2>4. Ends(pairs) \subseteq DOMAIN W
    <3> HIDE DEF pairs
    <3> QED
      BY <2>3 DEF Ends
  <2>5. IsFiniteSet(Ends(pairs)) /\ Ends(pairs) \subseteq Position
    <3> HIDE DEF pairs
    <3> QED
      BY <2>1, <2>4, FS_Subset DEF IsCircuit, IsWorld
  <2>6. ASSUME NEW p \in ActiveFeedback(W, pairs)
        PROVE  p \in DOMAIN W /\ ~Passive(W, p) /\ back(p)
    <3>1. p \in Ends(pairs) /\ ~Passive(W, p)
      BY ReportedIsCyclic
    <3>2. back(p)
      BY <2>5, FeedbackReturns
    <3> QED
      BY <2>4, <3>1, <3>2
  <2>7. ASSUME NEW p \in DOMAIN W, ~Passive(W, p), back(p)
        PROVE  p \in ActiveFeedback(W, pairs)
    BY <2>2, <2>5, <2>7, FeedbackIsReported
  <2> HIDE DEF W, pairs, back
  <2>8. timing.feedback = {p \in DOMAIN W : ~Passive(W, p) /\ back(p)}
    BY <2>1, <2>6, <2>7
  <2> QED
    BY <2>8 DEF FeedbackIsExact, W, back
<1> QED
  BY <1>1, ScenesAreRead, PTL

\* Whatever is captured is read as it is: its gates compute its truth table,
\* and what is reported to feed back does (infer_output_expressions,
\* logic_from_expressions, active_feedback_components).
THEOREM CapturesAreReadTruly == SceneSpec => []ReadingIsTrue
<1>1. (captured # None => GatesFollowTheTable) /\ (captured # None => FeedbackIsExact) => ReadingIsTrue
  BY DEF ReadingIsTrue
<1> QED
  BY <1>1, GatesAreTrue, FeedbackIsOnCycles, PTL

-----------------------------------------------------------------------------
(* Mending.                                                                *)

\* What is counted is counted.
LEMMA MeasuresAreCounts ==
    ASSUME NEW W, IsCircuit(W), NEW bounds
    PROVE  Measure(W, bounds) \in Mended!Health
<1> DEFINE scene == Scene(W, bounds)
           V == BoundedWorld(W, bounds)
           report == Report(scene)
           ends == {e.source : e \in scene.edges} \cup {e.sink : e \in scene.edges}
           nodes == {p \in DOMAIN scene.world : scene.world[p].kind \in RedstoneKinds \/ p \in ends}
           parent == ConnectionGroups(nodes, scene.edges)
           roots == InOrder({p \in nodes : parent[p] = p})
<1>1. IsCircuit(V)
  BY BoundingKeepsCircuits
<1>2. /\ scene.world = V /\ scene.links = PortConnections(V, ExtractConnectivity(V))
      /\ scene.frontier = ObservationFrontier(V, bounds)
  BY DEF Scene, SceneOf, SceneWith
<1>3. IsFiniteSet(DOMAIN V) /\ DOMAIN V \subseteq Position
  BY <1>1 DEF IsCircuit, IsWorld
<1>4. Len(Fragments(scene)) \in Nat
  <2>1. Fragments(scene) = [i \in DOMAIN roots |-> {p \in nodes : Root(parent, p) = roots[i]}]
    BY DEF Fragments
  <2>2. nodes \subseteq DOMAIN V
    BY <1>2
  <2> HIDE DEF nodes, parent, scene
  <2>3. IsFiniteSet({p \in nodes : parent[p] = p})
    BY <1>3, <2>2, FS_Subset
  <2>4. DOMAIN roots = 1..Cardinality({p \in nodes : parent[p] = p})
    BY DEF InOrder, Sorted
  <2>5. PICK n \in Nat : DOMAIN roots = 1..n
    BY <2>3, <2>4, FS_CardinalityType
  <2> HIDE DEF roots
  <2>6. Fragments(scene) = [i \in 1..n |-> {p \in nodes : Root(parent, p) = roots[i]}]
    BY <2>1, <2>5
  <2> DEFINE fragments == Fragments(scene)
  <2>7. fragments \in Seq({fragments[i] : i \in 1..n}) /\ Len(fragments) = n
    BY <2>6
  <2> QED
    BY <2>7
<1>5. Cardinality(SupportIssues(scene.world)) \in Nat
  <2>1. SupportIssues(V) \subseteq DOMAIN V
    BY DEF SupportIssues
  <2> QED
    BY <1>2, <1>3, <2>1, FS_Subset, FS_CardinalityType
<1>6. Cardinality(report.undriven) \in Nat
  <2>1. report.undriven \subseteq RequiredInputs(V)
    BY <1>2 DEF Report, Liveness
  <2>2. RequiredInputs(V) \subseteq (DOMAIN V) \X Faces
    <3> HIDE DEF V
    <3> QED
      BY DEF RequiredInputs
  <2>3. IsFiniteSet(Faces)
    <3>1. \A face : IsFiniteSet({face})
      BY FS_Singleton
    <3>2. \A S, face : IsFiniteSet(S) => IsFiniteSet(S \cup {face})
      BY <3>1, FS_Union
    <3>3. IsFiniteSet({"north"} \cup {"east"} \cup {"south"} \cup {"west"} \cup {"up"} \cup {"down"})
      BY <3>1, <3>2
    <3>4. Faces = {"north"} \cup {"east"} \cup {"south"} \cup {"west"} \cup {"up"} \cup {"down"}
      BY DEF Faces, Horizontal
    <3> QED
      BY <3>3, <3>4
  <2>4. IsFiniteSet((DOMAIN V) \X Faces)
    <3> HIDE DEF V
    <3> QED
      BY <1>3, <2>3, FS_Product
  <2> QED
    BY <2>1, <2>2, <2>4, FS_Subset, FS_CardinalityType
<1>7. Cardinality(report.reachable) \in Nat
  <2> DEFINE sources == DriveSources(V, ObservationFrontier(V, bounds))
             links == PortConnections(V, ExtractConnectivity(V))
             all == sources \cup {c.sink : c \in links}
  <2>1. report.reachable = Reachable(links, sources)
    BY <1>2 DEF Report, Liveness
  <2>2. sources \subseteq DOMAIN V
    BY DEF DriveSources, ObservationFrontier
  <2>3. \A c \in links : c.sink \in DOMAIN V
    BY <1>3, LinksJoinComponents
  <2> HIDE DEF sources, links
  <2>4. IsFiniteSet(all)
    BY <1>3, <2>2, <2>3, FS_Subset
  <2>5. Reachable(links, sources) \subseteq all
    BY <2>4, ReachableIsKept
  <2> QED
    BY <2>1, <2>4, <2>5, FS_Subset, FS_CardinalityType
<1>8. Measure(W, bounds) = HealthOf(scene, report)
  BY DEF Measure, MeasureScene
<1> HIDE DEF scene, report
<1> QED
  BY <1>4, <1>5, <1>6, <1>7, <1>8 DEF HealthOf, Mended!Health

\* What is said of an offer was found in the scene that is captured.
IsJudged(offer) ==
    captured # None /\ offer.health = was /\ offer.expected = EvaluateRepair(captured, offer)

MendInv ==
    /\ SceneInv
    /\ health = Measure(world, circuit.bounds)
    /\ captured # None => captured = SceneOf(captured.world, circuit.bounds) /\ was = MeasureScene(captured)
    /\ \A offer \in offers : IsJudged(offer)

LEMMA BecomingIsMeasured ==
    ASSUME MendInv, NEW p, NEW b, Becomes(p, b), UNCHANGED circuit
    PROVE  health' = Measure(world', circuit'.bounds)
BY DEF Becomes

LEMMA CaptureMeasures ==
    ASSUME MendInv, Capture
    PROVE  MendInv'
<1>1. SceneInv'
  BY CaptureReads DEF MendInv
<1>2. captured' = Scene(world, circuit.bounds) /\ was' = health /\ offers' = {} /\ UNCHANGED <<circuit, world, health>>
  BY DEF Capture
<1>3. captured' = SceneOf(captured'.world, circuit.bounds)
  <2>1. captured' = SceneOf(BoundedWorld(world, circuit.bounds), circuit.bounds)
    BY <1>2 DEF Scene
  <2>2. captured'.world = BoundedWorld(world, circuit.bounds)
    BY <2>1 DEF SceneOf, SceneWith
  <2> QED
    BY <2>1, <2>2
<1>4. was' = MeasureScene(captured')
  BY <1>2 DEF MendInv, Measure
<1> QED
  BY <1>1, <1>2, <1>3, <1>4 DEF MendInv

LEMMA ProposingJudges ==
    ASSUME MendInv, SceneInv', NEW changes, Propose(changes)
    PROVE  MendInv'
<1>1. /\ offers' = offers \cup Worthwhile({Judged(captured, was, change) : change \in changes})
      /\ captured # None /\ UNCHANGED <<circuit, world, captured, was, health>>
  BY DEF Propose
<1>2. \A judged : Worthwhile(judged) \subseteq judged
  BY DEF Worthwhile
<1>3. \A change : LET offer == Judged(captured, was, change)
                  IN  offer.health = was /\ offer.expected = EvaluateRepair(captured, offer)
  BY DEF Judged, EvaluateRepair, Patched
<1>4. \A offer \in offers' : captured # None /\ offer.health = was /\ offer.expected = EvaluateRepair(captured, offer)
  BY <1>1, <1>2, <1>3 DEF MendInv, IsJudged
<1> QED
  BY <1>1, <1>4 DEF MendInv, IsJudged

LEMMA MendAtFirst == SceneInit => MendInv /\ Mended!Init
<1> SUFFICES ASSUME SceneInit
             PROVE  MendInv /\ Mended!Init
  OBVIOUS
<1>1. SceneInv
  BY SceneAtFirst
<1>2. /\ world = circuit.world /\ captured = None /\ offers = {} /\ first = health
      /\ health = Measure(circuit.world, circuit.bounds)
  BY DEF SceneInit
<1>3. health \in Mended!Health
  BY <1>1, <1>2, MeasuresAreCounts DEF SceneInv
<1> QED
  BY <1>1, <1>2, <1>3 DEF MendInv, Mended!Init

\* An offer that improves the scene, and the scene is what is there: the circuit
\* is better.
LEMMA AcceptingMends ==
    ASSUME MendInv, NEW offer \in offers, Accept(offer), Fresh, Improves(offer), Foreseen(offer)
    PROVE  Mended!Better(health, health')
<1> DEFINE bounds == circuit.bounds
<1>1. /\ captured # None /\ captured.world = BoundedWorld(world, bounds)
      /\ captured = SceneOf(captured.world, bounds) /\ was = MeasureScene(captured)
      /\ offer.health = was /\ offer.expected = EvaluateRepair(captured, offer)
      /\ health = Measure(world, bounds)
  BY DEF Fresh, MendInv, IsJudged
<1>2. health = offer.health
  BY <1>1 DEF Measure, Scene
<1>3. health' = Measure(world', bounds)
  BY DEF Accept, Becomes
<1>4. captured.bounds = bounds
  BY <1>1 DEF SceneOf, SceneWith
<1>5. offer.expected = Measure(Patched(captured, offer), bounds)
  BY <1>1, <1>4 DEF EvaluateRepair
<1>6. health' = offer.expected
  BY <1>3, <1>5 DEF Foreseen, Measure, Scene
<1> QED
  BY <1>2, <1>6 DEF Improves

LEMMA MendKeeps == MendInv /\ [SceneNext]_sceneVars => MendInv' /\ [Mended!Next]_(Mended!vars)
<1> SUFFICES ASSUME MendInv, [SceneNext]_sceneVars
             PROVE  MendInv' /\ [Mended!Next]_(Mended!vars)
  OBVIOUS
<1>1. SceneInv'
  BY SceneKeeps DEF MendInv
<1>2. ASSUME health' = Measure(world', circuit'.bounds)
      PROVE  health' \in Mended!Health
  BY <1>1, <1>2, MeasuresAreCounts DEF SceneInv
<1>3. ASSUME NEW change \in Losses \cup Reorientations, Edit(change)
      PROVE  MendInv' /\ [Mended!Next]_(Mended!vars)
  <2>1. Becomes(change.pos, change.after) /\ first' = health' /\ UNCHANGED <<circuit, captured, was, offers>>
    BY <1>3 DEF Edit
  <2>2. health' = Measure(world', circuit'.bounds)
    BY <2>1, BecomingIsMeasured
  <2>3. health' \in Mended!Health
    BY <1>2, <2>2
  <2>4. MendInv'
    BY <1>1, <2>1, <2>2 DEF MendInv, IsJudged
  <2> QED
    BY <2>1, <2>3, <2>4 DEF Mended!Next, Mended!Disturb
<1>4. ASSUME Capture
      PROVE  MendInv' /\ [Mended!Next]_(Mended!vars)
  <2>1. UNCHANGED <<health, first>>
    BY <1>4 DEF Capture
  <2> QED
    BY <1>4, <2>1, CaptureMeasures DEF Mended!vars
<1>5. ASSUME NEW changes, Propose(changes)
      PROVE  MendInv' /\ [Mended!Next]_(Mended!vars)
  <2>1. UNCHANGED <<health, first>>
    BY <1>5 DEF Propose
  <2> QED
    BY <1>1, <1>5, <2>1, ProposingJudges DEF Mended!vars
<1>6. ASSUME NEW offer \in offers, Accept(offer)
      PROVE  MendInv' /\ [Mended!Next]_(Mended!vars)
  <2>1. /\ Becomes(offer.pos, offer.after) /\ offers' = offers \ {offer}
        /\ first' = IF Fresh /\ Improves(offer) /\ Foreseen(offer) THEN first ELSE health'
        /\ UNCHANGED <<circuit, captured, was>>
    BY <1>6 DEF Accept
  <2>2. health' = Measure(world', circuit'.bounds)
    BY <2>1, BecomingIsMeasured
  <2>3. health' \in Mended!Health
    BY <1>2, <2>2
  <2>4. MendInv'
    BY <1>1, <2>1, <2>2 DEF MendInv, IsJudged
  <2>5. CASE Fresh /\ Improves(offer) /\ Foreseen(offer)
    <3>1. Mended!Better(health, health') /\ first' = first
      BY <1>6, <2>1, <2>5, AcceptingMends
    <3> QED
      BY <2>3, <2>4, <3>1 DEF Mended!Next, Mended!Mend
  <2>6. CASE ~(Fresh /\ Improves(offer) /\ Foreseen(offer))
    BY <2>1, <2>3, <2>4, <2>6 DEF Mended!Next, Mended!Disturb
  <2> QED
    BY <2>5, <2>6
<1>7. ASSUME UNCHANGED sceneVars
      PROVE  MendInv' /\ [Mended!Next]_(Mended!vars)
  <2>1. UNCHANGED <<circuit, world, captured, was, offers, health, first>>
    BY <1>7 DEF sceneVars
  <2> QED
    BY <1>1, <2>1 DEF MendInv, IsJudged, Mended!vars
<1> QED
  BY <1>3, <1>4, <1>5, <1>6, <1>7 DEF SceneNext, NewRepair, NewRemoval

\* Whatever a player does to a circuit, accepting offers that were judged on all
\* that matters to them never leads back to where it was: every such offer makes
\* the circuit better by the counts it is judged by (new_repair and the
\* acceptance of its plans, RepairImpact::improves).
THEOREM RepairsMend == SceneSpec => ImplementsMending
<1> QED
  BY MendAtFirst, MendKeeps, PTL DEF SceneSpec, ImplementsMending, Mended!Spec
=============================================================================
