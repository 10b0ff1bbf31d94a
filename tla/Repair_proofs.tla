----------------------------- MODULE Repair_proofs -----------------------------
(***************************************************************************)
(* Proofs about physical repairs, for any number of processes, repairs,    *)
(* cells, block states, late jobs and edits by other players; and about    *)
(* what accepted repairs promise the circuit.                              *)
(***************************************************************************)
EXTENDS Repair, TLAPS

File == [flags : Flags, fresh : BOOLEAN]
Showing == [place : {"recall", "preview", "remember"}, id : Repairs,
            copy : Flags \cup {None}]
Places == {"recall", "writing", "verify", "rollback", "rolledBack", "store",
           "remember", "rescan"}
Call == [place : Places, id : Repairs, undo : BOOLEAN, copy : Flags \cup {None}]

TypeOK ==
    /\ BotTypeOK
    /\ patches \in [Repairs -> PatchRecord \cup {None}]
    /\ captured \in [Cells -> Blocks]
    /\ disk \in [Repairs -> File \cup {None}]
    /\ memory \in [Servers -> [Repairs -> Flags \cup {None}]]
    /\ call \in [Servers -> Call \cup {Free}]
    /\ showing \in [Servers -> Showing \cup {None}]
    /\ touched \in [Repairs -> SUBSET Cells]
    /\ seen \subseteq Repairs

\* The patch of r was found in the world, and what has changed since is known.
Found(r) ==
    \A c \in Pending(patches[r].after) \ touched[r] : world[c] = patches[r].after[c]

\* Flags may be kept of a repair that exists; they say "previewed" only of one
\* that was shown, "applied" only of one that was found in the world.
Fits(r, flags) ==
    /\ patches[r] # None
    /\ flags.previewed => r \in seen
    /\ flags.applied => Found(r)

\* What is kept in files and in memory.
DiskFits == \A r \in Repairs : disk[r] # None => Fits(r, disk[r].flags)
MemoryFits == \A s \in Servers, r \in Repairs : memory[s][r] # None => Fits(r, memory[s][r])

\* The clones the handlers work on.
ShowingFits(s) ==
    showing[s] # None =>
        /\ showing[s].copy # None => Fits(showing[s].id, showing[s].copy)
        /\ showing[s].place # "recall" => showing[s].copy # None
CallFits(s) ==
    call[s] # Free =>
        /\ call[s].copy # None => Fits(call[s].id, call[s].copy)
        /\ call[s].place # "recall" => /\ call[s].copy # None
                                       /\ call[s].undo \/ call[s].copy.previewed
        /\ call[s].place = "store" /\ ~call[s].undo => Found(call[s].id)
Clones == \A s \in Servers : ShowingFits(s) /\ CallFits(s)

IInv == TypeOK /\ DiskFits /\ MemoryFits /\ Clones

-----------------------------------------------------------------------------
(* The bot and the world.                                                  *)

\* The empty job is a job.
LEMMA IdleTyped == Idle \in Todo
  BY DEF Idle, Todo

\* A server that sends or abandons a job does not touch the world.
LEMMA RequestTyped ==
    ASSUME BotTypeOK, NEW s \in Servers, Abandon(s) \/ \E todo \in Todo : Submit(s, todo)
    PROVE  BotTypeOK' /\ world' = world
<1>1. CASE Abandon(s)
  <2>1. job[s] \in Todo /\ job' = [job EXCEPT ![s] = Idle]
    BY <1>1 DEF Abandon, BotTypeOK
  <2>2. job' \in [Servers -> Todo]
    BY <2>1, IdleTyped DEF BotTypeOK
  <2>3. late' \in SUBSET Todo /\ UNCHANGED <<world, edits>>
    BY <1>1, <2>1 DEF Abandon, BotTypeOK
  <2> QED
    BY <2>2, <2>3 DEF BotTypeOK
<1>2. CASE \E todo \in Todo : Submit(s, todo)
  BY <1>2 DEF Submit, BotTypeOK
<1> QED
  BY <1>1, <1>2

\* One command for a cell leaves the rest of its job, and the other cells.
LEMMA CommandTyped ==
    ASSUME BotTypeOK, NEW todo \in Todo, NEW c \in Pending(todo)
    PROVE  /\ [todo EXCEPT ![c] = Keep] \in Todo
           /\ Executes(todo, c) => /\ world' \in [Cells -> Blocks]
                                   /\ \A d \in Cells \ {c} : world'[d] = world[d]
<1>1. c \in Cells /\ todo[c] \in Blocks
  BY DEF Pending, Todo
<1>2. [todo EXCEPT ![c] = Keep] \in Todo
  BY DEF Todo
<1> QED
  BY <1>1, <1>2 DEF Executes, BotTypeOK

\* What the bot, a late job or a player does at a cell stays there.
LEMMA OneCellChanges ==
    ASSUME BotTypeOK, NEW c \in Cells,
           \/ \E s \in Servers : BotWrites(s, c) \/ BotDigs(s, c)
           \/ \E todo \in late : LateWrites(todo, c) \/ LateDigs(todo, c)
           \/ \E block \in Blocks : PlayerEdits(c, block)
    PROVE  BotTypeOK' /\ \A d \in Cells \ {c} : world'[d] = world[d]
<1>1. CASE \E s \in Servers : BotWrites(s, c)
  <2>1. PICK s \in Servers : BotWrites(s, c)
    BY <1>1
  <2>2. job[s] \in Todo /\ c \in Pending(job[s])
    BY <2>1 DEF BotTypeOK, BotWrites
  <2>3. job' = [job EXCEPT ![s] = [job[s] EXCEPT ![c] = Keep]]
    BY <2>1 DEF BotWrites
  <2>4. job' \in [Servers -> Todo]
    BY <2>2, <2>3, CommandTyped DEF BotTypeOK
  <2> QED
    BY <2>1, <2>2, <2>4, CommandTyped DEF BotWrites, BotTypeOK
<1>2. CASE \E todo \in late : LateWrites(todo, c)
  <2>1. PICK todo \in late : LateWrites(todo, c)
    BY <1>2
  <2>2. todo \in Todo /\ c \in Pending(todo)
    BY <2>1 DEF BotTypeOK, LateWrites
  <2>3. late' \in SUBSET Todo
    BY <2>1, <2>2, CommandTyped DEF BotTypeOK, LateWrites
  <2> QED
    BY <2>1, <2>2, <2>3, CommandTyped DEF LateWrites, BotTypeOK
<1>3. CASE \/ \E s \in Servers : BotDigs(s, c)
           \/ \E todo \in late : LateDigs(todo, c)
           \/ \E block \in Blocks : PlayerEdits(c, block)
  BY <1>3, WorldAssumption DEF BotDigs, LateDigs, PlayerEdits, BotTypeOK
<1> QED
  BY <1>1, <1>2, <1>3

-----------------------------------------------------------------------------
(* What is kept is not outdated.                                           *)

\* No patch, no preview and nothing that was found is forgotten.
Remembered ==
    /\ \A r \in Repairs : patches[r] # None => patches'[r] = patches[r]
    /\ seen \subseteq seen'
    /\ \A r \in Repairs : patches[r] # None /\ Found(r) => Found(r)'

\* A step that changes no block, and takes no scan for a success, forgets
\* nothing.
LEMMA QuietRemembers ==
    ASSUME UNCHANGED <<world, patches, touched>>, seen \subseteq seen'
    PROVE  Remembered
BY DEF Remembered, Found, Pending

\* Flags that fit go on to fit.
LEMMA FitsStays ==
    ASSUME Remembered, NEW r \in Repairs, NEW flags \in Flags, Fits(r, flags)
    PROVE  Fits(r, flags)'
<1>1. patches'[r] # None
  BY DEF Remembered, Fits
<1>2. flags.previewed => r \in seen'
  BY DEF Remembered, Fits
<1>3. flags.applied => Found(r)'
  BY DEF Remembered, Fits
<1> QED
  BY <1>1, <1>2, <1>3 DEF Fits

\* What nobody writes stays right.
LEMMA Kept ==
    ASSUME IInv, Remembered
    PROVE  /\ UNCHANGED disk => DiskFits'
           /\ UNCHANGED memory => MemoryFits'
           /\ \A s \in Servers : showing'[s] = showing[s] => ShowingFits(s)'
           /\ \A s \in Servers : call'[s] = call[s] => CallFits(s)'
<1>1. ASSUME UNCHANGED disk PROVE DiskFits'
  <2> SUFFICES ASSUME NEW r \in Repairs, disk'[r] # None PROVE Fits(r, disk[r].flags)'
    BY DEF DiskFits
  <2>1. disk'[r] = disk[r] /\ disk[r].flags \in Flags /\ Fits(r, disk[r].flags)
    BY <1>1 DEF IInv, TypeOK, File, DiskFits
  <2>2. PICK flags \in Flags : flags = disk[r].flags
    BY <2>1
  <2>3. Fits(r, flags)'
    BY <2>1, <2>2, FitsStays
  <2> QED
    BY <2>1, <2>2, <2>3 DEF Fits
<1>2. ASSUME UNCHANGED memory PROVE MemoryFits'
  <2> SUFFICES ASSUME NEW s \in Servers, NEW r \in Repairs, memory'[s][r] # None
               PROVE  Fits(r, memory[s][r])'
    BY DEF MemoryFits
  <2>1. memory'[s][r] = memory[s][r] /\ memory[s][r] \in Flags /\ Fits(r, memory[s][r])
    BY <1>2 DEF IInv, TypeOK, MemoryFits
  <2>2. PICK flags \in Flags : flags = memory[s][r]
    BY <2>1
  <2>3. Fits(r, flags)'
    BY <2>1, <2>2, FitsStays
  <2> QED
    BY <2>1, <2>2, <2>3 DEF Fits
<1>3. ASSUME NEW s \in Servers, showing'[s] = showing[s], showing[s] # None
      PROVE  /\ showing[s].copy # None => Fits(showing[s].id, showing[s].copy)'
             /\ showing[s].place # "recall" => showing[s].copy # None
  <2>1. showing[s] \in Showing /\ ShowingFits(s)
    BY <1>3 DEF IInv, TypeOK, Clones
  <2>2. ASSUME showing[s].copy # None PROVE Fits(showing[s].id, showing[s].copy)'
    <3>1. PICK r \in Repairs, flags \in Flags : r = showing[s].id /\ flags = showing[s].copy
      BY <2>1, <2>2 DEF Showing
    <3>2. Fits(r, flags)
      BY <1>3, <2>1, <2>2, <3>1 DEF ShowingFits
    <3>3. Fits(r, flags)'
      BY <3>2, FitsStays
    <3> QED
      BY <1>3, <3>1, <3>3 DEF Fits
  <2> QED
    BY <1>3, <2>1, <2>2 DEF ShowingFits
<1>4. ASSUME NEW s \in Servers, call'[s] = call[s], call[s] # Free
      PROVE  /\ call[s].copy # None => Fits(call[s].id, call[s].copy)'
             /\ call[s].place # "recall" => /\ call[s].copy # None
                                            /\ call[s].undo \/ call[s].copy.previewed
             /\ call[s].place = "store" /\ ~call[s].undo => Found(call[s].id)'
  <2>1. call[s] \in Call /\ CallFits(s)
    BY <1>4 DEF IInv, TypeOK, Clones
  <2>2. ASSUME call[s].copy # None PROVE Fits(call[s].id, call[s].copy)'
    <3>1. PICK r \in Repairs, flags \in Flags : r = call[s].id /\ flags = call[s].copy
      BY <2>1, <2>2 DEF Call
    <3>2. Fits(r, flags)
      BY <1>4, <2>1, <2>2, <3>1 DEF CallFits
    <3>3. Fits(r, flags)'
      BY <3>2, FitsStays
    <3> QED
      BY <1>4, <3>1, <3>3 DEF Fits
  <2>3. ASSUME call[s].place = "store", ~call[s].undo PROVE Found(call[s].id)'
    <3>1. PICK r \in Repairs : r = call[s].id
      BY <2>1 DEF Call
    <3>2. Found(r) /\ patches[r] # None
      BY <1>4, <2>1, <2>3, <3>1 DEF CallFits, Fits
    <3>3. Found(r)'
      BY <3>2 DEF Remembered
    <3> QED
      BY <1>4, <3>1, <3>3 DEF Found
  <2> QED
    BY <1>4, <2>1, <2>2, <2>3 DEF CallFits
<1>5. \A s \in Servers : showing'[s] = showing[s] => ShowingFits(s)'
  BY <1>3 DEF ShowingFits, Fits
<1>6. \A s \in Servers : call'[s] = call[s] => CallFits(s)'
  BY <1>4 DEF CallFits, Fits, Found
<1> QED
  BY <1>1, <1>2, <1>5, <1>6

-----------------------------------------------------------------------------
(* The plan store.                                                         *)

\* Flags that fit are saved: the files stay right.
LEMMA SaveFits ==
    ASSUME IInv, Remembered, NEW r \in Repairs, NEW flags \in Flags,
           Save(r, flags), Fits(r, flags)'
    PROVE  disk' \in [Repairs -> File \cup {None}] /\ DiskFits'
<1> DEFINE file == [flags |-> flags, fresh |-> TRUE]
<1>1. file \in File /\ file.flags = flags
  BY DEF File
<1>2. disk' = [disk EXCEPT ![r] = file]
  BY DEF Save
<1> HIDE DEF file
<1>3. disk' \in [Repairs -> File \cup {None}]
  BY <1>1, <1>2 DEF IInv, TypeOK
<1>4. ASSUME NEW q \in Repairs, disk'[q] # None PROVE Fits(q, disk[q].flags)'
  <2>1. CASE q = r
    <3>1. disk'[q].flags = flags
      BY <1>1, <1>2, <2>1 DEF IInv, TypeOK
    <3> QED
      BY <2>1, <3>1 DEF Fits
  <2>2. CASE q # r
    <3>1. disk'[q] = disk[q] /\ disk[q].flags \in Flags /\ Fits(q, disk[q].flags)
      BY <1>2, <1>4, <2>2 DEF IInv, TypeOK, File, DiskFits
    <3>2. PICK old \in Flags : old = disk[q].flags
      BY <3>1
    <3>3. Fits(q, old)'
      BY <3>1, <3>2, FitsStays
    <3> QED
      BY <3>1, <3>2, <3>3 DEF Fits
  <2> QED
    BY <2>1, <2>2
<1> QED
  BY <1>3, <1>4 DEF DiskFits

\* What a file says fits, and loading only removes files.
LEMMA LoadFits ==
    ASSUME IInv, Remembered, NEW r \in Repairs, Load(r)
    PROVE  /\ disk' \in [Repairs -> File \cup {None}]
           /\ DiskFits'
           /\ FileSays(r) \in Flags \cup {None}
           /\ FileSays(r) # None => Fits(r, FileSays(r))
<1>1. \A q \in Repairs : disk[q] # None => disk[q] \in File /\ disk[q].flags \in Flags
  BY DEF IInv, TypeOK, File
<1>2. disk' = [disk EXCEPT ![r] = IF disk[r] # None /\ disk[r].fresh THEN disk[r] ELSE None]
  BY DEF Load
<1>3. disk' \in [Repairs -> File \cup {None}]
  BY <1>2 DEF IInv, TypeOK
<1>4. ASSUME NEW q \in Repairs, disk'[q] # None PROVE Fits(q, disk[q].flags)'
  <2>1. disk'[q] = disk[q]
    BY <1>2, <1>4 DEF IInv, TypeOK
  <2>2. PICK old \in Flags : old = disk[q].flags
    BY <1>1, <1>4, <2>1
  <2>3. Fits(q, old)'
    BY <1>4, <2>1, <2>2, FitsStays DEF IInv, DiskFits
  <2> QED
    BY <2>1, <2>2, <2>3 DEF Fits
<1>5. FileSays(r) \in Flags \cup {None}
  BY <1>1 DEF FileSays
<1>6. FileSays(r) # None => Fits(r, FileSays(r))
  BY DEF FileSays, IInv, DiskFits
<1> QED
  BY <1>3, <1>4, <1>5, <1>6 DEF DiskFits

\* Flags that fit are remembered: the memories stay right.
LEMMA RememberFits ==
    ASSUME IInv, Remembered, NEW s \in Servers, NEW r \in Repairs,
           NEW flags \in Flags \cup {None}, Remember(s, r, flags),
           flags # None => Fits(r, flags)'
    PROVE  memory' \in [Servers -> [Repairs -> Flags \cup {None}]] /\ MemoryFits'
<1>1. memory' = [memory EXCEPT ![s] = [memory[s] EXCEPT ![r] = flags]]
  BY DEF Remember
<1>2. memory' \in [Servers -> [Repairs -> Flags \cup {None}]]
  BY <1>1 DEF IInv, TypeOK
<1>3. ASSUME NEW t \in Servers, NEW q \in Repairs, memory'[t][q] # None
      PROVE  Fits(q, memory[t][q])'
  <2>1. CASE t = s /\ q = r
    <3>1. memory'[t][q] = flags
      BY <1>1, <2>1 DEF IInv, TypeOK
    <3> QED
      BY <1>3, <2>1, <3>1 DEF Fits
  <2>2. CASE t # s \/ q # r
    <3>1. memory'[t][q] = memory[t][q]
      BY <1>1, <2>2 DEF IInv, TypeOK
    <3>2. PICK old \in Flags : old = memory[t][q]
      BY <1>3, <3>1 DEF IInv, TypeOK
    <3>3. Fits(q, old)'
      BY <1>3, <3>1, <3>2, FitsStays DEF IInv, MemoryFits
    <3> QED
      BY <3>1, <3>2, <3>3 DEF Fits
  <2> QED
    BY <2>1, <2>2
<1> QED
  BY <1>2, <1>3 DEF MemoryFits

\* What is recalled fits, and so does what recalling leaves in memory.
LEMMA RecallFits ==
    ASSUME IInv, Remembered, NEW s \in Servers, NEW r \in Repairs,
           NEW said \in Flags \cup {None}, said # None => Fits(r, said),
           Recall(s, r, said)
    PROVE  /\ memory' \in [Servers -> [Repairs -> Flags \cup {None}]]
           /\ MemoryFits'
           /\ Recalled(s, r, said) \in Flags \cup {None}
           /\ Recalled(s, r, said) # None => Fits(r, Recalled(s, r, said))
<1>1. PICK copy \in Flags \cup {None} : copy = Recalled(s, r, said)
  BY DEF Recalled, IInv, TypeOK
<1>2. copy # None => Fits(r, copy)
  BY <1>1 DEF Recalled, IInv, MemoryFits
<1>3. copy # None => copy \in Flags /\ Fits(r, copy)'
  BY <1>2, FitsStays
<1>4. Remember(s, r, copy)
  BY <1>1 DEF Recall
<1> QED
  BY <1>1, <1>2, <1>3, <1>4, RememberFits

-----------------------------------------------------------------------------
(* Calls.                                                                  *)

\* Free is no call.
LEMMA FreeIsNoCall == Free.place = "free" /\ \A c \in Call : c # Free
  BY DEF Free, Call, Places

\* A call in some place is a call; past its first step its patch exists.
LEMMA CallTyped ==
    ASSUME IInv, NEW s \in Servers, call[s].place \in Places \ {"recall"}
    PROVE  /\ call[s] \in Call /\ call[s] # Free
           /\ call[s].copy \in Flags
           /\ Fits(call[s].id, call[s].copy)
           /\ call[s].undo \/ call[s].copy.previewed
           /\ patches[call[s].id] \in PatchRecord
           /\ Source(call[s]) \in Todo /\ Target(call[s]) \in Todo
<1>1. call[s] \in Call /\ call[s] # Free
  BY FreeIsNoCall DEF IInv, TypeOK, Places
<1>2. CallFits(s) /\ call[s].place # "recall"
  BY DEF IInv, Clones
<1>3. /\ call[s].copy # None
      /\ Fits(call[s].id, call[s].copy)
      /\ call[s].undo \/ call[s].copy.previewed
  BY <1>1, <1>2 DEF CallFits
<1>4. patches[call[s].id] \in PatchRecord
  BY <1>1, <1>3 DEF Fits, IInv, TypeOK, Call
<1> QED
  BY <1>1, <1>3, <1>4 DEF PatchRecord, Source, Target, Call

\* The variables a step of one call leaves alone.
OthersSame(s) ==
    /\ UNCHANGED <<patches, captured, showing, seen>>
    /\ \A t \in Servers \ {s} : call'[t] = call[t]

\* One call does a step that neither changes a block nor takes a scan for a
\* success: it is left to show that its own clone and what it writes fit.
LEMMA OneCall ==
    ASSUME IInv, NEW s \in Servers, OthersSame(s),
           BotTypeOK', UNCHANGED <<world, touched>>,
           call' \in [Servers -> Call \cup {Free}], CallFits(s)',
           disk' \in [Repairs -> File \cup {None}], DiskFits',
           memory' \in [Servers -> [Repairs -> Flags \cup {None}]], MemoryFits'
    PROVE  IInv'
<1>1. Remembered
  BY QuietRemembers DEF OthersSame
<1>2. TypeOK'
  BY DEF OthersSame, IInv, TypeOK
<1>3. \A t \in Servers : ShowingFits(t)'
  BY <1>1, Kept DEF OthersSame
<1>4. \A t \in Servers \ {s} : CallFits(t)'
  BY <1>1, Kept DEF OthersSame
<1> QED
  BY <1>2, <1>3, <1>4 DEF IInv, Clones

\* The same of one preview.
LEMMA OneShow ==
    ASSUME IInv, NEW s \in Servers,
           UNCHANGED <<botVars, patches, captured, call, touched>>,
           seen \subseteq seen', seen' \subseteq Repairs,
           \A t \in Servers \ {s} : showing'[t] = showing[t],
           showing' \in [Servers -> Showing \cup {None}], ShowingFits(s)',
           disk' \in [Repairs -> File \cup {None}], DiskFits',
           memory' \in [Servers -> [Repairs -> Flags \cup {None}]], MemoryFits'
    PROVE  IInv'
<1>1. Remembered
  BY QuietRemembers DEF botVars
<1>2. TypeOK'
  BY DEF IInv, TypeOK, BotTypeOK, botVars
<1>3. \A t \in Servers \ {s} : ShowingFits(t)'
  BY <1>1, Kept
<1>4. \A t \in Servers : CallFits(t)'
  BY <1>1, Kept
<1> QED
  BY <1>2, <1>3, <1>4 DEF IInv, Clones

-----------------------------------------------------------------------------
(* The steps.                                                              *)

LEMMA CaptureStep ==
    ASSUME IInv, Capture
    PROVE  IInv'
<1>1. /\ UNCHANGED <<botVars, patches, disk, memory, call, showing, touched, seen>>
      /\ captured' = world
  BY DEF Capture
<1>2. Remembered
  BY <1>1, QuietRemembers DEF botVars
<1>3. TypeOK'
  BY <1>1 DEF IInv, TypeOK, BotTypeOK, botVars
<1> QED
  BY <1>1, <1>2, <1>3, Kept DEF IInv, Clones

LEMMA NewRepairStep ==
    ASSUME IInv, NEW s \in Servers, NEW r \in Repairs, NEW wanted \in Todo,
           NewRepair(s, r, wanted)
    PROVE  IInv'
<1> DEFINE changes(c) == wanted[c] # Keep /\ wanted[c] # captured[c]
           patch == [before |-> [c \in Cells |-> IF changes(c) THEN captured[c] ELSE Keep],
                     after  |-> [c \in Cells |-> IF changes(c) THEN wanted[c] ELSE Keep]]
           flags == [applied |-> FALSE, previewed |-> FALSE]
<1>1. /\ patches[r] = None
      /\ patches' = [patches EXCEPT ![r] = patch]
      /\ Save(r, flags) /\ Remember(s, r, flags)
      /\ UNCHANGED <<botVars, captured, call, showing, touched, seen>>
  BY DEF NewRepair
<1>2. patch \in PatchRecord /\ patch # None
  BY RepairAssumption DEF PatchRecord, Todo, IInv, TypeOK
<1>3. /\ patches' \in [Repairs -> PatchRecord \cup {None}]
      /\ patches'[r] # None
      /\ \A q \in Repairs : patches[q] # None => patches'[q] = patches[q]
  <2> HIDE DEF patch
  <2> QED
    BY <1>1, <1>2 DEF IInv, TypeOK
<1>4. Remembered
  BY <1>1, <1>3 DEF Remembered, Found, Pending, botVars
<1>5. flags \in Flags /\ Fits(r, flags)'
  BY <1>3 DEF Flags, Fits
<1>6. disk' \in [Repairs -> File \cup {None}] /\ DiskFits'
  BY <1>1, <1>4, <1>5, SaveFits
<1>7. memory' \in [Servers -> [Repairs -> Flags \cup {None}]] /\ MemoryFits'
  BY <1>1, <1>4, <1>5, RememberFits
<1>8. TypeOK'
  BY <1>1, <1>3, <1>6, <1>7 DEF IInv, TypeOK, BotTypeOK, botVars
<1> QED
  BY <1>1, <1>4, <1>6, <1>7, <1>8, Kept DEF IInv, Clones

LEMMA ShowBeginStep ==
    ASSUME IInv, NEW s \in Servers, NEW r \in Repairs, ShowBegin(s, r)
    PROVE  IInv'
<1> DEFINE show == [place |-> "recall", id |-> r, copy |-> FileSays(r)]
<1>1. /\ Load(r)
      /\ showing' = [showing EXCEPT ![s] = show]
      /\ UNCHANGED <<botVars, patches, captured, memory, call, touched, seen>>
  BY DEF ShowBegin
<1>2. Remembered
  BY <1>1, QuietRemembers DEF botVars
<1>3. /\ disk' \in [Repairs -> File \cup {None}]
      /\ DiskFits'
      /\ FileSays(r) \in Flags \cup {None}
      /\ FileSays(r) # None => Fits(r, FileSays(r))
  BY <1>1, <1>2, LoadFits
<1>4. PICK copy \in Flags \cup {None} : copy = FileSays(r)
  BY <1>3
<1>5. copy # None => Fits(r, copy)'
  BY <1>2, <1>3, <1>4, FitsStays
<1>6. /\ show \in Showing
      /\ show.place = "recall" /\ show.id = r /\ show.copy = copy
  BY <1>4 DEF Showing
<1> HIDE DEF show
<1>7. /\ showing' \in [Servers -> Showing \cup {None}]
      /\ showing'[s] = show
      /\ \A t \in Servers \ {s} : showing'[t] = showing[t]
  BY <1>1, <1>6 DEF IInv, TypeOK
<1>8. ShowingFits(s)'
  BY <1>5, <1>6, <1>7 DEF ShowingFits, Fits
<1>9. MemoryFits' /\ memory' \in [Servers -> [Repairs -> Flags \cup {None}]]
  BY <1>1, <1>2, Kept DEF IInv, TypeOK
<1> QED
  BY <1>1, <1>3, <1>7, <1>8, <1>9, OneShow DEF IInv, TypeOK

LEMMA ShowRecallStep ==
    ASSUME IInv, NEW s \in Servers, ShowRecall(s)
    PROVE  IInv'
<1>1. /\ showing[s] # None /\ Recall(s, showing[s].id, showing[s].copy)
      /\ UNCHANGED <<botVars, patches, captured, disk, call, touched, seen>>
  BY DEF ShowRecall, Shows
<1>2. showing[s] \in Showing /\ ShowingFits(s)
  BY <1>1 DEF IInv, TypeOK, Clones
<1>3. PICK r \in Repairs, said \in Flags \cup {None} :
          r = showing[s].id /\ said = showing[s].copy
  BY <1>2 DEF Showing
<1>4. Remembered
  BY <1>1, QuietRemembers DEF botVars
<1>5. said # None => Fits(r, said)
  BY <1>1, <1>2, <1>3 DEF ShowingFits
<1>6. /\ memory' \in [Servers -> [Repairs -> Flags \cup {None}]]
      /\ MemoryFits'
      /\ Recalled(s, r, said) \in Flags \cup {None}
      /\ Recalled(s, r, said) # None => Fits(r, Recalled(s, r, said))
  BY <1>1, <1>3, <1>4, <1>5, RecallFits
<1>7. PICK copy \in Flags \cup {None} : copy = Recalled(s, r, said)
  BY <1>6
<1>8. copy # None => Fits(r, copy)'
  BY <1>4, <1>6, <1>7, FitsStays
<1> DEFINE show == [place |-> "preview", id |-> r, copy |-> copy]
           next == IF copy = None THEN None ELSE show
<1>9. /\ show \in Showing
      /\ show.id = r /\ show.copy = copy
  BY DEF Showing
<1>10. showing' = [showing EXCEPT ![s] = next]
  BY <1>3, <1>7 DEF ShowRecall
<1> HIDE DEF show
<1>11. /\ showing' \in [Servers -> Showing \cup {None}]
       /\ showing'[s] = next
       /\ \A t \in Servers \ {s} : showing'[t] = showing[t]
  BY <1>9, <1>10 DEF IInv, TypeOK
<1>12. ShowingFits(s)'
  BY <1>8, <1>9, <1>11 DEF ShowingFits, Fits
<1>13. DiskFits' /\ disk' \in [Repairs -> File \cup {None}]
  BY <1>1, <1>4, Kept DEF IInv, TypeOK
<1> QED
  BY <1>1, <1>6, <1>11, <1>12, <1>13, OneShow DEF IInv, TypeOK

LEMMA ShowPreviewedStep ==
    ASSUME IInv, NEW s \in Servers, ShowPreviewed(s)
    PROVE  IInv'
<1>1. /\ showing[s] # None /\ showing[s].place = "preview"
      /\ seen' = seen \cup {showing[s].id}
      /\ UNCHANGED <<botVars, patches, captured, memory, call, touched>>
  BY DEF ShowPreviewed, Shows
<1>2. showing[s] \in Showing /\ ShowingFits(s)
  BY <1>1 DEF IInv, TypeOK, Clones
<1>3. PICK r \in Repairs, copy \in Flags : r = showing[s].id /\ copy = showing[s].copy
  BY <1>1, <1>2 DEF Showing, ShowingFits
<1>4. Fits(r, copy)
  BY <1>1, <1>2, <1>3, RepairAssumption DEF ShowingFits
<1>5. Remembered /\ seen' \subseteq Repairs /\ seen \subseteq seen'
  BY <1>1, <1>3, QuietRemembers DEF botVars, IInv, TypeOK
<1>6. PICK previewed \in Flags : previewed = [copy EXCEPT !.previewed = TRUE]
  BY DEF Flags
<1>7. Fits(r, copy)'
  BY <1>4, <1>5, FitsStays
<1>8. Fits(r, previewed)'
  BY <1>1, <1>3, <1>6, <1>7 DEF Fits, Flags
<1>9. MemoryFits' /\ memory' \in [Servers -> [Repairs -> Flags \cup {None}]]
  BY <1>1, <1>5, Kept DEF IInv, TypeOK
<1> DEFINE show == [place |-> "remember", id |-> r, copy |-> previewed]
<1>10. /\ show \in Showing
       /\ show.id = r /\ show.copy = previewed
  BY DEF Showing
<1>11. CASE Save(r, previewed) /\ showing' = [showing EXCEPT ![s] = show]
  <2> HIDE DEF show
  <2>1. /\ showing' \in [Servers -> Showing \cup {None}]
        /\ showing'[s] = show
        /\ \A t \in Servers \ {s} : showing'[t] = showing[t]
    BY <1>10, <1>11 DEF IInv, TypeOK
  <2>2. ShowingFits(s)'
    BY <1>8, <1>10, <2>1, RepairAssumption DEF ShowingFits, Fits
  <2>3. disk' \in [Repairs -> File \cup {None}] /\ DiskFits'
    BY <1>5, <1>8, <1>11, SaveFits
  <2> QED
    BY <1>1, <1>5, <1>9, <2>1, <2>2, <2>3, OneShow
<1>12. CASE showing' = [showing EXCEPT ![s] = None] /\ UNCHANGED disk
  <2>1. /\ showing' \in [Servers -> Showing \cup {None}]
        /\ showing'[s] = None
        /\ \A t \in Servers \ {s} : showing'[t] = showing[t]
    BY <1>12 DEF IInv, TypeOK
  <2>2. ShowingFits(s)'
    BY <2>1 DEF ShowingFits
  <2>3. disk' \in [Repairs -> File \cup {None}] /\ DiskFits'
    BY <1>5, <1>12, Kept DEF IInv, TypeOK
  <2> QED
    BY <1>1, <1>5, <1>9, <2>1, <2>2, <2>3, OneShow
<1> QED
  BY <1>3, <1>6, <1>11, <1>12 DEF ShowPreviewed

LEMMA ShowEndsStep ==
    ASSUME IInv, NEW s \in Servers, ShowFails(s) \/ ShowRemember(s)
    PROVE  IInv'
<1>1. /\ showing[s] # None
      /\ showing[s].place # "recall"
      /\ showing' = [showing EXCEPT ![s] = None]
      /\ UNCHANGED <<botVars, patches, captured, disk, call, touched, seen>>
  BY DEF ShowFails, ShowRemember, Shows, planVars
<1>2. Remembered
  BY <1>1, QuietRemembers DEF botVars
<1>3. memory' \in [Servers -> [Repairs -> Flags \cup {None}]] /\ MemoryFits'
  <2>1. CASE ShowFails(s)
    BY <1>2, <2>1, Kept DEF ShowFails, planVars, IInv, TypeOK
  <2>2. CASE ShowRemember(s)
    <3>1. showing[s] \in Showing /\ ShowingFits(s)
      BY <1>1 DEF IInv, TypeOK, Clones
    <3>2. PICK r \in Repairs, copy \in Flags : r = showing[s].id /\ copy = showing[s].copy
      BY <1>1, <3>1 DEF Showing, ShowingFits
    <3>3. Fits(r, copy)
      BY <1>1, <3>1, <3>2 DEF ShowingFits
    <3>4. Fits(r, copy)'
      BY <1>2, <3>3, FitsStays
    <3>5. Remember(s, r, copy)
      BY <2>2, <3>2 DEF ShowRemember
    <3> QED
      BY <1>2, <3>4, <3>5, RememberFits
  <2> QED
    BY <2>1, <2>2
<1>4. /\ showing' \in [Servers -> Showing \cup {None}]
      /\ showing'[s] = None
      /\ \A t \in Servers \ {s} : showing'[t] = showing[t]
  BY <1>1 DEF IInv, TypeOK
<1>5. ShowingFits(s)'
  BY <1>4 DEF ShowingFits
<1>6. DiskFits' /\ disk' \in [Repairs -> File \cup {None}]
  BY <1>1, <1>2, Kept DEF IInv, TypeOK
<1> QED
  BY <1>1, <1>3, <1>4, <1>5, <1>6, OneShow DEF IInv, TypeOK

LEMMA ExpireStep ==
    ASSUME IInv, NEW r \in Repairs, Expire(r)
    PROVE  IInv'
<1> DEFINE old == [disk[r] EXCEPT !.fresh = FALSE]
<1>1. /\ disk[r] # None
      /\ disk' = [disk EXCEPT ![r] = old]
      /\ UNCHANGED <<botVars, patches, captured, memory, call, showing, touched, seen>>
  BY DEF Expire
<1>2. disk[r] \in File /\ old \in File /\ old.flags = disk[r].flags
  BY <1>1 DEF IInv, TypeOK, File
<1> HIDE DEF old
<1>3. /\ disk' \in [Repairs -> File \cup {None}]
      /\ \A q \in Repairs : disk'[q] # None => disk[q] # None /\ disk'[q].flags = disk[q].flags
  BY <1>1, <1>2 DEF IInv, TypeOK
<1>4. Remembered
  BY <1>1, QuietRemembers DEF botVars
<1>5. ASSUME NEW q \in Repairs, disk'[q] # None PROVE Fits(q, disk[q].flags)'
  <2>1. disk'[q].flags = disk[q].flags /\ disk[q].flags \in Flags /\ Fits(q, disk[q].flags)
    BY <1>3, <1>5 DEF IInv, TypeOK, File, DiskFits
  <2>2. PICK flags \in Flags : flags = disk[q].flags
    BY <2>1
  <2>3. Fits(q, flags)'
    BY <1>4, <2>1, <2>2, FitsStays
  <2> QED
    BY <2>1, <2>2, <2>3 DEF Fits
<1>6. DiskFits'
  BY <1>5 DEF DiskFits
<1>7. TypeOK'
  BY <1>1, <1>3 DEF IInv, TypeOK, BotTypeOK, botVars
<1> QED
  BY <1>1, <1>4, <1>6, <1>7, Kept DEF IInv, Clones

LEMMA BeginStep ==
    ASSUME IInv, NEW s \in Servers, NEW r \in Repairs, NEW undo \in BOOLEAN,
           Begin(s, r, undo)
    PROVE  IInv'
<1> DEFINE c == [place |-> "recall", id |-> r, undo |-> undo, copy |-> FileSays(r)]
<1>1. /\ Load(r)
      /\ call' = [call EXCEPT ![s] = c]
      /\ UNCHANGED <<botVars, patches, captured, memory, showing, touched, seen>>
  BY DEF Begin
<1>2. Remembered
  BY <1>1, QuietRemembers DEF botVars
<1>3. /\ disk' \in [Repairs -> File \cup {None}]
      /\ DiskFits'
      /\ FileSays(r) \in Flags \cup {None}
      /\ FileSays(r) # None => Fits(r, FileSays(r))
  BY <1>1, <1>2, LoadFits
<1>4. PICK copy \in Flags \cup {None} : copy = FileSays(r)
  BY <1>3
<1>5. copy # None => Fits(r, copy)'
  BY <1>2, <1>3, <1>4, FitsStays
<1>6. /\ c \in Call
      /\ c.place = "recall" /\ c.id = r /\ c.copy = copy
  BY <1>4 DEF Call, Places
<1> HIDE DEF c
<1>7. /\ call' \in [Servers -> Call \cup {Free}]
      /\ call'[s] = c
      /\ \A t \in Servers \ {s} : call'[t] = call[t]
  BY <1>1, <1>6 DEF IInv, TypeOK
<1>8. CallFits(s)'
  BY <1>5, <1>6, <1>7 DEF CallFits, Fits
<1>9. MemoryFits' /\ memory' \in [Servers -> [Repairs -> Flags \cup {None}]]
  BY <1>1, <1>2, Kept DEF IInv, TypeOK
<1>10. BotTypeOK' /\ UNCHANGED world /\ OthersSame(s)
  BY <1>1, <1>7 DEF IInv, TypeOK, BotTypeOK, botVars, OthersSame
<1> QED
  BY <1>1, <1>3, <1>7, <1>8, <1>9, <1>10, OneCall

\* What the first awaits of a call find and leave.
LEMMA CallRecalls ==
    ASSUME IInv, NEW s \in Servers, At(s, "recall"),
           Recall(s, call[s].id, call[s].copy),
           UNCHANGED <<world, patches, touched, seen>>
    PROVE  /\ call[s] \in Call
           /\ memory' \in [Servers -> [Repairs -> Flags \cup {None}]]
           /\ MemoryFits'
           /\ \E copy \in Flags \cup {None} :
                 /\ copy = Recalled(s, call[s].id, call[s].copy)
                 /\ copy # None => Fits(call[s].id, copy)
<1>1. call[s] \in Call /\ call[s] # Free /\ CallFits(s)
  BY FreeIsNoCall DEF IInv, TypeOK, Clones, At
<1>2. PICK r \in Repairs, said \in Flags \cup {None} : r = call[s].id /\ said = call[s].copy
  BY <1>1 DEF Call
<1>3. Remembered
  BY QuietRemembers
<1>4. said # None => Fits(r, said)
  BY <1>1, <1>2 DEF CallFits
<1> QED
  BY <1>1, <1>2, <1>3, <1>4, RecallFits

LEMMA AcceptStep ==
    ASSUME IInv, NEW s \in Servers, Accept(s)
    PROVE  IInv'
<1>1. /\ At(s, "recall")
      /\ Allowed(Recalled(s, call[s].id, call[s].copy), call[s].undo)
      /\ Recall(s, call[s].id, call[s].copy)
      /\ call' = [call EXCEPT ![s].place = "writing",
                              ![s].copy = Recalled(s, call[s].id, call[s].copy)]
      /\ Submit(s, Target(call[s]))
      /\ UNCHANGED <<patches, captured, disk, showing, touched, seen>>
  BY DEF Accept
<1>2. UNCHANGED world
  BY <1>1 DEF Submit
<1>3. PICK copy \in Flags \cup {None} :
          /\ copy = Recalled(s, call[s].id, call[s].copy)
          /\ copy # None => Fits(call[s].id, copy)
  BY <1>1, <1>2, CallRecalls
<1>4. /\ call[s] \in Call
      /\ memory' \in [Servers -> [Repairs -> Flags \cup {None}]]
      /\ MemoryFits'
  BY <1>1, <1>2, CallRecalls
<1>5. PICK r \in Repairs : r = call[s].id
  BY <1>4 DEF Call
<1>6. /\ copy \in Flags /\ copy # None /\ Fits(r, copy)
      /\ call[s].undo \/ copy.previewed
  BY <1>1, <1>3, <1>5 DEF Allowed
<1>7. Remembered
  BY <1>1, <1>2, QuietRemembers
<1>8. Fits(r, copy)'
  BY <1>6, <1>7, FitsStays
<1> DEFINE c == [[call[s] EXCEPT !.place = "writing"] EXCEPT !.copy = copy]
<1>9. /\ c \in Call
      /\ c.place = "writing" /\ c.id = r /\ c.undo = call[s].undo /\ c.copy = copy
  BY <1>4, <1>5, <1>6 DEF Call, Places
<1>10. call' = [call EXCEPT ![s] = c]
  BY <1>1, <1>3 DEF IInv, TypeOK
<1> HIDE DEF c
<1>11. /\ call' \in [Servers -> Call \cup {Free}]
       /\ call'[s] = c
       /\ \A t \in Servers \ {s} : call'[t] = call[t]
  BY <1>9, <1>10 DEF IInv, TypeOK
<1>12. CallFits(s)'
  BY <1>6, <1>8, <1>9, <1>11 DEF CallFits, Fits
<1>13. Target(call[s]) \in Todo
  <2>1. patches[r] \in PatchRecord
    BY <1>6 DEF Fits, IInv, TypeOK
  <2> QED
    BY <1>5, <2>1 DEF PatchRecord, Target
<1>14. BotTypeOK'
  BY <1>1, <1>13, RequestTyped DEF IInv, TypeOK
<1>15. DiskFits' /\ disk' \in [Repairs -> File \cup {None}]
  BY <1>1, <1>7, Kept DEF IInv, TypeOK
<1>16. OthersSame(s)
  BY <1>1, <1>11 DEF OthersSame
<1> QED
  BY <1>1, <1>2, <1>4, <1>11, <1>12, <1>14, <1>15, <1>16, OneCall

\* A call that returns leaves nothing behind but what it saved.
LEMMA ReturnTyped ==
    ASSUME IInv, NEW s \in Servers, Return(s)
    PROVE  /\ BotTypeOK' /\ UNCHANGED world
           /\ call' \in [Servers -> Call \cup {Free}]
           /\ \A t \in Servers \ {s} : call'[t] = call[t]
           /\ CallFits(s)'
<1>1. call' = [call EXCEPT ![s] = Free] /\ Abandon(s)
  BY DEF Return
<1>2. BotTypeOK' /\ UNCHANGED world
  BY <1>1, RequestTyped DEF IInv, TypeOK
<1> QED
  BY <1>1, <1>2 DEF IInv, TypeOK, CallFits

LEMMA RefuseStep ==
    ASSUME IInv, NEW s \in Servers, Refuse(s)
    PROVE  IInv'
<1>1. /\ At(s, "recall")
      /\ Recall(s, call[s].id, call[s].copy)
      /\ Return(s)
      /\ UNCHANGED <<patches, captured, disk, showing, touched, seen>>
  BY DEF Refuse
<1>2. Remembered
  BY <1>1, ReturnTyped, QuietRemembers
<1>3. memory' \in [Servers -> [Repairs -> Flags \cup {None}]] /\ MemoryFits'
  BY <1>1, ReturnTyped, CallRecalls
<1>4. DiskFits' /\ disk' \in [Repairs -> File \cup {None}]
  BY <1>1, <1>2, Kept DEF IInv, TypeOK
<1>5. OthersSame(s)
  BY <1>1, ReturnTyped DEF OthersSame
<1> QED
  BY <1>1, <1>3, <1>4, <1>5, ReturnTyped, OneCall

\* A call that fails, or has answered.
LEMMA EndStep ==
    ASSUME IInv, NEW s \in Servers, BridgeFails(s) \/ StoreFails(s) \/ Answer(s)
    PROVE  IInv'
<1>1. Return(s) /\ UNCHANGED <<planVars, showing, touched, seen>>
  BY DEF BridgeFails, StoreFails, Answer
<1>2. Remembered
  BY <1>1, ReturnTyped, QuietRemembers DEF planVars
<1>3. /\ DiskFits' /\ disk' \in [Repairs -> File \cup {None}]
      /\ MemoryFits' /\ memory' \in [Servers -> [Repairs -> Flags \cup {None}]]
  BY <1>1, <1>2, Kept DEF planVars, IInv, TypeOK
<1>4. OthersSame(s)
  BY <1>1, ReturnTyped DEF OthersSame, planVars
<1> QED
  BY <1>1, <1>3, <1>4, ReturnTyped, OneCall

\* A call that goes to another place is otherwise the call it was.
LEMMA GotoTyped ==
    ASSUME IInv, NEW s \in Servers, call[s] \in Call, NEW place \in Places, Goto(s, place)
    PROVE  /\ call' \in [Servers -> Call \cup {Free}]
           /\ \A t \in Servers \ {s} : call'[t] = call[t]
           /\ call'[s].place = place /\ call'[s].id = call[s].id
           /\ call'[s].undo = call[s].undo /\ call'[s].copy = call[s].copy
<1> DEFINE c == [call[s] EXCEPT !.place = place]
<1>1. c \in Call /\ c.place = place
  BY DEF Call
<1>2. c.id = call[s].id /\ c.undo = call[s].undo /\ c.copy = call[s].copy
  BY DEF Call
<1>3. call' = [call EXCEPT ![s] = c]
  BY DEF Goto
<1> HIDE DEF c
<1> QED
  BY <1>1, <1>2, <1>3 DEF IInv, TypeOK

\* A call that goes on keeps its clone right, unless it claims a success.
LEMMA GotoFits ==
    ASSUME IInv, NEW s \in Servers, call[s].place \in Places \ {"recall"}, Remembered,
           NEW place \in Places \ {"recall"}, Goto(s, place),
           place = "store" /\ ~call[s].undo => Found(call[s].id)'
    PROVE  CallFits(s)'
<1>1. /\ call[s] \in Call
      /\ call[s].copy \in Flags /\ Fits(call[s].id, call[s].copy)
      /\ call[s].undo \/ call[s].copy.previewed
  BY CallTyped
<1>2. PICK r \in Repairs, copy \in Flags : r = call[s].id /\ copy = call[s].copy
  BY <1>1 DEF Call
<1>3. Fits(r, copy)'
  BY <1>1, <1>2, FitsStays
<1>4. /\ call'[s].place = place /\ call'[s].id = r
      /\ call'[s].undo = call[s].undo /\ call'[s].copy = copy
  BY <1>1, <1>2, GotoTyped
<1>5. copy # None
  BY RepairAssumption
<1>6. Fits(call[s].id, call[s].copy)'
  BY <1>3, <1>4 DEF Fits
<1>7. place = "store" /\ ~call'[s].undo => Found(call[s].id)'
  BY <1>2, <1>4 DEF Found
<1> QED
  BY <1>1, <1>2, <1>4, <1>5, <1>6, <1>7 DEF CallFits

\* Steps that write to no file and to no memory.
LEMMA GoesOnStep ==
    ASSUME IInv, NEW s \in Servers, WriteAnswered(s) \/ UndoScanned(s) \/ Rollback(s)
    PROVE  IInv'
<1>1. PICK place \in Places \ {"recall"} :
          Goto(s, place) /\ (place = "store" => call[s].undo)
  BY DEF WriteAnswered, UndoScanned, Rollback, Places
<1>2. call[s].place \in Places \ {"recall"} /\ UNCHANGED <<planVars, showing, touched, seen>>
  BY DEF WriteAnswered, UndoScanned, Rollback, Places, At
<1>3. call[s] \in Call /\ Source(call[s]) \in Todo
  BY <1>2, CallTyped
<1>4. BotTypeOK' /\ UNCHANGED world
  <2>1. UNCHANGED botVars \/ Submit(s, Source(call[s]))
    BY DEF WriteAnswered, UndoScanned, Rollback
  <2> QED
    BY <1>3, <2>1, RequestTyped DEF IInv, TypeOK, botVars, BotTypeOK
<1>5. Remembered
  BY <1>2, <1>4, QuietRemembers DEF planVars
<1>6. CallFits(s)'
  BY <1>1, <1>2, <1>5, GotoFits
<1>7. /\ DiskFits' /\ disk' \in [Repairs -> File \cup {None}]
      /\ MemoryFits' /\ memory' \in [Servers -> [Repairs -> Flags \cup {None}]]
  BY <1>2, <1>5, Kept DEF planVars, IInv, TypeOK
<1>8. OthersSame(s) /\ call' \in [Servers -> Call \cup {Free}]
  BY <1>1, <1>2, <1>3, GotoTyped DEF OthersSame, planVars
<1> QED
  BY <1>2, <1>4, <1>6, <1>7, <1>8, OneCall

LEMMA VerifiedStep ==
    ASSUME IInv, NEW s \in Servers, Verified(s)
    PROVE  IInv'
<1>1. /\ call[s].place = "verify" /\ ~call[s].undo
      /\ Matches(Target(call[s]))
      /\ Goto(s, "store")
      /\ touched' = [touched EXCEPT ![call[s].id] = {}]
      /\ UNCHANGED <<botVars, planVars, showing, seen>>
  BY DEF Verified, At
<1>2. call[s] \in Call /\ patches[call[s].id] \in PatchRecord
  BY <1>1, CallTyped DEF Places
<1>3. PICK r \in Repairs : r = call[s].id
  BY <1>2 DEF Call
<1>4. \A c \in Pending(patches[r].after) : world[c] = patches[r].after[c]
  BY <1>1, <1>3 DEF Matches, Target
<1>5. \A q \in Repairs : q # r => touched'[q] = touched[q]
  BY <1>1, <1>3 DEF IInv, TypeOK
<1>6. Found(r)'
  BY <1>1, <1>4 DEF Found, Pending, planVars, botVars
<1>7. \A q \in Repairs : Found(q) => Found(q)'
  BY <1>1, <1>5, <1>6 DEF Found, Pending, planVars, botVars
<1>8. Remembered
  BY <1>1, <1>7 DEF Remembered, planVars
<1>9. Found(call[s].id)'
  <2>1. call'[s].id = r
    BY <1>1, <1>2, <1>3, GotoTyped DEF Places
  <2> QED
    BY <1>6, <2>1 DEF Found
<1>10. CallFits(s)'
  BY <1>1, <1>8, <1>9, GotoFits DEF Places
<1>11. TypeOK'
  <2>1. touched' \in [Repairs -> SUBSET Cells]
    BY <1>1 DEF IInv, TypeOK
  <2>2. call' \in [Servers -> Call \cup {Free}]
    BY <1>1, <1>2, GotoTyped DEF Places
  <2> QED
    BY <1>1, <2>1, <2>2 DEF IInv, TypeOK, BotTypeOK, planVars, botVars
<1>12. \A t \in Servers \ {s} : CallFits(t)'
  BY <1>1, <1>2, <1>8, GotoTyped, Kept DEF Places
<1>13. DiskFits' /\ MemoryFits' /\ \A t \in Servers : ShowingFits(t)'
  BY <1>1, <1>8, Kept DEF planVars
<1> QED
  BY <1>10, <1>11, <1>12, <1>13 DEF IInv, Clones

\* The outcome of a call is saved: what is said to be applied was found.
LEMMA SaveStep ==
    ASSUME IInv, NEW s \in Servers, RolledBack(s) \/ StoreResult(s)
    PROVE  IInv'
<1>1. /\ call[s].place \in Places \ {"recall"}
      /\ UNCHANGED <<botVars, patches, captured, memory, showing, touched, seen>>
  BY DEF RolledBack, StoreResult, At, Places
<1>2. /\ call[s] \in Call
      /\ call[s].copy \in Flags /\ Fits(call[s].id, call[s].copy)
      /\ call[s].undo \/ call[s].copy.previewed
  BY <1>1, CallTyped
<1>3. PICK r \in Repairs, copy \in Flags : r = call[s].id /\ copy = call[s].copy
  BY <1>2 DEF Call
<1>4. PICK place \in {"rolledBack", "remember"}, applied \in BOOLEAN :
          /\ SaveOutcome(s, place, applied)
          /\ applied => Found(r)
  <2>1. CASE RolledBack(s)
    BY <2>1 DEF RolledBack
  <2>2. CASE StoreResult(s)
    <3>1. SaveOutcome(s, "remember", ~call[s].undo) /\ call[s].place = "store"
      BY <2>2 DEF StoreResult, At
    <3>2. CallFits(s) /\ call[s] # Free
      BY <1>1, CallTyped DEF IInv, Clones
    <3>3. ~call[s].undo => Found(r)
      BY <1>3, <3>1, <3>2 DEF CallFits
    <3> QED
      BY <1>2, <3>1, <3>3 DEF Call
  <2> QED
    BY <2>1, <2>2
<1>5. PICK outcome \in Flags : outcome = [copy EXCEPT !.applied = applied]
  BY DEF Flags
<1>6. Remembered
  BY <1>1, QuietRemembers DEF botVars
<1>7. Fits(r, copy)'
  BY <1>2, <1>3, <1>6, FitsStays
<1>8. applied => Found(r)'
  BY <1>2, <1>3, <1>4, <1>6 DEF Remembered, Fits
<1>9. /\ outcome.previewed = copy.previewed /\ outcome.applied = applied
      /\ outcome # None
  BY <1>5, RepairAssumption DEF Flags
<1>10. Fits(r, outcome)'
  BY <1>7, <1>8, <1>9 DEF Fits
<1>11. disk' \in [Repairs -> File \cup {None}] /\ DiskFits'
  <2>1. Save(r, outcome)
    BY <1>3, <1>4, <1>5 DEF SaveOutcome
  <2> QED
    BY <1>6, <1>10, <2>1, SaveFits
<1>12. MemoryFits' /\ memory' \in [Servers -> [Repairs -> Flags \cup {None}]]
  BY <1>1, <1>6, Kept DEF IInv, TypeOK
<1> DEFINE c == [[call[s] EXCEPT !.place = place] EXCEPT !.copy = outcome]
<1>13. /\ c \in Call
       /\ c.place = place /\ c.id = r /\ c.undo = call[s].undo /\ c.copy = outcome
  BY <1>2, <1>3 DEF Call, Places
<1>14. call' = [call EXCEPT ![s] = c]
  BY <1>3, <1>4, <1>5 DEF SaveOutcome, IInv, TypeOK
<1> HIDE DEF c
<1>15. /\ call' \in [Servers -> Call \cup {Free}]
       /\ call'[s] = c
       /\ \A t \in Servers \ {s} : call'[t] = call[t]
  BY <1>13, <1>14 DEF IInv, TypeOK
<1>16. CallFits(s)'
  BY <1>2, <1>3, <1>9, <1>10, <1>13, <1>15 DEF CallFits, Fits
<1>17. OthersSame(s) /\ BotTypeOK' /\ UNCHANGED <<world, touched>>
  BY <1>1, <1>15 DEF OthersSame, IInv, TypeOK, BotTypeOK, botVars
<1> QED
  BY <1>11, <1>12, <1>15, <1>16, <1>17, OneCall

LEMMA RememberOutcomeStep ==
    ASSUME IInv, NEW s \in Servers, RememberOutcome(s)
    PROVE  IInv'
<1>1. /\ call[s].place \in Places \ {"recall"}
      /\ Remember(s, call[s].id, call[s].copy)
      /\ UNCHANGED <<patches, captured, disk, showing, touched, seen>>
  BY DEF RememberOutcome, Places
<1>2. /\ call[s] \in Call
      /\ call[s].copy \in Flags /\ Fits(call[s].id, call[s].copy)
  BY <1>1, CallTyped
<1>3. PICK r \in Repairs, copy \in Flags : r = call[s].id /\ copy = call[s].copy
  BY <1>2 DEF Call
<1>4. \/ Goto(s, "rescan") /\ UNCHANGED botVars
      \/ Return(s)
  BY DEF RememberOutcome
<1>5. BotTypeOK' /\ UNCHANGED world
  BY <1>4, ReturnTyped DEF IInv, TypeOK, BotTypeOK, botVars
<1>6. Remembered
  BY <1>1, <1>5, QuietRemembers
<1>7. Fits(r, copy)'
  BY <1>2, <1>3, <1>6, FitsStays
<1>8. memory' \in [Servers -> [Repairs -> Flags \cup {None}]] /\ MemoryFits'
  BY <1>1, <1>3, <1>6, <1>7, RememberFits
<1>9. DiskFits' /\ disk' \in [Repairs -> File \cup {None}]
  BY <1>1, <1>6, Kept DEF IInv, TypeOK
<1>10. CallFits(s)' /\ OthersSame(s) /\ call' \in [Servers -> Call \cup {Free}]
  <2>1. CASE Goto(s, "rescan")
    BY <1>1, <1>2, <1>6, <2>1, GotoFits, GotoTyped DEF OthersSame, Places
  <2>2. CASE Return(s)
    BY <1>1, <2>2, ReturnTyped DEF OthersSame
  <2> QED
    BY <1>4, <2>1, <2>2
<1> QED
  BY <1>1, <1>5, <1>8, <1>9, <1>10, OneCall

LEMMA RestartStep ==
    ASSUME IInv, NEW s \in Servers, Restart(s)
    PROVE  IInv'
<1>1. /\ memory' = [memory EXCEPT ![s] = [r \in Repairs |-> None]]
      /\ call' = [call EXCEPT ![s] = Free]
      /\ showing' = [showing EXCEPT ![s] = None]
      /\ Abandon(s)
      /\ UNCHANGED <<patches, captured, disk, touched, seen>>
  BY DEF Restart
<1>2. BotTypeOK' /\ UNCHANGED world
  BY <1>1, RequestTyped DEF IInv, TypeOK
<1>3. Remembered
  BY <1>1, <1>2, QuietRemembers
<1>4. TypeOK'
  BY <1>1, <1>2 DEF IInv, TypeOK
<1>5. \A t \in Servers : ShowingFits(t)' /\ CallFits(t)'
  <2>1. \A t \in Servers \ {s} : showing'[t] = showing[t] /\ call'[t] = call[t]
    BY <1>1 DEF IInv, TypeOK
  <2>2. showing'[s] = None /\ call'[s] = Free
    BY <1>1 DEF IInv, TypeOK
  <2>3. ShowingFits(s)' /\ CallFits(s)'
    BY <2>2 DEF ShowingFits, CallFits
  <2> QED
    BY <1>3, <2>1, <2>3, Kept
<1>6. ASSUME NEW t \in Servers, NEW r \in Repairs, memory'[t][r] # None
      PROVE  Fits(r, memory[t][r])'
  <2>1. memory'[t][r] = memory[t][r]
    BY <1>1, <1>6 DEF IInv, TypeOK
  <2>2. PICK flags \in Flags : flags = memory[t][r]
    BY <1>6, <2>1 DEF IInv, TypeOK
  <2>3. Fits(r, flags)'
    BY <1>3, <1>6, <2>1, <2>2, FitsStays DEF IInv, MemoryFits
  <2> QED
    BY <2>1, <2>2, <2>3 DEF Fits
<1> QED
  BY <1>1, <1>3, <1>4, <1>5, <1>6, Kept DEF IInv, Clones, MemoryFits

LEMMA OutsideStep ==
    ASSUME IInv, Outside
    PROVE  IInv'
<1>1. BotTypeOK' /\ UNCHANGED <<planVars, call, showing, seen>>
  BY OneCellChanges DEF Outside, LateStops, BotTypeOK, IInv, TypeOK
<1>2. /\ touched' \in [Repairs -> SUBSET Cells]
      /\ \A r \in Repairs, d \in Cells : d \notin touched'[r] =>
            d \notin touched[r] /\ world'[d] = world[d]
  <2>1. CASE UNCHANGED <<world, touched>>
    BY <2>1 DEF IInv, TypeOK
  <2>2. CASE touched' = [r \in Repairs |->
                touched[r] \cup {d \in Cells : world'[d] # world[d]}]
    BY <2>2 DEF IInv, TypeOK
  <2> QED
    BY <2>1, <2>2 DEF Outside, LateStops
<1>3. ASSUME NEW r \in Repairs, patches[r] # None, Found(r)
      PROVE  Found(r)'
  <2>1. patches'[r] = patches[r]
    BY <1>1 DEF planVars
  <2> QED
    BY <1>2, <1>3, <2>1 DEF Found, Pending
<1>4. Remembered
  BY <1>1, <1>3 DEF Remembered, planVars
<1>5. TypeOK'
  BY <1>1, <1>2 DEF IInv, TypeOK, planVars
<1> QED
  BY <1>1, <1>4, <1>5, Kept DEF IInv, Clones, planVars

-----------------------------------------------------------------------------

LEMMA InitHolds == Init => IInv
<1> SUFFICES ASSUME Init PROVE IInv
  OBVIOUS
<1>1. BotTypeOK /\ captured \in [Cells -> Blocks]
  BY IdleTyped, WorldAssumption DEF Init, BotInit, BotTypeOK
<1>2. TypeOK
  BY <1>1 DEF Init, TypeOK
<1> QED
  BY <1>2 DEF Init, IInv, DiskFits, MemoryFits, Clones, ShowingFits, CallFits

LEMMA NextHolds == IInv /\ [Next]_vars => IInv'
<1> SUFFICES ASSUME IInv, [Next]_vars PROVE IInv'
  OBVIOUS
<1>1. CASE Capture
  BY <1>1, CaptureStep
<1>2. ASSUME NEW s \in Servers, NEW r \in Repairs,
             \/ \E wanted \in Todo : NewRepair(s, r, wanted)
             \/ ShowBegin(s, r)
             \/ \E undo \in BOOLEAN : Begin(s, r, undo)
      PROVE  IInv'
  BY <1>2, NewRepairStep, ShowBeginStep, BeginStep
<1>3. ASSUME NEW s \in Servers, ShowStep(s) \/ CallStep(s) \/ Restart(s)
      PROVE  IInv'
  <2>1. CASE ShowStep(s)
    BY <2>1, ShowRecallStep, ShowPreviewedStep, ShowEndsStep DEF ShowStep
  <2>2. CASE CallStep(s)
    BY <2>2, AcceptStep, RefuseStep, EndStep, GoesOnStep, VerifiedStep, SaveStep,
       RememberOutcomeStep DEF CallStep
  <2> QED
    BY <1>3, <2>1, <2>2, RestartStep
<1>4. CASE \E r \in Repairs : Expire(r)
  BY <1>4, ExpireStep
<1>5. CASE Outside
  BY <1>5, OutsideStep
<1>6. CASE UNCHANGED vars
  <2>1. UNCHANGED <<botVars, patches, captured, disk, memory, call, showing, touched, seen>>
    BY <1>6 DEF vars, botVars
  <2>2. Remembered
    BY <2>1, QuietRemembers DEF botVars
  <2>3. TypeOK'
    BY <2>1 DEF IInv, TypeOK, BotTypeOK, botVars
  <2> QED
    BY <2>1, <2>2, <2>3, Kept DEF IInv, Clones
<1> QED
  BY <1>1, <1>2, <1>3, <1>4, <1>5, <1>6 DEF Next

\* The invariant the properties of repairs follow from: files, memories and
\* handlers' clones, however old, only ever hold flags of a stored repair, say
\* "previewed" only of one that was shown and "applied" only of one that was
\* found in the world.
THEOREM Invariant == Spec => []IInv
<1>1. Init => IInv
  BY InitHolds
<1>2. IInv /\ [Next]_vars => IInv'
  BY NextHolds
<1> QED
  BY <1>1, <1>2, PTL DEF Spec

\* mutate_repair applies only what show_repair_plan has shown, however many
\* processes share the plan files and whichever of them restart.
THEOREM AppliesOnlySeen == Spec => []NoApplyUnseen
<1>1. IInv => NoApplyUnseen
  <2> SUFFICES ASSUME IInv, NEW s \in Servers,
                      call[s].place \notin {"free", "recall"}, ~call[s].undo
               PROVE  call[s].id \in seen
    BY DEF NoApplyUnseen
  <2>1. call[s].place \in Places \ {"recall"}
    BY FreeIsNoCall DEF IInv, TypeOK, Call
  <2> QED
    BY <2>1, CallTyped DEF Fits
<1> QED
  BY <1>1, Invariant, PTL

\* Whatever says that a repair is applied - a plan file, the memory of a
\* process, a clone a preview or a call holds - says so of a patch that
\* verify_physical_changes found whole in the world, through any races of
\* previews with mutations, failed saves, rollbacks, expiries and restarts.
THEOREM SaidAppliedWasVerified == Spec => []AppliedWasVerified
<1>1. IInv => AppliedWasVerified
  <2> SUFFICES ASSUME IInv, NEW r \in Repairs, SaysApplied(r)
               PROVE  Found(r)
    BY DEF AppliedWasVerified, Found
  <2>1. CASE disk[r] # None /\ disk[r].flags.applied
    BY <2>1 DEF IInv, DiskFits, Fits
  <2>2. ASSUME NEW s \in Servers, memory[s][r] # None, memory[s][r].applied
        PROVE  Found(r)
    BY <2>2 DEF IInv, MemoryFits, Fits
  <2>3. ASSUME NEW s \in Servers, showing[s] # None, showing[s].id = r,
               showing[s].copy # None, showing[s].copy.applied
        PROVE  Found(r)
    BY <2>3 DEF IInv, Clones, ShowingFits, Fits
  <2>4. ASSUME NEW s \in Servers, call[s] # Free, call[s].id = r,
               call[s].copy # None, call[s].copy.applied
        PROVE  Found(r)
    BY <2>4 DEF IInv, Clones, CallFits, Fits
  <2> QED
    BY <2>1, <2>2, <2>3, <2>4 DEF SaysApplied
<1> QED
  BY <1>1, Invariant, PTL
-----------------------------------------------------------------------------
(* What stored repairs promise the circuit: accepted one after the other   *)
(* they never bring it back.  Mending states it on the counts a repair is  *)
(* judged by, whatever they are.                                           *)

VARIABLES health, first

Mended == INSTANCE Mending

HealthTyped == health \in Mended!Health /\ first \in Mended!Health

\* However often the circuit was mended since something else happened to it,
\* it is as it was then, without any mend, or better than it was.
NeverReturns == health = first \/ Mended!Better(first, health)

\* A circuit is not better than itself (improves is not satisfied by a change
\* that changes none of the counts).
LEMMA BetterIsStrict ==
    ASSUME NEW h \in Mended!Health
    PROVE  ~Mended!Better(h, h)
BY DEF Mended!Better, Mended!NotWorse, Mended!Health

\* What is better than something better is better, though the fragments may
\* have become more on the way.
LEMMA BetterIsTransitive ==
    ASSUME NEW g \in Mended!Health, NEW h \in Mended!Health, NEW k \in Mended!Health,
           Mended!Better(g, h), Mended!Better(h, k)
    PROVE  Mended!Better(g, k)
<1>1. Mended!NotWorse(g, k)
  BY DEF Mended!Better, Mended!NotWorse, Mended!Health
<1>2. CASE h.supports < g.supports \/ k.supports < h.supports
  BY <1>1, <1>2 DEF Mended!Better, Mended!NotWorse, Mended!Health
<1>3. CASE h.undriven < g.undriven \/ k.undriven < h.undriven
  BY <1>1, <1>3 DEF Mended!Better, Mended!NotWorse, Mended!Health
<1>4. CASE h.reachable > g.reachable \/ k.reachable > h.reachable
  BY <1>1, <1>4 DEF Mended!Better, Mended!NotWorse, Mended!Health
<1>5. CASE h.fragments < g.fragments /\ k.fragments < h.fragments
  BY <1>1, <1>5 DEF Mended!Better, Mended!NotWorse, Mended!Health
<1> QED
  BY <1>2, <1>3, <1>4, <1>5 DEF Mended!Better

\* No sequence of mends leads back to where it began: nothing that is better
\* than g has g for something better.
LEMMA NoWayBack ==
    ASSUME NEW g \in Mended!Health, NEW h \in Mended!Health, Mended!Better(g, h)
    PROVE  ~Mended!Better(h, g)
BY BetterIsStrict, BetterIsTransitive

\* Counts are natural numbers.
THEOREM MendingTypeCorrect == Mended!Spec => []HealthTyped
<1>1. Mended!Init => HealthTyped
  BY DEF Mended!Init, HealthTyped
<1>2. HealthTyped /\ [Mended!Next]_(Mended!vars) => HealthTyped'
  BY DEF HealthTyped, Mended!Next, Mended!Mend, Mended!Disturb, Mended!vars
<1> QED
  BY <1>1, <1>2, PTL DEF Mended!Spec

\* A circuit that is only mended is never again as it was before (improves,
\* patch.rs): it is untouched or better.
THEOREM MendingNeverReturns == Mended!Spec => []NeverReturns
<1>1. Mended!Init => NeverReturns
  BY DEF Mended!Init, NeverReturns
<1>2. HealthTyped /\ HealthTyped' /\ NeverReturns /\ [Mended!Next]_(Mended!vars) => NeverReturns'
  <2> SUFFICES ASSUME HealthTyped, HealthTyped', NeverReturns, [Mended!Next]_(Mended!vars)
               PROVE  NeverReturns'
    OBVIOUS
  <2>1. CASE Mended!Mend
    <3>1. Mended!Better(health, health') /\ first' = first
      BY <2>1 DEF Mended!Mend
    <3>2. CASE health = first
      BY <3>1, <3>2 DEF NeverReturns
    <3>3. CASE Mended!Better(first, health)
      <4>1. Mended!Better(first, health')
        BY <3>1, <3>3, BetterIsTransitive DEF HealthTyped
      <4> QED
        BY <3>1, <4>1 DEF NeverReturns
    <3> QED
      BY <3>2, <3>3 DEF NeverReturns
  <2>2. CASE Mended!Disturb
    BY <2>2 DEF Mended!Disturb, NeverReturns
  <2>3. CASE UNCHANGED Mended!vars
    BY <2>3 DEF Mended!vars, NeverReturns
  <2> QED
    BY <2>1, <2>2, <2>3 DEF Mended!Next
<1> QED
  BY <1>1, <1>2, MendingTypeCorrect, PTL DEF Mended!Spec
=============================================================================
