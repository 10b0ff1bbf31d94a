--------------------------- MODULE Placement_proofs ---------------------------
(***************************************************************************)
(* Proofs about circuit placements, for any number of plans, cells, block  *)
(* states, late jobs and edits by other players.                           *)
(***************************************************************************)
EXTENDS Placement, TLAPS

-----------------------------------------------------------------------------
(* What each step of the bot and the players does to the world.            *)


\* The empty job is a job.
LEMMA IdleTyped == Idle \in Todo
  BY DEF Idle, Todo

\* A job names a block wherever it is pending.
LEMMA PendingBlock ==
    ASSUME NEW todo \in Todo, NEW c \in Pending(todo)
    PROVE  c \in Cells /\ todo[c] \in Blocks
  BY DEF Todo, Pending

\* What is left of a job when one cell is done is a job.
LEMMA RestTyped ==
    ASSUME NEW todo \in Todo, NEW c \in Cells
    PROVE  [todo EXCEPT ![c] = Keep] \in Todo
  BY DEF Todo

\* A write at c leaves every other cell alone.
LEMMA ExecutesOneCell ==
    ASSUME NEW todo \in Todo, NEW c \in Pending(todo), Executes(todo, c),
           world \in [Cells -> Blocks]
    PROVE  /\ world' \in [Cells -> Blocks]
           /\ \A d \in Cells : d # c => world'[d] = world[d]
  <1>1. c \in Cells /\ todo[c] \in Blocks
    BY PendingBlock
  <1> QED
    BY <1>1 DEF Executes

\* The server's side of a request keeps the types, and the world.
LEMMA RequestTyped ==
    ASSUME BotTypeOK, NEW s \in Servers,
           Abandon(s) \/ \E todo \in Todo : Submit(s, todo)
    PROVE  BotTypeOK' /\ world' = world
  <1>1. CASE Abandon(s)
    <2>1. job[s] \in Todo
      BY DEF BotTypeOK
    <2>2. job' \in [Servers -> Todo]
      BY <1>1, IdleTyped DEF Abandon, BotTypeOK
    <2>3. late' \in SUBSET Todo
      BY <1>1, <2>1 DEF Abandon, BotTypeOK
    <2>4. world' = world /\ edits' = edits
      BY <1>1 DEF Abandon
    <2> QED
      BY <2>2, <2>3, <2>4 DEF BotTypeOK
  <1>2. CASE \E todo \in Todo : Submit(s, todo)
    BY <1>2 DEF Submit, BotTypeOK
  <1> QED
    BY <1>1, <1>2

\* A step of the bot, of a late job or of a player concerns one cell.
LEMMA WriteTyped ==
    ASSUME BotTypeOK, NEW s \in Servers, NEW c \in Cells,
           \/ BotWrites(s, c)
           \/ BotDigs(s, c)
           \/ \E todo \in late : LateWrites(todo, c) \/ LateDigs(todo, c)
           \/ \E block \in Blocks : PlayerEdits(c, block)
    PROVE  /\ BotTypeOK'
           /\ \A d \in Cells : d # c => world'[d] = world[d]
  <1> USE DEF BotTypeOK
  <1>1. CASE BotWrites(s, c)
    <2>1. job[s] \in Todo
      OBVIOUS
    <2>2. job' \in [Servers -> Todo]
      <3>1. job' = [job EXCEPT ![s] = [job[s] EXCEPT ![c] = Keep]]
        BY <1>1 DEF BotWrites
      <3> QED
        BY <2>1, <3>1, RestTyped
    <2>3. /\ world' \in [Cells -> Blocks]
          /\ \A d \in Cells : d # c => world'[d] = world[d]
      BY <1>1, <2>1, ExecutesOneCell DEF BotWrites
    <2> QED
      BY <1>1, <2>2, <2>3 DEF BotWrites
  <1>2. CASE BotDigs(s, c)
    BY <1>2, WorldAssumption DEF BotDigs
  <1>3. CASE \E todo \in late : LateWrites(todo, c)
    <2>1. PICK todo \in late : LateWrites(todo, c)
      BY <1>3
    <2>2. late' \in SUBSET Todo
      BY <2>1, RestTyped DEF LateWrites
    <2>3. /\ world' \in [Cells -> Blocks]
          /\ \A d \in Cells : d # c => world'[d] = world[d]
      BY <2>1, ExecutesOneCell DEF LateWrites
    <2> QED
      BY <2>1, <2>2, <2>3 DEF LateWrites
  <1>4. CASE \E todo \in late : LateDigs(todo, c)
    BY <1>4, WorldAssumption DEF LateDigs
  <1>5. CASE \E block \in Blocks : PlayerEdits(c, block)
    BY <1>5 DEF PlayerEdits
  <1> QED
    BY <1>1, <1>2, <1>3, <1>4, <1>5

\* A late job that stops leaves everything else alone.
LEMMA StopTyped ==
    ASSUME BotTypeOK, NEW todo \in late, LateStops(todo)
    PROVE  BotTypeOK' /\ world' = world
  BY DEF BotTypeOK, LateStops

-----------------------------------------------------------------------------
(* The inductive invariant.                                                *)

\* The books speak of plans that exist.
BooksKnown ==
    /\ applied \subseteq Planned
    /\ previewed \subseteq Planned
    /\ call # Free => call.plan \in Planned

IInv ==
    /\ TypeOK
    /\ BooksKnown
    /\ ApplyIsPreviewed
    /\ CallMatchesBooks
    /\ BooksMatchWorld

-----------------------------------------------------------------------------
\* A call is in one of its places, or there is none.
LEMMA CallParts ==
    ASSUME TypeOK
    PROVE  /\ call = Free => call.place = "free"
           /\ call # Free => /\ call \in Call
                             /\ call.place \in Places
                             /\ call.plan \in Plans
                             /\ call.undo \in BOOLEAN
                             /\ call.attempts \in 0..MaxAttempts
           /\ call.place # "free" => call # Free
  BY DEF TypeOK, Call, Free

\* A planned placement has the blocks before and after it.
LEMMA PlanParts ==
    ASSUME TypeOK, NEW p \in Planned
    PROVE  /\ plans[p] \in Plan
           /\ plans[p].before \in Todo
           /\ plans[p].after \in Todo
  BY DEF TypeOK, Planned, Plan

\* Planning an overlay yields a plan.
LEMMA OverlayTyped ==
    ASSUME BotTypeOK, NEW design \in Designs
    PROVE  Overlay(design) \in Plan
PROOF
  <1> DEFINE differs(c) == design[c] # Keep /\ design[c] # world[c]
  <1>1. [c \in Cells |-> IF differs(c) THEN world[c] ELSE Keep] \in Todo
    BY DEF BotTypeOK, Todo
  <1>2. [c \in Cells |-> IF differs(c) THEN design[c] ELSE Keep] \in Todo
    BY DEF Designs, Todo
  <1> QED
    BY <1>1, <1>2 DEF Overlay, Plan

\* Every step of the client, the server, the bot and the world keeps the types.
LEMMA TypeStep == TypeOK /\ BooksKnown /\ [Next]_vars => TypeOK'
PROOF
  <1> SUFFICES ASSUME TypeOK, BooksKnown, [Next]_vars PROVE TypeOK'
    OBVIOUS
  <1>0. /\ BotTypeOK /\ Server \in Servers
        /\ plans \in [Plans -> Plan \cup {NoPlan}]
        /\ applied \in SUBSET Plans /\ previewed \in SUBSET Plans
        /\ touched \in [Plans -> SUBSET Cells]
        /\ call \in Call \cup {Free}
    BY PlacementAssumption DEF TypeOK
  <1>1. ASSUME NEW p \in Plans, NEW design \in Designs, NewPlacement(p, design)
        PROVE  TypeOK'
    <2>1. plans' \in [Plans -> Plan \cup {NoPlan}]
      BY <1>0, <1>1, OverlayTyped DEF NewPlacement
    <2>2. BotTypeOK'
      BY <1>0, <1>1 DEF NewPlacement, botVars, BotTypeOK
    <2> QED
      BY <1>0, <1>1, <2>1, <2>2 DEF NewPlacement, Confirm, TypeOK
  <1>2. ASSUME NEW p \in Plans, ShowOperation(p) PROVE TypeOK'
    BY <1>0, <1>2 DEF ShowOperation, botVars, BotTypeOK, TypeOK
  <1>3. ASSUME NEW p \in Plans, NEW undo \in BOOLEAN, Begin(p, undo) PROVE TypeOK'
    <2>1. call' \in Call
      BY <1>3, PlacementAssumption DEF Begin, Call, Places
    <2> QED
      BY <1>0, <1>3, <2>1 DEF Begin, botVars, BotTypeOK, TypeOK
  <1>4. ASSUME CallStep PROVE TypeOK'
    <2>1. call \in Call
      BY <1>4, CallParts
         DEF CallStep, BaselineMatches, BaselineStale, SubmitWrites, WriteAnswered,
             BridgeFails, Verified, VerifyAgain, VerifyGivesUp, Record, At
    <2>2. Source(call) \in Todo /\ Target(call) \in Todo
      <3>1. call.plan \in Planned
        BY <2>1 DEF BooksKnown, Call, Places, Free
      <3> QED
        BY <3>1, PlanParts DEF Source, Target
    <2>3. CASE BaselineMatches \/ WriteAnswered \/ Verified
      <3>1. call' \in Call
        BY <2>1, <2>3
           DEF BaselineMatches, WriteAnswered, Verified, Goto, Call, Places
      <3>2. BotTypeOK'
        BY <1>0, <2>3 DEF BaselineMatches, WriteAnswered, Verified, botVars, BotTypeOK
      <3>3. touched' \in [Plans -> SUBSET Cells]
        BY <1>0, <2>3 DEF BaselineMatches, WriteAnswered, Verified, Confirm
      <3> QED
        BY <1>0, <2>3, <3>1, <3>2, <3>3
           DEF BaselineMatches, WriteAnswered, Verified, TypeOK
    <2>4. CASE SubmitWrites
      <3>1. call' \in Call
        BY <2>1, <2>4 DEF SubmitWrites, Goto, Call, Places
      <3>2. BotTypeOK'
        BY <1>0, <2>2, <2>4, RequestTyped DEF SubmitWrites
      <3> QED
        BY <1>0, <2>4, <3>1, <3>2 DEF SubmitWrites, TypeOK
    <2>5. CASE VerifyAgain
      <3>1. call' \in Call
        BY <2>1, <2>5, PlacementAssumption DEF VerifyAgain, Call
      <3> QED
        BY <1>0, <2>5, <3>1 DEF VerifyAgain, botVars, BotTypeOK, TypeOK
    <2>6. CASE BaselineStale \/ BridgeFails \/ VerifyGivesUp \/ Record
      <3>1. Return
        BY <2>6 DEF BaselineStale, BridgeFails, VerifyGivesUp, Record
      <3>2. BotTypeOK' /\ call' = Free
        BY <1>0, <3>1, RequestTyped DEF Return
      <3>3. /\ plans' = plans /\ touched' = touched
            /\ applied' \in SUBSET Plans /\ previewed' \in SUBSET Plans
        BY <1>0, <2>1, <2>6
           DEF BaselineStale, BridgeFails, VerifyGivesUp, Record, Call
      <3> QED
        BY <1>0, <3>2, <3>3 DEF TypeOK
    <2> QED
      BY <1>4, <2>3, <2>4, <2>5, <2>6 DEF CallStep
  <1>5. ASSUME Outside PROVE TypeOK'
    <2>1. ASSUME NEW c \in Cells, UNCHANGED serverVars, Touch(c),
                 \/ BotWrites(Server, c)
                 \/ \E todo \in late : LateWrites(todo, c)
                 \/ \E block \in Blocks : PlayerEdits(c, block)
          PROVE  TypeOK'
      <3>1. BotTypeOK'
        BY <1>0, <2>1, WriteTyped
      <3> QED
        BY <1>0, <2>1, <3>1 DEF TypeOK, serverVars, Touch
    <2>2. ASSUME NEW todo \in late, LateStops(todo), UNCHANGED <<serverVars, touched>>
          PROVE  TypeOK'
      <3>1. BotTypeOK'
        BY <1>0, <2>2, StopTyped
      <3> QED
        BY <1>0, <2>2, <3>1 DEF TypeOK, serverVars
    <2> QED
      BY <1>5, <2>1, <2>2 DEF Outside
  <1>6. CASE UNCHANGED vars
    BY <1>0, <1>6 DEF vars, TypeOK, BotTypeOK
  <1> QED
    BY <1>1, <1>2, <1>3, <1>4, <1>5, <1>6 DEF Next

-----------------------------------------------------------------------------
\* Only NewPlacement touches the plans, and it only adds one.
LEMMA PlannedStep ==
    ASSUME TypeOK, [Next]_vars
    PROVE  /\ Planned \subseteq Planned'
           /\ \A p \in Planned : plans'[p] = plans[p]
PROOF
  <1>1. ASSUME NEW p \in Plans, NEW design \in Designs, NewPlacement(p, design)
        PROVE  \A q \in Planned : plans'[q] = plans[q]
    BY <1>1 DEF NewPlacement, Planned, TypeOK
  <1>2. plans' = plans => \A q \in Planned : plans'[q] = plans[q]
    OBVIOUS
  <1>3. \/ plans' = plans
        \/ \E p \in Plans, design \in Designs : NewPlacement(p, design)
    BY DEF Next, ShowOperation, Begin, CallStep, BaselineMatches, BaselineStale,
           SubmitWrites, WriteAnswered, BridgeFails, Verified, VerifyAgain,
           VerifyGivesUp, Record, Outside, serverVars, vars
  <1>4. \A q \in Planned : plans'[q] = plans[q]
    BY <1>1, <1>2, <1>3
  <1>5. Planned \subseteq Planned'
    BY <1>4 DEF Planned
  <1> QED
    BY <1>4, <1>5

\* What a step does to the books: nothing, or one tool's entry.
LEMMA BooksStep ==
    ASSUME TypeOK, [Next]_vars
    PROVE  \/ UNCHANGED <<applied, previewed, call>>
           \/ \E p \in Planned : /\ previewed' = previewed \cup {p}
                                 /\ UNCHANGED <<applied, call, plans>>
           \/ \E p \in Planned, undo \in BOOLEAN :
                /\ Allowed(p, undo)
                /\ call' = [place |-> "baseline", plan |-> p, undo |-> undo, attempts |-> 0]
                /\ UNCHANGED <<applied, previewed, plans>>
           \/ /\ call # Free /\ call' # Free
              /\ call'.plan = call.plan /\ call'.undo = call.undo
              /\ UNCHANGED <<applied, previewed, plans>>
           \/ /\ call' = Free
              /\ previewed' \in {previewed, previewed \ {call.plan}}
              /\ UNCHANGED <<applied, plans>>
           \/ Record
PROOF
  <1>1. CASE BaselineMatches \/ SubmitWrites \/ WriteAnswered \/ Verified \/ VerifyAgain
    <2>1. call \in Call /\ call # Free
      BY <1>1, CallParts
         DEF BaselineMatches, SubmitWrites, WriteAnswered, Verified, VerifyAgain, At
    <2>2. /\ call'.plan = call.plan /\ call'.undo = call.undo
          /\ call'.place # "free"
      BY <1>1, <2>1
         DEF BaselineMatches, SubmitWrites, WriteAnswered, Verified, VerifyAgain, At,
             Goto, Call, Places
    <2>3. call' # Free
      BY <2>2 DEF Free
    <2> QED
      BY <1>1, <2>1, <2>2, <2>3
         DEF BaselineMatches, SubmitWrites, WriteAnswered, Verified, VerifyAgain
  <1>2. CASE BaselineStale \/ BridgeFails \/ VerifyGivesUp
    BY <1>2 DEF BaselineStale, BridgeFails, VerifyGivesUp, Return
  <1>3. CASE Record
    BY <1>3
  <1>4. ASSUME NEW p \in Plans, ShowOperation(p)
        PROVE  p \in Planned /\ previewed' = previewed \cup {p}
               /\ UNCHANGED <<applied, call, plans>>
    BY <1>4 DEF ShowOperation
  <1>5. ASSUME NEW p \in Plans, NEW undo \in BOOLEAN, Begin(p, undo)
        PROVE  /\ p \in Planned /\ Allowed(p, undo)
               /\ call' = [place |-> "baseline", plan |-> p, undo |-> undo, attempts |-> 0]
               /\ UNCHANGED <<applied, previewed, plans>>
    BY <1>5 DEF Begin
  <1>6. CASE Outside \/ UNCHANGED vars \/ \E p \in Plans, design \in Designs : NewPlacement(p, design)
    BY <1>6 DEF Outside, serverVars, vars, NewPlacement
  <1> QED
    BY <1>1, <1>2, <1>3, <1>4, <1>5, <1>6 DEF Next, CallStep

\* The books keep to plans that exist, and to the call in flight.
LEMMA CallBooksStep ==
    ASSUME TypeOK, BooksKnown, ApplyIsPreviewed, CallMatchesBooks, [Next]_vars
    PROVE  BooksKnown' /\ ApplyIsPreviewed' /\ CallMatchesBooks'
PROOF
  <1> USE DEF BooksKnown, ApplyIsPreviewed, CallMatchesBooks
  <1>0. Planned \subseteq Planned'
    BY PlannedStep
  <1>1. CASE UNCHANGED <<applied, previewed, call>>
    BY <1>0, <1>1
  <1>2. ASSUME NEW p \in Planned, previewed' = previewed \cup {p},
               UNCHANGED <<applied, call, plans>>
        PROVE  BooksKnown' /\ ApplyIsPreviewed' /\ CallMatchesBooks'
    BY <1>0, <1>2
  <1>3. ASSUME NEW p \in Planned, NEW undo \in BOOLEAN, Allowed(p, undo),
               call' = [place |-> "baseline", plan |-> p, undo |-> undo, attempts |-> 0],
               UNCHANGED <<applied, previewed, plans>>
        PROVE  BooksKnown' /\ ApplyIsPreviewed' /\ CallMatchesBooks'
    <2>1. call'.plan = p /\ call'.undo = undo
      BY <1>3
    <2> QED
      BY <1>0, <1>3, <2>1 DEF Allowed
  <1>4. CASE /\ call # Free /\ call' # Free
             /\ call'.plan = call.plan /\ call'.undo = call.undo
             /\ UNCHANGED <<applied, previewed, plans>>
    BY <1>0, <1>4
  <1>5. CASE /\ call' = Free
             /\ previewed' \in {previewed, previewed \ {call.plan}}
             /\ UNCHANGED <<applied, plans>>
    BY <1>0, <1>5
  <1>6. CASE Record
    <2>1. call # Free
      BY <1>6, CallParts DEF Record, At
    <2>2. /\ call' = Free /\ previewed' \subseteq previewed
          /\ applied' \subseteq applied \cup {call.plan}
      BY <1>6 DEF Record, Return
    <2> QED
      BY <1>0, <2>1, <2>2
  <1> QED
    BY <1>1, <1>2, <1>3, <1>4, <1>5, <1>6, BooksStep

-----------------------------------------------------------------------------
\* Plan p agrees with the world wherever it was last checked.
PlanOK(p) == \A c \in Pending(Expected(p)) \ touched[p] : world[c] = Expected(p)[c]

\* A plan the books say the same of agrees with the world as long as every
\* cell written since is counted.
LEMMA PlanFrame ==
    ASSUME NEW p, PlanOK(p), plans'[p] = plans[p], IsApplied(p)' = IsApplied(p),
           touched[p] \subseteq touched'[p],
           \A c \in Cells \ touched'[p] : world'[c] = world[c]
    PROVE  PlanOK(p)'
PROOF
  <1>1. Expected(p)' = Expected(p)
    BY DEF Expected
  <1>2. Pending(Expected(p))' = Pending(Expected(p))
    BY <1>1 DEF Pending
  <1>3. Pending(Expected(p)) \subseteq Cells
    BY DEF Pending
  <1> QED
    BY <1>1, <1>2, <1>3 DEF PlanOK

\* The plan a call has just checked against the blocks it has in the world.
LEMMA PlanChecked ==
    ASSUME NEW p, NEW STATE todo, Matches(todo), Expected(p)' = todo, world' = world
    PROVE  PlanOK(p)'
PROOF
  <1>1. Pending(Expected(p))' = Pending(todo)
    BY DEF Pending
  <1> QED
    BY <1>1 DEF PlanOK, Matches

\* A step of the call in flight keeps every plan in agreement.
LEMMA CallKeepsPlans ==
    ASSUME IInv, CallStep, NEW p \in Planned
    PROVE  PlanOK(p)'
PROOF
  <1>0. /\ TypeOK /\ BooksKnown /\ CallMatchesBooks /\ PlanOK(p)
        /\ p \in Plans /\ touched \in [Plans -> SUBSET Cells]
    BY DEF IInv, BooksMatchWorld, PlanOK, Planned, TypeOK
  <1>1. /\ call \in Call /\ call.plan \in Planned
        /\ call.undo \in BOOLEAN /\ (call.undo <=> call.plan \in applied)
    <2>1. call # Free
      BY <1>0, CallParts
         DEF CallStep, BaselineMatches, BaselineStale, SubmitWrites, WriteAnswered,
             BridgeFails, Verified, VerifyAgain, VerifyGivesUp, Record, At
    <2> QED
      BY <1>0, <2>1, CallParts DEF BooksKnown, CallMatchesBooks
  <1>2. plans' = plans /\ world' = world
    BY DEF CallStep, BaselineMatches, BaselineStale, SubmitWrites, WriteAnswered,
           BridgeFails, Verified, VerifyAgain, VerifyGivesUp, Record, Return,
           Abandon, Submit, botVars
  <1>3. CASE BaselineMatches
    <2>1. call.place = "baseline" /\ call'.place = "submit" /\ applied' = applied
      BY <1>1, <1>3 DEF BaselineMatches, At, Goto, Call
    <2>2. IsApplied(p)' = IsApplied(p) /\ IsApplied(p) = (p \in applied)
      BY <2>1 DEF IsApplied
    <2>3. CASE p = call.plan
      <3>1. Expected(p)' = Source(call)
        BY <1>1, <1>2, <2>2, <2>3 DEF Expected, Source
      <3> QED
        BY <1>2, <1>3, <3>1, PlanChecked DEF BaselineMatches
    <2>4. CASE p # call.plan
      <3>1. touched'[p] = touched[p]
        BY <1>0, <1>3, <2>4 DEF BaselineMatches, Confirm
      <3> QED
        BY <1>0, <1>2, <2>2, <3>1, PlanFrame
    <2> QED
      BY <2>3, <2>4
  <1>4. CASE Verified
    <2>1. /\ call.place = "verify" /\ call'.place = "record" /\ applied' = applied
          /\ call'.plan = call.plan /\ call'.undo = call.undo
      BY <1>1, <1>4 DEF Verified, At, Goto, Call
    <2>2. CASE p = call.plan
      <3>1. IsApplied(p)' = ~call.undo
        BY <2>1, <2>2 DEF IsApplied
      <3>2. Expected(p)' = Target(call)
        BY <1>1, <1>2, <2>2, <3>1 DEF Expected, Target
      <3> QED
        BY <1>2, <1>4, <3>2, PlanChecked DEF Verified
    <2>3. CASE p # call.plan
      <3>1. touched'[p] = touched[p]
        BY <1>0, <1>4, <2>3 DEF Verified, Confirm
      <3>2. IsApplied(p)' = IsApplied(p)
        BY <2>1, <2>3 DEF IsApplied
      <3> QED
        BY <1>0, <1>2, <3>1, <3>2, PlanFrame
    <2> QED
      BY <2>2, <2>3
  <1>5. CASE SubmitWrites \/ WriteAnswered \/ VerifyAgain
    <2>1. /\ call.place # "record" /\ call'.place # "record"
          /\ applied' = applied /\ touched' = touched
      BY <1>1, <1>5 DEF SubmitWrites, WriteAnswered, VerifyAgain, At, Goto, Call
    <2>2. IsApplied(p)' = IsApplied(p)
      BY <2>1 DEF IsApplied
    <2> QED
      BY <1>0, <1>2, <2>1, <2>2, PlanFrame
  <1>6. CASE BaselineStale \/ BridgeFails \/ VerifyGivesUp
    <2>1. /\ call.place # "record" /\ call'.place # "record"
          /\ applied' = applied /\ touched' = touched
      BY <1>6 DEF BaselineStale, BridgeFails, VerifyGivesUp, At, Return, Free
    <2>2. IsApplied(p)' = IsApplied(p)
      BY <2>1 DEF IsApplied
    <2> QED
      BY <1>0, <1>2, <2>1, <2>2, PlanFrame
  <1>7. CASE Record
    <2>1. /\ call.place = "record" /\ call'.place = "free" /\ touched' = touched
          /\ applied' = IF call.undo THEN applied \ {call.plan}
                                     ELSE applied \cup {call.plan}
      BY <1>7 DEF Record, At, Return, Free
    <2>2. IsApplied(p)' = IsApplied(p)
      BY <1>1, <2>1 DEF IsApplied
    <2> QED
      BY <1>0, <1>2, <2>1, <2>2, PlanFrame
  <1> QED
    BY <1>3, <1>4, <1>5, <1>6, <1>7 DEF CallStep

\* Every step keeps every plan in agreement with the world.
LEMMA WorldStep == IInv /\ [Next]_vars => BooksMatchWorld'
PROOF
  <1> SUFFICES ASSUME IInv, [Next]_vars, NEW p \in Planned' PROVE PlanOK(p)'
    BY DEF BooksMatchWorld, PlanOK
  <1>0. /\ TypeOK /\ BooksKnown /\ p \in Plans
        /\ touched \in [Plans -> SUBSET Cells] /\ plans \in [Plans -> Plan \cup {NoPlan}]
        /\ \A q \in Planned : PlanOK(q)
    BY DEF IInv, BooksMatchWorld, PlanOK, Planned, TypeOK
  <1>1. ASSUME NEW q \in Plans, NEW design \in Designs, NewPlacement(q, design)
        PROVE  PlanOK(p)'
    <2>1. /\ world' = world /\ applied' = applied /\ call' = call
          /\ q \notin Planned
          /\ plans' = [plans EXCEPT ![q] = Overlay(design)]
          /\ touched' = [touched EXCEPT ![q] = {}]
      BY <1>1 DEF NewPlacement, Confirm, botVars, Planned
    <2>2. IsApplied(p)' = IsApplied(p)
      BY <2>1 DEF IsApplied
    <2>3. CASE p = q
      <3>1. ~IsApplied(p)
        BY <1>0, <2>1, <2>3 DEF IsApplied, BooksKnown, Free
      <3>2. Expected(p)' = Overlay(design).before
        BY <1>0, <2>1, <2>2, <2>3, <3>1 DEF Expected
      <3>3. Matches(Overlay(design).before)
        BY DEF Matches, Overlay, Pending
      <3> QED
        BY <2>1, <3>2, <3>3, PlanChecked
    <2>4. CASE p # q
      <3>1. plans'[p] = plans[p] /\ touched'[p] = touched[p] /\ p \in Planned
        BY <1>0, <2>1, <2>4 DEF Planned
      <3> QED
        BY <1>0, <2>1, <2>2, <3>1, PlanFrame
    <2> QED
      BY <2>3, <2>4
  <1>2. CASE CallStep
    <2>1. p \in Planned
      BY <1>2 DEF CallStep, BaselineMatches, BaselineStale, SubmitWrites, WriteAnswered,
             BridgeFails, Verified, VerifyAgain, VerifyGivesUp, Record, Planned
    <2> QED
      BY <1>2, <2>1, CallKeepsPlans
  <1>3. ASSUME NEW q \in Plans, NEW undo \in BOOLEAN, Begin(q, undo)
        PROVE  PlanOK(p)'
    <2>1. call.place # "record" /\ call'.place # "record" /\ UNCHANGED <<plans, applied, touched, world>>
      BY <1>3 DEF Begin, Free, botVars
    <2>2. IsApplied(p)' = IsApplied(p) /\ p \in Planned
      BY <2>1 DEF IsApplied, Planned
    <2> QED
      BY <1>0, <2>1, <2>2, PlanFrame
  <1>4. CASE UNCHANGED <<plans, applied, call, touched, world>>
    <2>1. IsApplied(p)' = IsApplied(p) /\ p \in Planned
      BY <1>4 DEF IsApplied, Planned
    <2> QED
      BY <1>0, <1>4, <2>1, PlanFrame
  <1>5. ASSUME NEW c \in Cells, UNCHANGED serverVars, Touch(c),
               \/ BotWrites(Server, c)
               \/ \E todo \in late : LateWrites(todo, c)
               \/ \E block \in Blocks : PlayerEdits(c, block)
        PROVE  PlanOK(p)'
    <2>1. IsApplied(p)' = IsApplied(p) /\ p \in Planned /\ plans' = plans
      BY <1>5 DEF IsApplied, Planned, serverVars
    <2>2. touched'[p] = touched[p] \cup {c}
      BY <1>0, <1>5 DEF Touch
    <2>3. \A d \in Cells : d # c => world'[d] = world[d]
      <3>1. BotTypeOK /\ Server \in Servers
        BY <1>0, PlacementAssumption DEF TypeOK
      <3> QED
        BY <1>5, <3>1, WriteTyped
    <2> QED
      BY <1>0, <2>1, <2>2, <2>3, PlanFrame
  <1>6. ASSUME NEW todo \in late, LateStops(todo), UNCHANGED <<serverVars, touched>>
        PROVE  UNCHANGED <<plans, applied, call, touched, world>>
    BY <1>6 DEF LateStops, serverVars
  <1>7. ASSUME NEW q \in Plans, ShowOperation(q)
        PROVE  UNCHANGED <<plans, applied, call, touched, world>>
    BY <1>7 DEF ShowOperation, botVars
  <1>8. UNCHANGED vars => UNCHANGED <<plans, applied, call, touched, world>>
    BY DEF vars
  <1> QED
    BY <1>1, <1>2, <1>3, <1>4, <1>5, <1>6, <1>7, <1>8 DEF Next, Outside

\* IInv holds in every reachable state.
LEMMA Invariant == Spec => []IInv
PROOF
  <1>1. Init => IInv
    <2> SUFFICES ASSUME Init PROVE IInv
      OBVIOUS
    <2>1. BotTypeOK
      BY IdleTyped DEF Init, BotInit, BotTypeOK
    <2>2. TypeOK
      BY <2>1 DEF Init, TypeOK
    <2>3. Planned = {}
      BY DEF Init, Planned
    <2>4. BooksKnown /\ ApplyIsPreviewed /\ CallMatchesBooks
      BY DEF Init, BooksKnown, ApplyIsPreviewed, CallMatchesBooks
    <2>5. BooksMatchWorld
      BY <2>3 DEF BooksMatchWorld
    <2> QED
      BY <2>2, <2>4, <2>5 DEF IInv
  <1>2. IInv /\ [Next]_vars => IInv'
    <2>1. IInv /\ [Next]_vars => TypeOK'
      BY TypeStep DEF IInv
    <2>2. IInv /\ [Next]_vars => BooksKnown' /\ ApplyIsPreviewed' /\ CallMatchesBooks'
      BY CallBooksStep DEF IInv
    <2> QED
      BY <2>1, <2>2, WorldStep DEF IInv
  <1> QED
    BY <1>1, <1>2, PTL DEF Spec

\* The type invariant of the placements.
THEOREM TypeCorrect == Spec => []TypeOK
PROOF
  <1>1. IInv => TypeOK
    BY DEF IInv
  <1> QED
    BY <1>1, Invariant, PTL

\* Wherever nobody has written since a plan was last checked, the world holds
\* what applied_plans says of it.
THEOREM BooksMatchWorldAlways == Spec => []BooksMatchWorld
PROOF
  <1>1. IInv => BooksMatchWorld
    BY DEF IInv
  <1> QED
    BY <1>1, Invariant, PTL

\* No block goes into the world for a plan whose preview is used up.
THEOREM ApplyIsPreviewedAlways == Spec => []ApplyIsPreviewed
PROOF
  <1>1. IInv => ApplyIsPreviewed
    BY DEF IInv
  <1> QED
    BY <1>1, Invariant, PTL

\* A call works on a plan that is applied exactly when it is an undo.
THEOREM CallMatchesBooksAlways == Spec => []CallMatchesBooks
PROOF
  <1>1. IInv => CallMatchesBooks
    BY DEF IInv
  <1> QED
    BY <1>1, Invariant, PTL

-----------------------------------------------------------------------------
(* The placements implement the mutation lifecycle.                        *)

\* Planning is New, and nothing else adds a plan.
LEMMA NewMaps ==
    ASSUME TypeOK, NEW p \in Plans, NEW design \in Designs, NewPlacement(p, design)
    PROVE  Lifecycle!New(p)
PROOF
  <1>1. Overlay(design) # NoPlan
    BY OverlayTyped, PlacementAssumption DEF TypeOK
  <1>2. plans' = [plans EXCEPT ![p] = Overlay(design)] /\ p \notin Planned
    BY DEF NewPlacement, Planned
  <1>3. Planned' = Planned \cup {p}
    BY <1>1, <1>2 DEF Planned, TypeOK
  <1>4. previewed' = previewed /\ applied' = applied
    BY DEF NewPlacement
  <1> QED
    BY <1>2, <1>3, <1>4 DEF Lifecycle!New

\* The end of a verified call is Apply or Undo.
LEMMA RecordMaps ==
    ASSUME IInv, Record
    PROVE  \E p \in Plans : Lifecycle!Apply(p) \/ Lifecycle!Undo(p)
PROOF
  <1>1. call # Free /\ call.plan \in Plans
    BY CallParts DEF IInv, Record, At
  <1>2. Planned' = Planned
    BY DEF Record, Planned
  <1>3. previewed' = previewed \ {call.plan}
    BY DEF Record
  <1>4. CASE call.undo
    <2>1. call.plan \in applied /\ applied' = applied \ {call.plan}
      BY <1>1, <1>4 DEF IInv, CallMatchesBooks, Record
    <2> QED
      BY <1>1, <1>2, <1>3, <2>1 DEF Lifecycle!Undo
  <1>5. CASE ~call.undo
    <2>1. /\ call.plan \in previewed \ applied
          /\ applied' = applied \cup {call.plan}
      BY <1>1, <1>5 DEF IInv, CallMatchesBooks, ApplyIsPreviewed, Record
    <2> QED
      BY <1>1, <1>2, <1>3, <2>1 DEF Lifecycle!Apply
  <1> QED
    BY <1>4, <1>5

\* Every step is a step of the lifecycle, or none.
LEMMA LifecycleStep ==
    IInv /\ [Next]_vars => [Lifecycle!Next]_(Lifecycle!lifecycle)
PROOF
  <1> SUFFICES ASSUME IInv, [Next]_vars
               PROVE  Lifecycle!Next \/ UNCHANGED <<Planned, previewed, applied>>
    BY DEF Lifecycle!lifecycle
  <1>0. TypeOK
    BY DEF IInv
  <1>1. ASSUME NEW p \in Plans, NEW design \in Designs, NewPlacement(p, design)
        PROVE  Lifecycle!Next
    BY <1>0, <1>1, NewMaps DEF Lifecycle!Next
  <1>2. ASSUME plans' = plans PROVE Planned' = Planned
    BY <1>2 DEF Planned
  <1>3. ASSUME NEW p \in Plans, ShowOperation(p) PROVE Lifecycle!Next
    <2>1. p \in Planned /\ previewed' = previewed \cup {p} /\ applied' = applied
      BY <1>3 DEF ShowOperation
    <2>2. Planned' = Planned
      BY <1>2, <1>3 DEF ShowOperation
    <2> QED
      BY <2>1, <2>2 DEF Lifecycle!Next, Lifecycle!Show
  <1>4. CASE BaselineStale
    <2>1. call.plan \in Plans
      BY <1>0, <1>4, CallParts DEF BaselineStale, At
    <2>2. previewed' = previewed \ {call.plan} /\ applied' = applied
      BY <1>4 DEF BaselineStale
    <2>3. Planned' = Planned
      BY <1>2, <1>4 DEF BaselineStale
    <2>4. CASE call.plan \in previewed
      BY <2>1, <2>2, <2>3, <2>4 DEF Lifecycle!Next, Lifecycle!Withdraw
    <2>5. CASE call.plan \notin previewed
      BY <2>2, <2>3, <2>5
    <2> QED
      BY <2>4, <2>5
  <1>5. CASE Record
    BY <1>5, RecordMaps DEF Lifecycle!Next
  <1>6. CASE UNCHANGED <<plans, applied, previewed>>
    BY <1>2, <1>6
  <1>7. \/ \E p \in Plans, design \in Designs : NewPlacement(p, design)
        \/ \E p \in Plans : ShowOperation(p)
        \/ BaselineStale
        \/ Record
        \/ UNCHANGED <<plans, applied, previewed>>
    BY DEF Next, Begin, CallStep, BaselineMatches, SubmitWrites, WriteAnswered,
           BridgeFails, Verified, VerifyAgain, VerifyGivesUp, Outside, serverVars, vars
  <1> QED
    BY <1>1, <1>3, <1>4, <1>5, <1>6, <1>7

\* The placements keep the promise of the mutation lifecycle.
THEOREM ImplementsLifecycleAlways == Spec => ImplementsLifecycle
PROOF
  <1>1. Init => Lifecycle!Init
    BY DEF Init, Lifecycle!Init, Planned
  <1> QED
    BY <1>1, LifecycleStep, Invariant, PTL DEF Spec, ImplementsLifecycle, Lifecycle!Spec

=============================================================================
