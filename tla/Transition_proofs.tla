--------------------------- MODULE Transition_proofs ---------------------------
(***************************************************************************)
(* Proofs about live transition tests, for any number of plans and states  *)
(* of the region, with and without other players, and however many clicks  *)
(* come late.                                                              *)
(***************************************************************************)
EXTENDS Transition, TLAPS

RunPlaces == {"check", "start", "activate", "abort", "stop", "return", "reread", "rescan", "store"}
RestorePlaces == {"read", "click", "reread2", "natural", "decide", "force", "forced", "storeRestore"}

Call == [place : RunPlaces \cup RestorePlaces, plan : Plans, good : BOOLEAN, traced : BOOLEAN, clicks : Nat]

TypeOK ==
    /\ lever \in BOOLEAN
    /\ rest \in Rests
    /\ slot \in Plans \cup {None}
    /\ plans \in [Plans -> StoredTransitionPlan \cup {None}]
    /\ showing \in Known \cup {None}
    /\ call \in Call \cup {Free}
    /\ call # Free => call.plan \in Known
    /\ disturbed \subseteq Plans

\* The call has compared the region of its plan and not yet stored the result.
Judging(p) == call.place \in {"decide", "force", "store", "storeRestore"} /\ call.plan = p

\* What is on record as verified is so, unless it is being looked at again.
Trusted == \A p \in Known \ disturbed : plans[p].verified /\ ~Judging(p) => RegionMatches(p)

\* A call that found nothing wrong and is about to say so is right.
Judged ==
    call.place \in {"decide", "store", "storeRestore"} /\ call.good /\ call.plan \notin disturbed
        => RegionMatches(call.plan)

\* Unless an answer was lost, a taken slot is that of the run under way.
SlotHeld ==
    slot # None /\ ~lost => call.place \in {"activate", "abort", "stop"} /\ slot = call.plan

IInv == TypeOK /\ Trusted /\ Judged /\ SlotHeld

-----------------------------------------------------------------------------
(* What the handlers have in common.                                       *)

\* A call in some place is a call, of a known plan.
LEMMA CallTyped ==
    ASSUME TypeOK, NEW place \in RunPlaces \cup RestorePlaces, At(place)
    PROVE  call \in Call /\ call # Free /\ call.plan \in Plans /\ plans[call.plan] \in StoredTransitionPlan
<1>1. call # Free
  BY DEF At, Free, RunPlaces, RestorePlaces
<1> QED
  BY <1>1 DEF TypeOK, Known, Call

\* A call that only goes on keeps its type.
LEMMA GotoTyped ==
    ASSUME NEW place \in RunPlaces \cup RestorePlaces, NEW good \in BOOLEAN,
           call \in Call, Goto(place, good)
    PROVE  /\ call' \in Call
           /\ call'.place = place /\ call'.good = good /\ call'.plan = call.plan
  BY DEF Goto, Call

\* So does one that clicks.
LEMMA ClickTyped ==
    ASSUME NEW place \in RunPlaces \cup RestorePlaces, NEW good \in BOOLEAN,
           call \in Call, Click(place, good)
    PROVE  /\ call' \in Call
           /\ call'.place = place /\ call'.good = good /\ call'.plan = call.plan
           /\ lever' \in BOOLEAN /\ disturbed' = Plans
<1>1. (call.clicks + IF slot = call.plan THEN 1 ELSE 0) \in Nat
  BY DEF Call
<1> QED
  BY <1>1 DEF Click, Call

\* Free is no call.
LEMMA FreeIsNoCall == Free.place = "free" /\ \A c \in Call : c # Free
  BY DEF Free, Call, RunPlaces, RestorePlaces

\* The region and the plans are typed after a step of a call as before it.
LEMMA StepTyped ==
    ASSUME TypeOK, UNCHANGED <<plans, showing>>,
           lever' \in BOOLEAN, rest' \in Rests, slot' \in Plans \cup {None}, disturbed' \subseteq Plans,
           \/ call' = call
           \/ call' = Free
           \/ call # Free /\ call' \in Call /\ call'.plan = call.plan
    PROVE  TypeOK'
  BY FreeIsNoCall DEF TypeOK, Known

\* When every plan has been disturbed nothing is claimed of any.
LEMMA DisturbedClaimsNothing ==
    ASSUME TypeOK', disturbed' = Plans
    PROVE  Trusted' /\ Judged'
<1>1. Trusted'
  BY DEF Trusted, Known
<1>2. call'.place \in {"decide", "store", "storeRestore"} => call'.plan \in Plans
  BY FreeIsNoCall DEF TypeOK, Call
<1> QED
  BY <1>1, <1>2 DEF Judged

\* A step that changes neither the region nor the plans, of a call that has
\* not compared the region, claims nothing new.
LEMMA QuietClaimsNothing ==
    ASSUME Trusted, UNCHANGED <<lever, rest, plans, disturbed>>,
           call.place \notin {"decide", "force", "store", "storeRestore"},
           call'.place \notin {"decide", "store", "storeRestore"}
    PROVE  Trusted' /\ Judged'
  BY DEF Trusted, Judged, Judging, Known, RegionMatches

\* Nor does one that does not touch the call.
LEMMA IdleClaimsNothing ==
    ASSUME Trusted, Judged, UNCHANGED <<lever, rest, plans, disturbed, call>>
    PROVE  Trusted' /\ Judged'
  BY DEF Trusted, Judged, Judging, Known, RegionMatches

\* A plan stays one of the known when its flags change.
LEMMA FlagsTyped ==
    ASSUME TypeOK, NEW p \in Known, NEW plan \in StoredTransitionPlan,
           plans' = [plans EXCEPT ![p] = plan]
    PROVE  plans' \in [Plans -> StoredTransitionPlan \cup {None}] /\ Known' = Known
  BY TransitionAssumption DEF TypeOK, Known

-----------------------------------------------------------------------------
(* The region, the lever and the bot.                                      *)

\* Whatever else happens to the region, the invariant is kept.
LEMMA OutsideKeepsInv ==
    ASSUME IInv, LateClick \/ RegionChanges \/ PlayerToggles \/ Disconnect
    PROVE  IInv'
<1> USE DEF IInv
<1>1. CASE LateClick \/ RegionChanges \/ PlayerToggles
  <2>1. /\ lever' \in BOOLEAN /\ rest' \in Rests /\ disturbed' = Plans
        /\ UNCHANGED <<slot, plans, showing, call, lost>>
    BY <1>1 DEF LateClick, RegionChanges, PlayerToggles, TypeOK
  <2>2. TypeOK'
    BY <2>1, StepTyped DEF TypeOK
  <2>3. SlotHeld'
    BY <2>1 DEF SlotHeld
  <2> QED
    BY <2>1, <2>2, <2>3, DisturbedClaimsNothing
<1>2. CASE Disconnect
  <2>1. slot' = None /\ UNCHANGED <<lever, rest, plans, showing, call, disturbed, lost>>
    BY <1>2 DEF Disconnect
  <2>2. TypeOK'
    BY <2>1, StepTyped DEF TypeOK
  <2>3. SlotHeld'
    BY <2>1 DEF SlotHeld
  <2> QED
    BY <2>1, <2>2, <2>3, IdleClaimsNothing
<1> QED
  BY <1>1, <1>2

-----------------------------------------------------------------------------
(* Proposals and previews.                                                 *)

LEMMA PlansKeepInv ==
    ASSUME IInv, NEW p \in Plans, NewTransitionTest(p) \/ ShowBegin(p) \/ ShowEnd
    PROVE  IInv'
<1> USE DEF IInv
<1>1. CASE NewTransitionTest(p)
  <2> DEFINE new == [original |-> lever, rest |-> rest,
                     previewed |-> FALSE, executed |-> FALSE, verified |-> FALSE]
  <2>1. /\ plans' = [plans EXCEPT ![p] = new] /\ plans[p] = None
        /\ UNCHANGED <<lever, rest, slot, late, showing, call, disturbed, lost>>
    BY <1>1 DEF NewTransitionTest, bot
  <2>2. new \in StoredTransitionPlan /\ new # None /\ new.verified = FALSE
    <3>1. lever \in BOOLEAN /\ rest \in Rests
      BY DEF TypeOK
    <3>2. new \in StoredTransitionPlan
      BY <3>1 DEF StoredTransitionPlan
    <3> QED
      BY <3>2, TransitionAssumption
  <2>3. /\ plans' \in [Plans -> StoredTransitionPlan \cup {None}]
        /\ Known' = Known \cup {p} /\ p \notin Known
        /\ plans'[p].verified = FALSE
        /\ \A q \in Known : plans'[q] = plans[q]
    BY <2>1, <2>2 DEF TypeOK, Known
  <2>4. TypeOK'
    BY <2>1, <2>3 DEF TypeOK
  <2>5. Trusted'
    BY <2>1, <2>3 DEF Trusted, Judging, RegionMatches
  <2>6. Judged'
    <3>1. call.place \in {"decide", "store", "storeRestore"} => call.plan \in Known
      BY FreeIsNoCall DEF TypeOK
    <3> QED
      BY <2>1, <2>3, <3>1 DEF Judged, RegionMatches
  <2>7. SlotHeld'
    BY <2>1 DEF SlotHeld
  <2> QED
    BY <2>4, <2>5, <2>6, <2>7
<1>2. CASE ShowBegin(p)
  <2>1. showing' \in Known /\ UNCHANGED <<lever, rest, slot, late, plans, call, disturbed, lost>>
    BY <1>2 DEF ShowBegin, bot
  <2>2. TypeOK'
    BY <2>1 DEF TypeOK, Known
  <2>3. SlotHeld'
    BY <2>1 DEF SlotHeld
  <2> QED
    BY <2>1, <2>2, <2>3, IdleClaimsNothing
<1>3. CASE ShowEnd
  <2>1. /\ showing \in Known /\ showing' = None
        /\ UNCHANGED <<lever, rest, slot, late, call, disturbed, lost>>
    BY <1>3 DEF ShowEnd, bot, TypeOK
  <2>2. CASE UNCHANGED plans
    <3>1. TypeOK'
      BY <2>1, <2>2 DEF TypeOK, Known
    <3>2. SlotHeld'
      BY <2>1 DEF SlotHeld
    <3> QED
      BY <2>1, <2>2, <3>1, <3>2, IdleClaimsNothing
  <2>3. CASE plans' = [plans EXCEPT ![showing].previewed = TRUE]
    <3> DEFINE plan == [plans[showing] EXCEPT !.previewed = TRUE]
    <3>1. plans[showing] \in StoredTransitionPlan
      BY <2>1 DEF TypeOK, Known
    <3>2. /\ plan \in StoredTransitionPlan
          /\ plan.original = plans[showing].original /\ plan.rest = plans[showing].rest
          /\ plan.verified = plans[showing].verified
      BY <3>1 DEF StoredTransitionPlan
    <3>3. plans' = [plans EXCEPT ![showing] = plan]
      BY <2>3
    <3>4. plans' \in [Plans -> StoredTransitionPlan \cup {None}] /\ Known' = Known
      BY <2>1, <3>2, <3>3, FlagsTyped
    <3>5. \A q \in Known : /\ plans'[q].original = plans[q].original
                           /\ plans'[q].rest = plans[q].rest
                           /\ plans'[q].verified = plans[q].verified
      BY <2>1, <3>2, <3>3 DEF TypeOK, Known
    <3>6. TypeOK'
      BY <2>1, <3>4 DEF TypeOK
    <3>7. Trusted'
      BY <2>1, <3>4, <3>5 DEF Trusted, Judging, RegionMatches
    <3>8. call.place \in {"decide", "store", "storeRestore"} => call.plan \in Known
      BY FreeIsNoCall DEF TypeOK
    <3>9. Judged'
      BY <2>1, <3>5, <3>8 DEF Judged, RegionMatches
    <3>10. SlotHeld'
      BY <2>1 DEF SlotHeld
    <3> QED
      BY <3>6, <3>7, <3>9, <3>10
  <2> QED
    BY <1>3, <2>2, <2>3 DEF ShowEnd
<1> QED
  BY <1>1, <1>2, <1>3

-----------------------------------------------------------------------------
(* The handlers.                                                           *)

\* A call begins with nothing compared.
LEMMA BeginKeepsInv ==
    ASSUME IInv, NEW p \in Plans, BeginRun(p) \/ BeginRestore(p)
    PROVE  IInv'
<1> USE DEF IInv
<1>1. PICK place \in {"check", "read"} :
          /\ call = Free /\ p \in Known /\ call' = NewCall(place, p)
          /\ UNCHANGED <<lever, rest, slot, late, plans, showing, disturbed, lost>>
  BY DEF BeginRun, BeginRestore, bot
<1>2. call' \in Call /\ call'.place = place /\ call'.plan = p
  BY <1>1 DEF NewCall, Call, RunPlaces, RestorePlaces
<1>3. TypeOK'
  BY <1>1, <1>2 DEF TypeOK, Known
<1>4. Trusted' /\ Judged'
  BY <1>1, <1>2, FreeIsNoCall, QuietClaimsNothing
<1>5. SlotHeld'
  BY <1>1, FreeIsNoCall DEF SlotHeld
<1> QED
  BY <1>3, <1>4, <1>5

\* A click of the lever, answered or not, leaves nothing to be claimed: either
\* the lever moved, and every plan is disturbed, or the call only goes on.
LEMMA ClickKeepsInv ==
    ASSUME IInv, Activate \/ ActivateFails \/ ReturnLever \/ ClickBack
    PROVE  IInv'
<1> USE DEF IInv
<1>1. PICK place \in {"stop", "abort", "reread", "reread2"}, good \in BOOLEAN :
          /\ Click(place, good) \/ (Goto(place, good) /\ UNCHANGED <<lever, disturbed>>)
          /\ UNCHANGED <<rest, slot, plans, showing, lost>>
          /\ call.place \in {"activate", "return", "click"}
          /\ call.place = "activate" => place \in {"stop", "abort"}
  BY DEF Activate, ActivateFails, ReturnLever, ClickBack, ClickUnanswered, At
<1>2. call \in Call /\ call # Free
  BY <1>1, CallTyped DEF At, RunPlaces, RestorePlaces
<1>3. /\ call' \in Call /\ call'.plan = call.plan /\ call'.place = place
      /\ lever' \in BOOLEAN
      /\ disturbed' = Plans \/ UNCHANGED <<lever, disturbed>>
  <2>1. CASE Click(place, good)
    BY <1>2, <2>1, ClickTyped DEF RunPlaces, RestorePlaces
  <2>2. CASE Goto(place, good) /\ UNCHANGED <<lever, disturbed>>
    BY <1>2, <2>2, GotoTyped DEF RunPlaces, RestorePlaces, TypeOK
  <2> QED
    BY <1>1, <2>1, <2>2
<1>4. TypeOK'
  BY <1>1, <1>2, <1>3, StepTyped DEF TypeOK
<1>5. Trusted' /\ Judged'
  BY <1>1, <1>3, <1>4, DisturbedClaimsNothing, QuietClaimsNothing
<1>6. SlotHeld'
  BY <1>1, <1>3 DEF SlotHeld
<1> QED
  BY <1>4, <1>5, <1>6

\* Reading the lever again compares nothing but the lever.
LEMMA RereadKeepsInv ==
    ASSUME IInv, RereadLever \/ ReadLever \/ RereadNatural
    PROVE  IInv'
<1> USE DEF IInv
<1>1. /\ \/ \E place \in {"rescan", "reread2", "click", "natural"}, good \in BOOLEAN : Goto(place, good)
         \/ call' = Free
      /\ call.place \in {"reread", "read", "reread2"}
      /\ UNCHANGED <<lever, rest, slot, late, plans, showing, disturbed, lost>>
  <2>1. call \in Call
    BY CallTyped DEF RereadLever, ReadLever, RereadNatural, At, RunPlaces, RestorePlaces
  <2>2. \A answered \in BOOLEAN : (call.good /\ answered /\ lever = Lever) \in BOOLEAN
    BY <2>1 DEF Call
  <2> QED
    BY <2>2 DEF RereadLever, ReadLever, RereadNatural, At, bot
<1>2. call \in Call /\ call # Free
  BY <1>1, CallTyped DEF At, RunPlaces, RestorePlaces
<1>3. \/ call' = Free
      \/ /\ call' \in Call /\ call'.plan = call.plan
         /\ call'.place \in {"rescan", "reread2", "click", "natural"}
  BY <1>1, <1>2, GotoTyped DEF RunPlaces, RestorePlaces
<1>4. TypeOK'
  BY <1>1, <1>2, <1>3, StepTyped DEF TypeOK
<1>5. Trusted' /\ Judged'
  BY <1>1, <1>3, FreeIsNoCall, QuietClaimsNothing
<1>6. SlotHeld'
  BY <1>1, <1>3 DEF SlotHeld
<1> QED
  BY <1>4, <1>5, <1>6

\* A step of a run or restore, up to the comparison of the region, touches
\* neither the plans nor the region unless it clicks the lever.
LEMMA RunKeepsInv ==
    ASSUME IInv,
           \/ CheckLever \/ StartRecording \/ StartFails \/ Activate \/ ActivateFails
           \/ AbortRun \/ StopRun \/ ReturnLever \/ RereadLever
    PROVE  IInv'
<1> USE DEF IInv
<1>1. CASE CheckLever
  <2>1. call \in Call /\ call # Free /\ call.place = "check"
    BY <1>1, CallTyped DEF CheckLever, At, RunPlaces
  <2>2. /\ \/ call' \in Call /\ call'.plan = call.plan /\ call'.place = "start"
           \/ call' = Free
        /\ UNCHANGED <<lever, rest, slot, late, plans, showing, disturbed, lost>>
    BY <1>1, <2>1, GotoTyped DEF CheckLever, bot, RunPlaces
  <2>3. TypeOK'
    BY <2>1, <2>2, StepTyped DEF TypeOK
  <2>4. Trusted' /\ Judged'
    BY <2>1, <2>2, FreeIsNoCall, QuietClaimsNothing
  <2>5. SlotHeld'
    BY <2>1, <2>2 DEF SlotHeld
  <2> QED
    BY <2>3, <2>4, <2>5
<1>2. CASE StartRecording \/ StartFails
  <2>1. call \in Call /\ call # Free /\ call.place = "start" /\ call.plan \in Plans
    BY <1>2, CallTyped DEF StartRecording, StartFails, At, RunPlaces
  <2>2. /\ \/ call' \in Call /\ call'.plan = call.plan /\ call'.place = "activate" /\ slot' = call.plan
           \/ call' = Free /\ UNCHANGED <<slot, lost>>
           \/ call' = Free /\ slot' = call.plan /\ lost' = TRUE
        /\ UNCHANGED <<lever, rest, late, plans, showing, disturbed>>
    BY <1>2, <2>1, GotoTyped DEF StartRecording, StartFails, RunPlaces
  <2>3. TypeOK'
    BY <2>1, <2>2, StepTyped DEF TypeOK
  <2>4. Trusted' /\ Judged'
    BY <2>1, <2>2, FreeIsNoCall, QuietClaimsNothing
  <2>5. SlotHeld'
    BY <2>1, <2>2 DEF SlotHeld
  <2> QED
    BY <2>3, <2>4, <2>5
<1>3. CASE AbortRun \/ StopRun
  <2>1. call \in Call /\ call # Free /\ call.place \in {"abort", "stop"}
    BY <1>3, CallTyped DEF AbortRun, StopRun, At, RunPlaces
  <2>2. /\ slot' \in Plans \cup {None} /\ (slot' # None => lost')
        /\ UNCHANGED <<lever, rest, late, plans, showing, disturbed>>
    BY <1>3 DEF AbortRun, StopRun, StopRecording, TypeOK
  <2>3. \/ call' = Free
        \/ call' \in Call /\ call'.plan = call.plan /\ call'.place = "return"
    <3>1. CASE AbortRun
      BY <3>1 DEF AbortRun
    <3>2. CASE StopRun
      <4>1. PICK answered \in BOOLEAN :
                call' = [call EXCEPT !.place = "return", !.traced = answered]
        BY <3>2 DEF StopRun
      <4> QED
        BY <2>1, <4>1 DEF Call, RunPlaces
    <3> QED
      BY <1>3, <3>1, <3>2
  <2>4. TypeOK'
    BY <2>1, <2>2, <2>3, StepTyped DEF TypeOK
  <2>5. Trusted' /\ Judged'
    BY <2>1, <2>2, <2>3, FreeIsNoCall, QuietClaimsNothing
  <2>6. SlotHeld'
    BY <2>2 DEF SlotHeld
  <2> QED
    BY <2>4, <2>5, <2>6
<1>4. CASE Activate \/ ActivateFails \/ ReturnLever
  BY <1>4, ClickKeepsInv
<1>5. CASE RereadLever
  BY <1>5, RereadKeepsInv
<1> QED
  BY <1>1, <1>2, <1>3, <1>4, <1>5

\* The comparison of the region: the plan is no longer counted as disturbed,
\* and from here on the call answers for it.
LEMMA RescanKeepsInv ==
    ASSUME IInv, RescanRegion \/ RescanNatural \/ RescanForced
    PROVE  IInv'
<1> USE DEF IInv
<1>1. call \in Call /\ call # Free /\ call.place \in {"rescan", "natural", "forced"}
  BY CallTyped DEF RescanRegion, RescanNatural, RescanForced, At, RunPlaces, RestorePlaces
<1>2. PICK place \in {"store", "decide", "storeRestore"} : RescanInto(place)
  BY DEF RescanRegion, RescanNatural, RescanForced
<1>3. PICK answered \in BOOLEAN : Goto(place, call.good /\ answered /\ RegionMatches(call.plan))
  BY <1>2 DEF RescanInto
<1>4. /\ disturbed' = disturbed \ {call.plan}
      /\ UNCHANGED <<lever, rest, slot, late, plans, showing, lost>>
  BY <1>2 DEF RescanInto, bot
<1>5. (call.good /\ answered /\ RegionMatches(call.plan)) \in BOOLEAN
  BY <1>1 DEF Call
<1>6. /\ call' \in Call /\ call'.plan = call.plan /\ call'.place = place
      /\ call'.good => RegionMatches(call.plan)
  BY <1>1, <1>3, <1>5, GotoTyped DEF RunPlaces, RestorePlaces
<1>7. TypeOK'
  BY <1>1, <1>4, <1>6, StepTyped DEF TypeOK
<1>8. Trusted'
  BY <1>1, <1>4, <1>6 DEF Trusted, Judging, Known, RegionMatches
<1>9. Judged'
  BY <1>4, <1>6 DEF Judged, RegionMatches
<1>10. SlotHeld'
  BY <1>1, <1>4 DEF SlotHeld
<1> QED
  BY <1>7, <1>8, <1>9, <1>10

\* A restore that did not come about naturally writes the snapshot back, and
\* has to look again.
LEMMA ForceKeepsInv ==
    ASSUME IInv, Decide \/ ForceSnapshot
    PROVE  IInv'
<1> USE DEF IInv
<1>1. call \in Call /\ call # Free /\ call.place \in {"decide", "force"} /\ plans[call.plan] \in StoredTransitionPlan
  BY CallTyped DEF Decide, ForceSnapshot, At, RestorePlaces
<1>2. CASE Decide
  <2>1. /\ call' \in Call /\ call'.plan = call.plan
        /\ \/ call.good /\ call'.place = "storeRestore" /\ call.place = "decide"
           \/ call'.place = "force"
        /\ UNCHANGED <<lever, rest, slot, late, plans, showing, disturbed, lost>>
    BY <1>1, <1>2, GotoTyped DEF Decide, bot, At, RestorePlaces
  <2>2. TypeOK'
    BY <1>1, <2>1, StepTyped DEF TypeOK
  <2>3. Trusted'
    BY <1>1, <2>1 DEF Trusted, Judging, Known, RegionMatches
  <2>4. Judged'
    BY <2>1 DEF Judged, RegionMatches
  <2>5. SlotHeld'
    BY <1>1, <2>1 DEF SlotHeld
  <2> QED
    BY <2>2, <2>3, <2>4, <2>5
<1>3. CASE ForceSnapshot
  <2>1. PICK answered \in BOOLEAN : Goto("forced", answered)
    BY <1>3 DEF ForceSnapshot
  <2>2. call' \in Call /\ call'.plan = call.plan
    BY <1>1, <2>1, GotoTyped DEF RestorePlaces
  <2>3. plans[call.plan].original \in BOOLEAN /\ plans[call.plan].rest \in Rests
    BY <1>1 DEF StoredTransitionPlan
  <2>4. /\ lever' \in BOOLEAN /\ rest' \in Rests /\ disturbed' = Plans
        /\ UNCHANGED <<slot, late, plans, showing, lost>>
    BY <1>3, <2>3 DEF ForceSnapshot, Lever, TypeOK
  <2>5. TypeOK'
    BY <1>1, <2>2, <2>4, StepTyped DEF TypeOK
  <2>6. SlotHeld'
    BY <1>1, <2>4 DEF SlotHeld
  <2> QED
    BY <2>4, <2>5, <2>6, DisturbedClaimsNothing
<1> QED
  BY <1>2, <1>3

\* What is stored as verified is what the comparison found.
LEMMA StoreKeepsInv ==
    ASSUME IInv, StoreRun \/ StoreRestore
    PROVE  IInv'
<1> USE DEF IInv
<1> DEFINE p == call.plan
<1>1. /\ call \in Call /\ p \in Known /\ call.place \in {"store", "storeRestore"}
      /\ plans[p] \in StoredTransitionPlan
  BY CallTyped DEF StoreRun, StoreRestore, At, RunPlaces, RestorePlaces, TypeOK
<1>2. /\ call' = Free
      /\ UNCHANGED <<lever, rest, slot, late, showing, disturbed, lost>>
  BY DEF StoreRun, StoreRestore, bot
<1>3. PICK plan \in StoredTransitionPlan :
          /\ plans' = [plans EXCEPT ![p] = plan]
          /\ plan.verified = call.good
          /\ plan.original = plans[p].original /\ plan.rest = plans[p].rest
  <2>1. call.good \in BOOLEAN /\ p \in Plans
    BY <1>1 DEF Call
  <2>2. CASE StoreRun
    <3> DEFINE new == [[plans[p] EXCEPT !.executed = TRUE] EXCEPT !.verified = call.good]
    <3>1. plans' = [plans EXCEPT ![p] = new]
      BY <1>1, <2>1, <2>2 DEF StoreRun, TypeOK
    <3>2. /\ new \in StoredTransitionPlan /\ new.verified = call.good
          /\ new.original = plans[p].original /\ new.rest = plans[p].rest
      BY <1>1, <2>1 DEF StoredTransitionPlan
    <3> QED
      BY <3>1, <3>2
  <2>3. CASE StoreRestore
    <3> DEFINE new == [plans[p] EXCEPT !.verified = call.good]
    <3>1. plans' = [plans EXCEPT ![p] = new]
      BY <2>3 DEF StoreRestore
    <3>2. /\ new \in StoredTransitionPlan /\ new.verified = call.good
          /\ new.original = plans[p].original /\ new.rest = plans[p].rest
      BY <1>1, <2>1 DEF StoredTransitionPlan
    <3> QED
      BY <3>1, <3>2
  <2> QED
    BY <2>2, <2>3
<1>4. plans' \in [Plans -> StoredTransitionPlan \cup {None}] /\ Known' = Known
  BY <1>1, <1>3, FlagsTyped
<1>5. TypeOK'
  BY <1>2, <1>4 DEF TypeOK
<1>6. p \notin disturbed /\ call.good => RegionMatches(p)
  BY <1>1 DEF Judged
<1>7. Trusted'
  BY <1>1, <1>2, <1>3, <1>4, <1>6 DEF Trusted, Judging, Known, RegionMatches, TypeOK
<1>8. Judged'
  BY <1>2, FreeIsNoCall DEF Judged
<1>9. SlotHeld'
  BY <1>1, <1>2 DEF SlotHeld
<1> QED
  BY <1>5, <1>7, <1>8, <1>9

-----------------------------------------------------------------------------
\* The invariant holds of every state.
THEOREM Invariant == Spec => []IInv
<1>1. Init => IInv
  <2> SUFFICES ASSUME Init PROVE IInv
    OBVIOUS
  <2>1. TypeOK /\ Known = {}
    BY DEF Init, TypeOK, Known
  <2>2. call.place = "free" /\ slot = None
    BY FreeIsNoCall DEF Init
  <2> QED
    BY <2>1, <2>2 DEF IInv, Trusted, Judged, SlotHeld
<1>2. IInv /\ [Next]_vars => IInv'
  <2> SUFFICES ASSUME IInv, [Next]_vars PROVE IInv'
    OBVIOUS
  <2>1. CASE RunStep
    BY <2>1, RunKeepsInv, RescanKeepsInv, StoreKeepsInv DEF RunStep
  <2>2. CASE RestoreStep
    BY <2>2, ClickKeepsInv, RereadKeepsInv, RescanKeepsInv, ForceKeepsInv, StoreKeepsInv DEF RestoreStep
  <2>3. CASE \E p \in Plans : NewTransitionTest(p) \/ ShowBegin(p) \/ BeginRun(p) \/ BeginRestore(p)
    BY <2>3, PlansKeepInv, BeginKeepsInv
  <2>4. CASE ShowEnd
    <3>1. showing \in Plans
      BY <2>4 DEF ShowEnd, IInv, TypeOK, Known
    <3> QED
      BY <2>4, <3>1, PlansKeepInv
  <2>5. CASE LateClick \/ RegionChanges \/ PlayerToggles \/ Disconnect
    BY <2>5, OutsideKeepsInv
  <2>6. CASE UNCHANGED vars
    BY <2>6 DEF vars, bot, IInv, TypeOK, Trusted, Judged, SlotHeld, Judging, Known, RegionMatches
  <2> QED
    BY <2>1, <2>2, <2>3, <2>4, <2>5, <2>6 DEF Next
<1> QED
  BY <1>1, <1>2, PTL DEF Spec

\* A restoration that invoke_transition_test or restore_transition_test put on
\* record as verified is one, until something changes the region.
THEOREM VerifiedIsRestored == Spec => []VerifiedMeansRestored
<1>1. IInv => VerifiedMeansRestored
  <2>1. \A p \in Plans : TypeOK /\ Judging(p) => Busy(p)
    BY FreeIsNoCall DEF Judging, Busy, TypeOK
  <2> QED
    BY <2>1 DEF IInv, Trusted, VerifiedMeansRestored, Known
<1> QED
  BY <1>1, Invariant, PTL

\* No run keeps the bot's recording slot, unless an answer was lost.
THEOREM NoRunKeepsTheSlot == Spec => []SlotGivenBack
<1>1. IInv => SlotGivenBack
  BY FreeIsNoCall DEF IInv, SlotHeld, SlotGivenBack
<1> QED
  BY <1>1, Invariant, PTL
=============================================================================
