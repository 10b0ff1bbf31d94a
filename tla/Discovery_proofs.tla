---------------------------- MODULE Discovery_proofs ----------------------------
(***************************************************************************)
(* Proofs about what a request may look at: the selections and the circuit *)
(* cache of Capture, for any number of players, requests, blocks and       *)
(* circuits, and the search for a connected component of ComponentScan.    *)
(***************************************************************************)
EXTENDS Capture, ComponentScan, FiniteSetTheorems, TLAPS

Stages ==
    {"Idle", "First", "Second", "ClearDimension", "SetBounds", "SetDimension", "ReadBounds",
     "ReadDimension", "Scan", "StoreClock", "Store", "Load", "Loaded"}

Call ==
    [at : Stages, player : Players \cup {None}, captures : BOOLEAN, target : Spots \cup {None},
     bounds : SUBSET Spots, dimension : Dimensions \cup {None}, expires : Nat, clock : Nat, id : Nat]

\* A request that came in has a player, and a target where it will use one.
CallIsReady(request) ==
    /\ request.at # "Idle" => request.player \in Players
    /\ request.at \in {"First", "Second", "SetBounds", "SetDimension"} => request.target \in Spots

TypeOK ==
    /\ selection \in [Players -> Seq(Spots)]
    /\ dimension \in [Players -> Dimensions \cup {None}]
    /\ stored \in Seq([player : Players, expires : Nat])
    /\ held \subseteq DOMAIN stored
    /\ calls \in [Clients -> Call]
    /\ \A c \in Clients : CallIsReady(calls[c])
    /\ now \in Nat
    /\ overlap \subseteq Players

-----------------------------------------------------------------------------
(* Types.                                                                  *)

\* A step that changes one request and none of the maps.
LEMMA CallStep ==
    ASSUME TypeOK, NEW c \in Clients, NEW request \in Call, CallIsReady(request),
           calls' = [calls EXCEPT ![c] = request]
    PROVE  calls' \in [Clients -> Call] /\ (\A d \in Clients : CallIsReady(calls'[d]))
BY DEF TypeOK

LEMMA AnswerStep ==
    ASSUME TypeOK, NEW c \in Clients, Answer(c)
    PROVE  calls' \in [Clients -> Call] /\ (\A d \in Clients : CallIsReady(calls'[d]))
<1>1. NoCall \in Call /\ CallIsReady(NoCall)
  BY DEF NoCall, Call, Stages, CallIsReady
<1> QED
  BY <1>1, CallStep DEF Answer

LEMMA GotoStep ==
    ASSUME TypeOK, NEW c \in Clients, NEW stage \in Stages, calls[c].at # "Idle",
           stage \in {"First", "Second", "SetBounds", "SetDimension"} => calls[c].target \in Spots,
           Goto(c, stage)
    PROVE  calls' \in [Clients -> Call] /\ (\A d \in Clients : CallIsReady(calls'[d]))
<1>1. [calls[c] EXCEPT !.at = stage] \in Call
  BY DEF TypeOK, Call
<1>2. CallIsReady([calls[c] EXCEPT !.at = stage])
  BY DEF TypeOK, Call, CallIsReady
<1> QED
  BY <1>1, <1>2, CallStep DEF Goto, TypeOK

LEMMA TouchesStep ==
    ASSUME TypeOK, NEW c, NEW p \in Players, Touches(c, p)
    PROVE  overlap' \subseteq Players
BY DEF TypeOK, Touches

LEMMA TypesStep ==
    ASSUME TypeOK, [Next]_vars
    PROVE  TypeOK'
<1> USE CaptureAssumption
<1>1. ASSUME NEW c \in Clients, NEW stage \in {"First", "Second", "SetBounds"},
             NEW captures \in BOOLEAN, Observe(c, stage, captures)
      PROVE  TypeOK'
  <2>1. PICK p \in Players, s \in Spots :
             calls' = [calls EXCEPT ![c] = [NoCall EXCEPT !.at = stage, !.player = p,
                                                         !.target = s, !.captures = captures]]
    BY <1>1 DEF Observe
  <2> DEFINE request == [NoCall EXCEPT !.at = stage, !.player = p, !.target = s, !.captures = captures]
  <2>2. request \in Call /\ CallIsReady(request)
    BY DEF NoCall, Call, Stages, CallIsReady
  <2> QED
    BY <1>1, <2>1, <2>2, CallStep DEF Observe, TypeOK
<1>2. ASSUME NEW c \in Clients, MarkFirst(c)
      PROVE  TypeOK'
  <2>1. calls[c].player \in Players /\ calls[c].target \in Spots
    BY <1>2 DEF TypeOK, CallIsReady, MarkFirst
  <2>2. selection' \in [Players -> Seq(Spots)] /\ dimension' \in [Players -> Dimensions \cup {None}]
    BY <1>2, <2>1 DEF MarkFirst, TypeOK
  <2> QED
    BY <1>2, <2>1, <2>2, AnswerStep, TouchesStep DEF MarkFirst, TypeOK
<1>3. ASSUME NEW c \in Clients, MarkSecond(c)
      PROVE  TypeOK'
  <2>1. calls[c].player \in Players /\ calls[c].target \in Spots
    BY <1>3 DEF TypeOK, CallIsReady, MarkSecond
  <2>2. selection' \in [Players -> Seq(Spots)]
    BY <1>3, <2>1 DEF MarkSecond, TypeOK
  <2> QED
    BY <1>3, <2>1, <2>2, AnswerStep, TouchesStep DEF MarkSecond, TypeOK
<1>4. ASSUME NEW c \in Clients, ClearSelection(c)
      PROVE  TypeOK'
  <2>1. PICK p \in Players :
            /\ selection' = [selection EXCEPT ![p] = <<>>]
            /\ Touches(c, p)
            /\ calls' = [calls EXCEPT ![c] = [NoCall EXCEPT !.at = "ClearDimension", !.player = p]]
    BY <1>4 DEF ClearSelection
  <2> DEFINE request == [NoCall EXCEPT !.at = "ClearDimension", !.player = p]
  <2>2. request \in Call /\ CallIsReady(request)
    BY DEF NoCall, Call, Stages, CallIsReady
  <2>3. selection' \in [Players -> Seq(Spots)]
    BY <2>1 DEF TypeOK
  <2> QED
    BY <1>4, <2>1, <2>2, <2>3, CallStep, TouchesStep DEF ClearSelection, TypeOK
<1>5. ASSUME NEW c \in Clients, ClearDimension(c)
      PROVE  TypeOK'
  <2>1. calls[c].player \in Players
    BY <1>5 DEF TypeOK, CallIsReady, ClearDimension
  <2> QED
    BY <1>5, <2>1, AnswerStep, TouchesStep DEF ClearDimension, TypeOK
<1>6. ASSUME NEW c \in Clients, SetBounds(c)
      PROVE  TypeOK'
  <2>1. calls[c].player \in Players /\ calls[c].target \in Spots
    BY <1>6 DEF TypeOK, CallIsReady, SetBounds
  <2>2. selection' \in [Players -> Seq(Spots)]
    BY <1>6, <2>1 DEF SetBounds, TypeOK
  <2> QED
    BY <1>6, <2>1, <2>2, GotoStep, TouchesStep DEF SetBounds, TypeOK, Stages
<1>7. ASSUME NEW c \in Clients, SetDimension(c)
      PROVE  TypeOK'
  <2>1. calls[c].player \in Players /\ calls[c].target \in Spots
    BY <1>7 DEF TypeOK, CallIsReady, SetDimension
  <2>2. dimension' \in [Players -> Dimensions \cup {None}]
    BY <1>7, <2>1 DEF SetDimension, NewDimension, TypeOK
  <2>3. calls' \in [Clients -> Call] /\ (\A d \in Clients : CallIsReady(calls'[d]))
    BY <1>7, GotoStep, AnswerStep DEF SetDimension, Stages
  <2> QED
    BY <1>7, <2>1, <2>2, <2>3, TouchesStep DEF SetDimension, TypeOK
<1>8. ASSUME NEW c \in Clients, ShowRegion(c)
      PROVE  TypeOK'
  <2>1. PICK p \in Players :
            calls' = [calls EXCEPT ![c] = [NoCall EXCEPT !.at = "ReadBounds", !.player = p]]
    BY <1>8 DEF ShowRegion
  <2> DEFINE request == [NoCall EXCEPT !.at = "ReadBounds", !.player = p]
  <2>2. request \in Call /\ CallIsReady(request)
    BY DEF NoCall, Call, Stages, CallIsReady
  <2> QED
    BY <1>8, <2>1, <2>2, CallStep DEF ShowRegion, TypeOK
<1>9. ASSUME NEW c \in Clients, ReadBounds(c)
      PROVE  TypeOK'
  <2>1. calls[c].player \in Players
    BY <1>9 DEF TypeOK, CallIsReady, ReadBounds
  <2>2. CASE Len(selection[calls[c].player]) = 2
    <3> DEFINE request == [calls[c] EXCEPT !.at = "ReadDimension",
                                        !.bounds = ToSet(selection[calls[c].player])]
    <3>1. selection[calls[c].player] \in Seq(Spots)
      BY <2>1 DEF TypeOK
    <3>2. ToSet(selection[calls[c].player]) \subseteq Spots
      BY <3>1 DEF ToSet
    <3>3. request \in Call /\ CallIsReady(request)
      <4>1. calls[c] \in Call
        BY DEF TypeOK
      <4> QED
        BY <2>1, <3>2, <4>1 DEF Call, Stages, CallIsReady
    <3>4. calls' = [calls EXCEPT ![c] = request]
      BY <1>9, <2>2 DEF ReadBounds, TypeOK
    <3> QED
      BY <1>9, <2>1, <3>3, <3>4, CallStep, TouchesStep DEF ReadBounds, TypeOK
  <2> QED
    BY <1>9, <2>1, <2>2, AnswerStep, TouchesStep DEF ReadBounds, TypeOK
<1>10. ASSUME NEW c \in Clients, ReadDimension(c)
       PROVE  TypeOK'
  <2>1. calls[c].player \in Players
    BY <1>10 DEF TypeOK, CallIsReady, ReadDimension
  <2>2. CASE dimension[calls[c].player] # None
    <3> DEFINE request == [calls[c] EXCEPT !.at = "Scan", !.dimension = dimension[calls[c].player]]
    <3>1. request \in Call /\ CallIsReady(request)
      <4>1. calls[c] \in Call /\ dimension[calls[c].player] \in Dimensions
        BY <2>1, <2>2 DEF TypeOK
      <4> QED
        BY <2>1, <4>1 DEF Call, Stages, CallIsReady
    <3>2. calls' = [calls EXCEPT ![c] = request]
      BY <1>10, <2>2 DEF ReadDimension, TypeOK
    <3> QED
      BY <1>10, <2>1, <3>1, <3>2, CallStep, TouchesStep DEF ReadDimension, TypeOK
  <2> QED
    BY <1>10, <2>1, <2>2, AnswerStep, TouchesStep DEF ReadDimension, TypeOK
<1>11. ASSUME NEW c \in Clients, Scan(c)
       PROVE  TypeOK'
  <2> DEFINE request == [calls[c] EXCEPT !.at = "StoreClock", !.expires = now + TimeToLive]
  <2>1. request \in Call /\ CallIsReady(request)
    <3>1. calls[c] \in Call /\ calls[c].player \in Players /\ now + TimeToLive \in Nat
      BY <1>11 DEF Scan, TypeOK, CallIsReady
    <3> QED
      BY <3>1 DEF Call, Stages, CallIsReady
  <2>2. calls' = [calls EXCEPT ![c] = request]
    BY <1>11 DEF Scan, TypeOK
  <2> QED
    BY <1>11, <2>1, <2>2, CallStep DEF Scan, TypeOK
<1>12. ASSUME NEW c \in Clients, AwaitFails(c) \/ Work(c)
       PROVE  TypeOK'
  BY <1>12, AnswerStep DEF AwaitFails, Work, TypeOK
<1>13. ASSUME NEW c \in Clients, ReadClock(c)
       PROVE  TypeOK'
  <2> DEFINE request == [calls[c] EXCEPT !.at = "Store", !.clock = now]
  <2>1. request \in Call /\ CallIsReady(request)
    BY <1>13 DEF ReadClock, TypeOK, Call, Stages, CallIsReady
  <2>2. calls' = [calls EXCEPT ![c] = request]
    BY <1>13 DEF ReadClock, TypeOK
  <2> QED
    BY <1>13, <2>1, <2>2, CallStep DEF ReadClock, TypeOK
<1>14. ASSUME NEW c \in Clients, Store(c)
       PROVE  TypeOK'
  <2>1. PICK kept \in AfterEviction(Alive(c)) :
            /\ stored' = Append(stored, [player |-> calls[c].player, expires |-> calls[c].expires])
            /\ held' = kept \cup {Len(stored) + 1}
            /\ Answer(c)
    BY <1>14 DEF Store
  <2>2. [player |-> calls[c].player, expires |-> calls[c].expires] \in [player : Players, expires : Nat]
    BY <1>14 DEF Store, TypeOK, Call, CallIsReady
  <2>3. stored' \in Seq([player : Players, expires : Nat]) /\ DOMAIN stored' = 1..Len(stored) + 1
    BY <2>1, <2>2 DEF TypeOK
  <2>4. held' \subseteq DOMAIN stored'
    BY <2>1, <2>3 DEF AfterEviction, Alive, TypeOK
  <2> QED
    BY <1>14, <2>1, <2>3, <2>4, AnswerStep DEF Store, TypeOK
<1>15. ASSUME NEW c \in Clients, AskFor(c)
       PROVE  TypeOK'
  <2>1. PICK p \in Players, id \in 1..MaxStores :
            calls' = [calls EXCEPT ![c] = [NoCall EXCEPT !.at = "Load", !.player = p, !.id = id,
                                                         !.clock = now]]
    BY <1>15 DEF AskFor
  <2> DEFINE request == [NoCall EXCEPT !.at = "Load", !.player = p, !.id = id, !.clock = now]
  <2>2. request \in Call /\ CallIsReady(request)
    <3>1. now \in Nat /\ id \in Nat
      BY DEF TypeOK
    <3> QED
      BY <3>1 DEF NoCall, Call, Stages, CallIsReady
  <2> QED
    BY <1>15, <2>1, <2>2, CallStep DEF AskFor, TypeOK
<1>16. ASSUME NEW c \in Clients, Load(c)
       PROVE  TypeOK'
  <2>1. calls' \in [Clients -> Call] /\ (\A d \in Clients : CallIsReady(calls'[d]))
    BY <1>16, GotoStep, AnswerStep DEF Load, Stages
  <2> QED
    BY <1>16, <2>1 DEF Load, Alive, TypeOK
<1>17. CASE Tick
  BY <1>17 DEF Tick, TypeOK
<1>18. CASE UNCHANGED vars
  BY <1>18 DEF vars, TypeOK
<1> QED
  BY <1>1, <1>2, <1>3, <1>4, <1>5, <1>6, <1>7, <1>8, <1>9, <1>10, <1>11, <1>12, <1>13,
     <1>14, <1>15, <1>16, <1>17, <1>18 DEF Next

LEMMA TypesStart == Init => TypeOK
<1>1. NoCall \in Call /\ CallIsReady(NoCall)
  BY DEF NoCall, Call, Stages, CallIsReady
<1> QED
  BY <1>1 DEF Init, TypeOK

\* The maps of the selections, the cache and the requests have their types.
THEOREM TypeCorrect == Spec => []TypeOK
<1>1. TypeOK /\ [Next]_vars => TypeOK'
  BY TypesStep
<1> QED
  BY <1>1, TypesStart, PTL DEF Spec

-----------------------------------------------------------------------------
(* Selections.  A request that has taken one of its locks on a selection,  *)
(* and not yet the last, knows what it left there: as long as no other     *)
(* request of the player came in between, that is still so.                *)

InMiddleOf(c, p) == calls[c].player = p /\ InMiddle(c)

Agrees(p) == \A s \in ToSet(selection[p]) : DimensionOf[s] = dimension[p]

\* What request c left of the selection of p.
LeftBy(c, p) ==
    /\ calls[c].at = "SetDimension" => selection[p] = <<calls[c].target, calls[c].target>>
    /\ calls[c].at = "ClearDimension" => selection[p] = <<>>
    /\ calls[c].at \in {"ReadBounds", "ReadDimension"} => Agrees(p)

Whole(p) ==
    /\ \A c, d \in Clients : InMiddleOf(c, p) /\ InMiddleOf(d, p) => c = d
    /\ \A c \in Clients : InMiddleOf(c, p) => LeftBy(c, p)
    /\ (\A c \in Clients : ~InMiddleOf(c, p)) => Agrees(p)

\* The inductive invariant: it says of every moment what
\* SelectionIsInItsDimension says of those when nobody is in the middle.
SelectionsAreWhole == \A p \in Players \ overlap : Whole(p)

\* A step of a request that has nothing to do with the selection of p.
LEMMA QuietStep ==
    ASSUME NEW p \in Players, Whole(p), NEW c \in Clients,
           selection'[p] = selection[p], dimension'[p] = dimension[p],
           \A d \in Clients \ {c} : calls'[d] = calls[d],
           ~InMiddleOf(c, p), ~InMiddleOf(c, p)'
    PROVE  Whole(p)'
BY DEF Whole, LeftBy, Agrees, InMiddleOf, InMiddle

\* A step of the only request that is about the selection of p.
LEMMA AloneStep ==
    ASSUME NEW p \in Players, NEW c \in Clients,
           \A d \in Clients \ {c} : calls'[d] = calls[d] /\ ~InMiddleOf(d, p),
           InMiddleOf(c, p)' => LeftBy(c, p)',
           ~InMiddleOf(c, p)' => Agrees(p)'
    PROVE  Whole(p)'
<1>1. \A d \in Clients \ {c} : ~InMiddleOf(d, p)'
  BY DEF InMiddleOf, InMiddle
<1> QED
  BY <1>1 DEF Whole

\* Who takes a lock on a selection while another request is in the middle is
\* put on record: without that it is the only one.
LEMMA TouchesAlone ==
    ASSUME NEW p \in Players, NEW c \in Clients, Touches(c, p), p \notin overlap'
    PROVE  /\ p \notin overlap
           /\ \A d \in Clients \ {c} : ~InMiddleOf(d, p)
BY DEF Touches, InMiddleOf

LEMMA TouchesGrows ==
    ASSUME NEW p, NEW q, NEW c, Touches(c, q), p \notin overlap'
    PROVE  p \notin overlap
BY DEF Touches

LEMMA SelectionStep ==
    ASSUME TypeOK, SelectionsAreWhole, [Next]_vars
    PROVE  SelectionsAreWhole'
<1> USE CaptureAssumption
<1> SUFFICES ASSUME NEW p \in Players, p \notin overlap'
             PROVE  Whole(p)'
  BY DEF SelectionsAreWhole
<1>1. ASSUME NEW c \in Clients, UNCHANGED <<selection, dimension, overlap>>,
             \A d \in Clients \ {c} : calls'[d] = calls[d],
             ~InMiddle(c), ~InMiddle(c)'
      PROVE  Whole(p)'
  BY <1>1, QuietStep DEF SelectionsAreWhole, InMiddleOf
<1>2. ASSUME NEW c \in Clients, NEW q \in Players, q # p, Touches(c, q),
             selection'[p] = selection[p], dimension'[p] = dimension[p],
             \A d \in Clients \ {c} : calls'[d] = calls[d],
             ~InMiddleOf(c, p), ~InMiddleOf(c, p)'
      PROVE  Whole(p)'
  BY <1>2, QuietStep, TouchesGrows DEF SelectionsAreWhole
<1>3. ASSUME NEW c \in Clients, Answer(c)
      PROVE  ~InMiddle(c)' /\ ~InMiddleOf(c, p)' /\ \A d \in Clients \ {c} : calls'[d] = calls[d]
  <2>1. calls'[c] = NoCall /\ \A d \in Clients \ {c} : calls'[d] = calls[d]
    BY <1>3 DEF Answer, TypeOK
  <2>2. NoCall.at = "Idle"
    BY DEF NoCall
  <2> QED
    BY <2>1, <2>2 DEF InMiddle, InMiddleOf
<1>4. ASSUME NEW c \in Clients, NEW stage, Goto(c, stage)
      PROVE  /\ calls'[c].at = stage /\ calls'[c].player = calls[c].player
             /\ calls'[c].captures = calls[c].captures /\ calls'[c].target = calls[c].target
             /\ \A d \in Clients \ {c} : calls'[d] = calls[d]
  BY <1>4 DEF Goto, TypeOK, Call
<1>5. ASSUME NEW c \in Clients, Touches(c, p)
      PROVE  /\ \A d \in Clients \ {c} : ~InMiddleOf(d, p)
             /\ IF InMiddleOf(c, p) THEN LeftBy(c, p) ELSE Agrees(p)
  BY <1>5, TouchesAlone DEF SelectionsAreWhole, Whole
<1>6. ASSUME NEW c \in Clients, NEW stage \in {"First", "Second", "SetBounds"},
             NEW captures \in BOOLEAN, Observe(c, stage, captures)
      PROVE  Whole(p)'
  <2>1. PICK q \in Players, s \in Spots :
             calls' = [calls EXCEPT ![c] = [NoCall EXCEPT !.at = stage, !.player = q,
                                                         !.target = s, !.captures = captures]]
    BY <1>6 DEF Observe
  <2>2. calls'[c].at = stage /\ \A d \in Clients \ {c} : calls'[d] = calls[d]
    BY <2>1 DEF NoCall, TypeOK
  <2> QED
    BY <1>6, <2>2, <1>1 DEF Observe, InMiddle
<1>7. ASSUME NEW c \in Clients, MarkFirst(c)
      PROVE  Whole(p)'
  <2> DEFINE q == calls[c].player
  <2>1. q \in Players /\ calls[c].target \in Spots
    BY <1>7 DEF MarkFirst, TypeOK, CallIsReady
  <2>2. CASE q # p
    BY <1>7, <2>1, <2>2, <1>2, <1>3 DEF MarkFirst, TypeOK, InMiddleOf
  <2>3. CASE q = p
    <3>1. selection'[p] = <<calls[c].target>> /\ dimension'[p] = DimensionOf[calls[c].target]
      BY <1>7, <2>3 DEF MarkFirst, TypeOK
    <3>2. Agrees(p)'
      BY <3>1 DEF Agrees, ToSet
    <3> QED
      BY <1>7, <2>3, <3>2, <1>3, <1>5, AloneStep DEF MarkFirst
  <2> QED
    BY <2>2, <2>3
<1>8. ASSUME NEW c \in Clients, MarkSecond(c)
      PROVE  Whole(p)'
  <2> DEFINE q == calls[c].player
  <2>1. q \in Players /\ calls[c].target \in Spots
    BY <1>8 DEF MarkSecond, TypeOK, CallIsReady
  <2>2. CASE q # p
    BY <1>8, <2>1, <2>2, <1>2, <1>3 DEF MarkSecond, TypeOK, InMiddleOf
  <2>3. CASE q = p
    <3>1. Agrees(p) /\ dimension'[p] = dimension[p]
      BY <1>8, <2>3, <1>5 DEF MarkSecond, InMiddleOf, InMiddle
    <3>2. ASSUME TakesSecond(p, calls[c].target)
          PROVE  Agrees(p)'
      <4>1. selection[p] \in Seq(Spots) /\ selection'[p] = Append(selection[p], calls[c].target)
        BY <1>8, <2>3, <3>2 DEF MarkSecond, TypeOK
      <4>2. \A s \in ToSet(selection'[p]) : s \in ToSet(selection[p]) \/ s = calls[c].target
        BY <4>1, <2>1 DEF ToSet
      <4> QED
        BY <3>1, <3>2, <4>2 DEF Agrees, TakesSecond
    <3>3. ASSUME ~TakesSecond(p, calls[c].target)
          PROVE  Agrees(p)'
      BY <1>8, <2>3, <3>1, <3>3 DEF MarkSecond, Agrees
    <3> QED
      <4>1. Agrees(p)'
        BY <3>2, <3>3
      <4> QED
        BY <1>8, <2>3, <4>1, <1>3, <1>5, AloneStep DEF MarkSecond
  <2> QED
    BY <2>2, <2>3
<1>9. ASSUME NEW c \in Clients, ClearSelection(c)
       PROVE  Whole(p)'
  <2>1. PICK q \in Players :
            /\ selection' = [selection EXCEPT ![q] = <<>>]
            /\ Touches(c, q)
            /\ calls' = [calls EXCEPT ![c] = [NoCall EXCEPT !.at = "ClearDimension", !.player = q]]
    BY <1>9 DEF ClearSelection
  <2>2. /\ ~InMiddle(c)
        /\ calls'[c].at = "ClearDimension" /\ calls'[c].player = q
        /\ \A d \in Clients \ {c} : calls'[d] = calls[d]
    BY <1>9, <2>1 DEF ClearSelection, InMiddle, NoCall, TypeOK
  <2>3. CASE q # p
    BY <1>9, <2>1, <2>2, <2>3, <1>2 DEF ClearSelection, TypeOK, InMiddleOf
  <2>4. CASE q = p
    <3>1. selection'[p] = <<>>
      BY <2>1, <2>4 DEF TypeOK
    <3>2. InMiddleOf(c, p)' /\ LeftBy(c, p)'
      BY <2>2, <2>4, <3>1 DEF InMiddleOf, InMiddle, LeftBy
    <3> QED
      BY <2>1, <2>2, <2>4, <3>2, <1>5, AloneStep
  <2> QED
    BY <2>3, <2>4
<1>10. ASSUME NEW c \in Clients, ClearDimension(c)
       PROVE  Whole(p)'
  <2> DEFINE q == calls[c].player
  <2>1. q \in Players
    BY <1>10 DEF ClearDimension, TypeOK, CallIsReady
  <2>2. CASE q # p
    BY <1>10, <2>1, <2>2, <1>2, <1>3 DEF ClearDimension, TypeOK, InMiddleOf
  <2>3. CASE q = p
    <3>1. selection'[p] = <<>>
      BY <1>10, <2>3, <1>5 DEF ClearDimension, InMiddleOf, InMiddle, LeftBy
    <3>2. Agrees(p)'
      BY <3>1 DEF Agrees, ToSet
    <3> QED
      BY <1>10, <2>3, <3>2, <1>3, <1>5, AloneStep DEF ClearDimension
  <2> QED
    BY <2>2, <2>3
<1>11. ASSUME NEW c \in Clients, SetBounds(c)
       PROVE  Whole(p)'
  <2> DEFINE q == calls[c].player
  <2>1. q \in Players /\ calls[c].target \in Spots
    BY <1>11 DEF SetBounds, TypeOK, CallIsReady
  <2>2. CASE q # p
    BY <1>11, <2>1, <2>2, <1>2, <1>4 DEF SetBounds, TypeOK, InMiddleOf
  <2>3. CASE q = p
    <3>1. selection'[p] = <<calls'[c].target, calls'[c].target>>
      BY <1>11, <2>1, <2>3, <1>4 DEF SetBounds, TypeOK
    <3>2. InMiddleOf(c, p)' /\ LeftBy(c, p)'
      BY <1>11, <2>3, <3>1, <1>4 DEF SetBounds, InMiddleOf, InMiddle, LeftBy
    <3> QED
      BY <1>11, <2>3, <3>2, <1>4, <1>5, AloneStep DEF SetBounds
  <2> QED
    BY <2>2, <2>3
<1>12. ASSUME NEW c \in Clients, SetDimension(c)
       PROVE  Whole(p)'
  <2> DEFINE q == calls[c].player
  <2>1. q \in Players /\ calls[c].target \in Spots
    BY <1>12 DEF SetDimension, TypeOK, CallIsReady
  <2>2. \A d \in Clients \ {c} : calls'[d] = calls[d]
    BY <1>12, <1>3, <1>4 DEF SetDimension
  <2>3. CASE q # p
    <3>1. ~InMiddleOf(c, p) /\ ~InMiddleOf(c, p)'
      BY <1>12, <2>3, <1>3, <1>4 DEF SetDimension, InMiddleOf
    <3> QED
      BY <1>12, <2>1, <2>2, <2>3, <3>1, <1>2 DEF SetDimension, TypeOK
  <2>4. CASE q = p
    <3>1. /\ selection'[p] = <<calls[c].target, calls[c].target>>
          /\ dimension'[p] = DimensionOf[calls[c].target]
      BY <1>12, <2>4, <1>5 DEF SetDimension, NewDimension, InMiddleOf, InMiddle, LeftBy, TypeOK
    <3>2. Agrees(p)'
      BY <3>1 DEF Agrees, ToSet
    <3>3. InMiddleOf(c, p)' => LeftBy(c, p)'
      BY <1>12, <3>2, <1>3, <1>4 DEF SetDimension, LeftBy
    <3> QED
      BY <1>12, <2>2, <2>4, <3>2, <3>3, <1>5, AloneStep DEF SetDimension
  <2> QED
    BY <2>3, <2>4
<1>13. ASSUME NEW c \in Clients, ShowRegion(c)
       PROVE  Whole(p)'
  <2>1. PICK q \in Players :
            calls' = [calls EXCEPT ![c] = [NoCall EXCEPT !.at = "ReadBounds", !.player = q]]
    BY <1>13 DEF ShowRegion
  <2>2. /\ calls'[c].at = "ReadBounds" /\ calls'[c].captures = FALSE
        /\ \A d \in Clients \ {c} : calls'[d] = calls[d]
    BY <2>1 DEF NoCall, TypeOK
  <2> QED
    BY <1>13, <2>2, <1>1 DEF ShowRegion, InMiddle
<1>14. ASSUME NEW c \in Clients, ReadBounds(c)
       PROVE  Whole(p)'
  <2> DEFINE q == calls[c].player
  <2>1. q \in Players
    BY <1>14 DEF ReadBounds, TypeOK, CallIsReady
  <2>2. /\ \A d \in Clients \ {c} : calls'[d] = calls[d]
        /\ InMiddle(c)' => calls'[c].at = "ReadDimension" /\ calls'[c].player = q
    <3>1. CASE Len(selection[q]) = 2
      BY <1>14, <3>1 DEF ReadBounds, TypeOK, Call
    <3>2. CASE Len(selection[q]) # 2
      BY <1>14, <3>2, <1>3 DEF ReadBounds
    <3> QED
      BY <3>1, <3>2
  <2>3. CASE q # p
    BY <1>14, <2>1, <2>2, <2>3, <1>2 DEF ReadBounds, InMiddleOf
  <2>4. CASE q = p
    <3>1. Agrees(p)
      BY <1>14, <2>4, <1>5 DEF ReadBounds, LeftBy
    <3>2. Agrees(p)'
      BY <1>14, <3>1 DEF ReadBounds, Agrees
    <3>3. InMiddleOf(c, p)' => LeftBy(c, p)'
      BY <2>2, <3>2 DEF InMiddleOf, LeftBy
    <3> QED
      BY <1>14, <2>2, <2>4, <3>2, <3>3, <1>5, AloneStep DEF ReadBounds
  <2> QED
    BY <2>3, <2>4
<1>15. ASSUME NEW c \in Clients, ReadDimension(c)
       PROVE  Whole(p)'
  <2> DEFINE q == calls[c].player
  <2>1. q \in Players
    BY <1>15 DEF ReadDimension, TypeOK, CallIsReady
  <2>2. (\A d \in Clients \ {c} : calls'[d] = calls[d]) /\ ~InMiddle(c)'
    <3>1. CASE dimension[q] # None
      BY <1>15, <3>1 DEF ReadDimension, TypeOK, Call, InMiddle
    <3>2. CASE dimension[q] = None
      BY <1>15, <3>2, <1>3 DEF ReadDimension
    <3> QED
      BY <3>1, <3>2
  <2>3. CASE q # p
    BY <1>15, <2>1, <2>2, <2>3, <1>2 DEF ReadDimension, InMiddleOf
  <2>4. CASE q = p
    <3>1. Agrees(p)
      BY <1>15, <2>4, <1>5 DEF ReadDimension, LeftBy
    <3>2. Agrees(p)'
      BY <1>15, <3>1 DEF ReadDimension, Agrees
    <3> QED
      BY <1>15, <2>2, <2>4, <3>2, <1>5, AloneStep DEF ReadDimension, InMiddleOf
  <2> QED
    BY <2>3, <2>4
<1>16. ASSUME NEW c \in Clients, Scan(c) \/ ReadClock(c)
       PROVE  Whole(p)'
  <2>1. ~InMiddle(c)' /\ \A d \in Clients \ {c} : calls'[d] = calls[d]
    BY <1>16 DEF Scan, ReadClock, InMiddle, TypeOK, Call
  <2> QED
    BY <1>16, <2>1, <1>1 DEF Scan, ReadClock, InMiddle
<1>17. ASSUME NEW c \in Clients, AwaitFails(c) \/ Store(c) \/ Work(c)
       PROVE  Whole(p)'
  BY <1>17, <1>1, <1>3 DEF AwaitFails, Store, Work, InMiddle
<1>18. ASSUME NEW c \in Clients, AskFor(c)
       PROVE  Whole(p)'
  <2>1. PICK q \in Players, id \in 1..MaxStores :
            calls' = [calls EXCEPT ![c] = [NoCall EXCEPT !.at = "Load", !.player = q, !.id = id,
                                                         !.clock = now]]
    BY <1>18 DEF AskFor
  <2>2. calls'[c].at = "Load" /\ \A d \in Clients \ {c} : calls'[d] = calls[d]
    BY <2>1 DEF NoCall, TypeOK
  <2> QED
    BY <1>18, <2>2, <1>1 DEF AskFor, InMiddle
<1>19. ASSUME NEW c \in Clients, Load(c)
       PROVE  Whole(p)'
  <2>1. ~InMiddle(c)' /\ \A d \in Clients \ {c} : calls'[d] = calls[d]
    BY <1>19, <1>3, <1>4 DEF Load, InMiddle
  <2> QED
    BY <1>19, <2>1, <1>1 DEF Load, InMiddle
<1>20. CASE Tick \/ UNCHANGED vars
  BY <1>20 DEF Tick, vars, SelectionsAreWhole, Whole, LeftBy, Agrees, InMiddleOf, InMiddle
<1> QED
  BY <1>6, <1>7, <1>8, <1>9, <1>10, <1>11, <1>12, <1>13, <1>14, <1>15, <1>16, <1>17, <1>18,
     <1>19, <1>20 DEF Next

\* selections and selection_dimensions (service.rs) have a lock each: as long
\* as no two requests of a player overlapped, they still never come apart.
THEOREM SelectionHasItsDimension == Spec => []SelectionIsInItsDimension
<1>1. Init => SelectionsAreWhole
  BY DEF Init, NoCall, SelectionsAreWhole, Whole, Agrees, InMiddleOf, InMiddle, ToSet
<1>2. TypeOK /\ SelectionsAreWhole /\ [Next]_vars => SelectionsAreWhole'
  BY SelectionStep
<1>3. SelectionsAreWhole => SelectionIsInItsDimension
  BY DEF SelectionsAreWhole, SelectionIsInItsDimension, Whole, Agrees, InMiddleOf
<1> QED
  BY <1>1, <1>2, <1>3, TypeCorrect, PTL DEF Spec

-----------------------------------------------------------------------------
(* The cache.  A circuit that is given up while it is alive makes room for *)
(* a newer one, and what is kept lives at least as long: these are as many *)
(* as the cache holds.  Circuits are only ever added, and the time that a  *)
(* request read is never ahead of the clock.                               *)

\* The circuits for which circuit i may be given up.
Rivals(i) ==
    {j \in DOMAIN stored \ {i} : j > i \/ stored[j].expires >= stored[i].expires}

\* Circuit i is there, or no longer alive, or gave way to as many as there may be.
IsKept(i) ==
    i \notin held /\ stored[i].expires > now => Cardinality(Rivals(i)) >= MaxCircuits

ClocksAreRead == \A c \in Clients : calls[c].clock <= now

\* The inductive invariant.
CacheInv ==
    /\ ClocksAreRead
    /\ Cardinality(held) <= MaxCircuits
    /\ \A i \in DOMAIN stored : IsKept(i)

\* What is held, what is alive and the rivals of a circuit are finite sets.
LEMMA StoredIsFinite ==
    ASSUME TypeOK, NEW S, S \subseteq DOMAIN stored
    PROVE  IsFiniteSet(S) /\ Cardinality(S) \in Nat
<1>1. DOMAIN stored = 1..Len(stored) /\ Len(stored) \in Nat
  BY DEF TypeOK
<1>2. IsFiniteSet(1..Len(stored))
  BY <1>1, FS_Interval
<1> QED
  BY <1>1, <1>2, FS_Subset, FS_CardinalityType

LEMMA StoredIsTyped ==
    ASSUME TypeOK, NEW i \in DOMAIN stored
    PROVE  stored[i].expires \in Nat /\ stored[i].player \in Players
<1> DEFINE Circuit == [player : Players, expires : Nat]
<1>1. stored \in Seq(Circuit)
  BY DEF TypeOK
<1> HIDE DEF Circuit
<1>2. stored[i] \in Circuit
  BY <1>1
<1> QED
  BY <1>2 DEF Circuit

\* A step that stores nothing, when all it takes out of the cache has expired.
LEMMA NothingStored ==
    ASSUME TypeOK, CacheInv, stored' = stored, now' = now, held' \subseteq held,
           \A i \in held \ held' : stored[i].expires <= now
    PROVE  Cardinality(held') <= MaxCircuits /\ \A i \in DOMAIN stored' : IsKept(i)'
<1> USE CaptureAssumption
<1>1. Cardinality(held') <= MaxCircuits
  <2>1. IsFiniteSet(held) /\ Cardinality(held) \in Nat /\ Cardinality(held') \in Nat
    BY StoredIsFinite DEF TypeOK
  <2>2. Cardinality(held') <= Cardinality(held)
    BY <2>1, FS_Subset
  <2> QED
    BY <2>1, <2>2 DEF CacheInv
<1>2. ASSUME NEW i \in DOMAIN stored
      PROVE  IsKept(i)'
  <2>1. Rivals(i)' = Rivals(i)
    BY DEF Rivals
  <2>2. stored[i].expires \in Nat
    BY StoredIsTyped
  <2> QED
    BY <2>1, <2>2 DEF CacheInv, IsKept, TypeOK
<1> QED
  BY <1>1, <1>2

\* A step that leaves the circuits alone.
LEMMA CacheUntouched ==
    ASSUME TypeOK, CacheInv, UNCHANGED <<stored, held, now>>
    PROVE  Cardinality(held') <= MaxCircuits /\ \A i \in DOMAIN stored' : IsKept(i)'
BY NothingStored

\* The requests, after a step that keeps what was stored.
LEMMA RequestsKept ==
    ASSUME TypeOK, CacheInv, NEW c \in Clients, now' \in Nat, now <= now',
           \A i \in DOMAIN stored : i \in DOMAIN stored' /\ stored'[i] = stored[i],
           \A d \in Clients \ {c} : calls'[d] = calls[d],
           calls'[c].clock \in Nat, calls'[c].clock <= now'
    PROVE  ClocksAreRead'
<1>1. ASSUME NEW d \in Clients
      PROVE  calls[d].clock \in Nat /\ calls[d].clock <= now /\ now \in Nat
  BY DEF TypeOK, Call, CacheInv, ClocksAreRead
<1> QED
  BY <1>1 DEF ClocksAreRead

LEMMA StoreStep ==
    ASSUME TypeOK, CacheInv, NEW c \in Clients, Store(c)
    PROVE  Cardinality(held') <= MaxCircuits /\ \A i \in DOMAIN stored' : IsKept(i)'
<1> USE CaptureAssumption
<1>1. PICK kept \in AfterEviction(Alive(c)) :
          /\ stored' = Append(stored, [player |-> calls[c].player, expires |-> calls[c].expires])
          /\ held' = kept \cup {Len(stored) + 1}
  BY DEF Store
<1>2. /\ Len(stored) \in Nat
      /\ DOMAIN stored = 1..Len(stored) /\ DOMAIN stored' = 1..Len(stored) + 1
      /\ \A i \in DOMAIN stored : stored'[i] = stored[i]
  BY <1>1 DEF TypeOK
<1>3. kept \subseteq Alive(c) /\ Alive(c) \subseteq held /\ held \subseteq DOMAIN stored
  BY <1>1 DEF AfterEviction, Alive, TypeOK
<1>4. IsFiniteSet(kept) /\ Cardinality(kept) \in Nat /\ Cardinality(kept) < MaxCircuits
  BY <1>1, <1>3, StoredIsFinite DEF AfterEviction, HasRoom
<1>5. /\ IsFiniteSet(kept \cup {Len(stored) + 1})
      /\ Cardinality(kept \cup {Len(stored) + 1}) = Cardinality(kept) + 1
  <2>1. Len(stored) + 1 \notin kept
    BY <1>2, <1>3
  <2> QED
    BY <2>1, <1>4, FS_AddElement
<1>6. Cardinality(held') <= MaxCircuits
  BY <1>1, <1>4, <1>5
<1>7. now' = now
  BY DEF Store
<1>8. TypeOK'
  BY TypesStep DEF Next
<1>9. ASSUME NEW i \in DOMAIN stored', i \notin held', stored'[i].expires > now'
      PROVE  Cardinality(Rivals(i)') >= MaxCircuits
  <2>1. i \in DOMAIN stored /\ stored[i].expires > now /\ i \notin kept
    BY <1>1, <1>2, <1>7, <1>9
  <2>2. IsFiniteSet(Rivals(i)') /\ Cardinality(Rivals(i)') \in Nat
    <3>1. Rivals(i)' \subseteq DOMAIN stored'
      BY DEF Rivals
    <3>2. IsFiniteSet(1..Len(stored) + 1)
      BY <1>2, FS_Interval
    <3> QED
      BY <1>2, <3>1, <3>2, FS_Subset, FS_CardinalityType
  <2>3. CASE i \notin held
    <3>1. Cardinality(Rivals(i)) >= MaxCircuits
      BY <2>1, <2>3 DEF CacheInv, IsKept
    <3>2. Rivals(i) \subseteq Rivals(i)'
      BY <1>2, <2>1 DEF Rivals
    <3>3. Cardinality(Rivals(i)) \in Nat
      BY StoredIsFinite DEF Rivals
    <3> QED
      BY <2>2, <3>1, <3>2, <3>3, FS_Subset
  <2>4. CASE i \in held
    <3>1. calls[c].clock \in Nat /\ calls[c].clock <= now /\ now \in Nat /\ stored[i].expires \in Nat
      BY <2>1, StoredIsTyped DEF CacheInv, ClocksAreRead, TypeOK, Call
    <3>2. i \in Alive(c) \ kept
      BY <2>1, <2>4, <3>1 DEF Alive
    <3>3. /\ ~HasRoom(kept \cup {i})
          /\ \A j \in kept : stored[i].expires <= stored[j].expires
      BY <1>1, <3>2 DEF AfterEviction
    <3>4. Cardinality(kept \cup {i}) = Cardinality(kept) + 1
      BY <1>4, <2>1, FS_AddElement
    <3>5. Cardinality(kept) + 1 >= MaxCircuits
      BY <1>4, <3>3, <3>4 DEF HasRoom
    <3>6. kept \cup {Len(stored) + 1} \subseteq Rivals(i)'
      <4>1. ASSUME NEW j \in kept
            PROVE  j \in DOMAIN stored' \ {i} /\ stored'[j].expires >= stored'[i].expires
        <5>1. j \in DOMAIN stored /\ stored[j].expires \in Nat
          BY <1>3, StoredIsTyped
        <5> QED
          BY <1>2, <2>1, <3>1, <3>3, <5>1
      <4>2. Len(stored) + 1 \in DOMAIN stored' \ {i} /\ Len(stored) + 1 > i
        BY <1>2, <2>1
      <4> QED
        BY <4>1, <4>2 DEF Rivals
    <3> QED
      BY <1>4, <1>5, <2>2, <3>5, <3>6, FS_Subset
  <2> QED
    BY <2>3, <2>4
<1> QED
  BY <1>6, <1>9 DEF IsKept

LEMMA CacheStep ==
    ASSUME TypeOK, CacheInv, [Next]_vars
    PROVE  CacheInv'
<1> USE CaptureAssumption
<1>1. ASSUME NEW c \in Clients, UNCHANGED <<stored, held, now>>,
             \A d \in Clients \ {c} : calls'[d] = calls[d],
             calls'[c].clock \in {0, now, calls[c].clock}
      PROVE  CacheInv'
  <2>1. now \in Nat /\ calls[c].clock \in Nat /\ calls[c].clock <= now
    BY DEF TypeOK, Call, CacheInv, ClocksAreRead
  <2> QED
    BY <1>1, <2>1, CacheUntouched, RequestsKept DEF CacheInv
<1>2. ASSUME NEW c \in Clients, Answer(c)
      PROVE  /\ calls'[c].clock = 0
             /\ \A d \in Clients \ {c} : calls'[d] = calls[d]
  BY <1>2 DEF Answer, NoCall, TypeOK
<1>3. ASSUME NEW c \in Clients, NEW stage, Goto(c, stage)
      PROVE  /\ calls'[c] = [calls[c] EXCEPT !.at = stage]
             /\ calls'[c].at = stage /\ calls'[c].clock = calls[c].clock
             /\ calls'[c].id = calls[c].id /\ calls'[c].player = calls[c].player
             /\ \A d \in Clients \ {c} : calls'[d] = calls[d]
  BY <1>3 DEF Goto, TypeOK, Call
<1>4. ASSUME NEW c \in Clients, NEW stage \in {"First", "Second", "SetBounds"},
             NEW captures \in BOOLEAN, Observe(c, stage, captures)
      PROVE  CacheInv'
  <2>1. PICK q \in Players, s \in Spots :
             calls' = [calls EXCEPT ![c] = [NoCall EXCEPT !.at = stage, !.player = q,
                                                         !.target = s, !.captures = captures]]
    BY <1>4 DEF Observe
  <2>2. /\ calls'[c].at = stage /\ calls'[c].clock = 0
        /\ \A d \in Clients \ {c} : calls'[d] = calls[d]
    BY <2>1 DEF NoCall, TypeOK
  <2> QED
    BY <1>1, <1>4, <2>2 DEF Observe
<1>5. ASSUME NEW c \in Clients, ClearSelection(c)
      PROVE  CacheInv'
  <2>1. PICK q \in Players :
            calls' = [calls EXCEPT ![c] = [NoCall EXCEPT !.at = "ClearDimension", !.player = q]]
    BY <1>5 DEF ClearSelection
  <2>2. /\ calls'[c].at = "ClearDimension" /\ calls'[c].clock = 0
        /\ \A d \in Clients \ {c} : calls'[d] = calls[d]
    BY <2>1 DEF NoCall, TypeOK
  <2> QED
    BY <1>1, <1>5, <2>2 DEF ClearSelection
<1>6. ASSUME NEW c \in Clients, ShowRegion(c)
      PROVE  CacheInv'
  <2>1. PICK q \in Players :
            calls' = [calls EXCEPT ![c] = [NoCall EXCEPT !.at = "ReadBounds", !.player = q]]
    BY <1>6 DEF ShowRegion
  <2>2. /\ calls'[c].at = "ReadBounds" /\ calls'[c].clock = 0
        /\ \A d \in Clients \ {c} : calls'[d] = calls[d]
    BY <2>1 DEF NoCall, TypeOK
  <2> QED
    BY <1>1, <1>6, <2>2 DEF ShowRegion
<1>7. ASSUME NEW c \in Clients,
             MarkFirst(c) \/ MarkSecond(c) \/ ClearDimension(c) \/ AwaitFails(c) \/ Work(c)
      PROVE  CacheInv'
  <2>1. UNCHANGED <<stored, held, now>> /\ Answer(c)
    BY <1>7 DEF MarkFirst, MarkSecond, ClearDimension, AwaitFails, Work
  <2> QED
    BY <1>1, <1>2, <2>1
<1>8. ASSUME NEW c \in Clients, SetBounds(c) \/ SetDimension(c)
      PROVE  CacheInv'
  <2>1. /\ UNCHANGED <<stored, held, now>>
        /\ (\E stage \in {"SetDimension", "ReadBounds"} : Goto(c, stage)) \/ Answer(c)
    BY <1>8 DEF SetBounds, SetDimension
  <2>2. /\ calls'[c].clock \in {0, calls[c].clock}
        /\ \A d \in Clients \ {c} : calls'[d] = calls[d]
    <3>1. ASSUME NEW stage \in {"SetDimension", "ReadBounds"}, Goto(c, stage)
          PROVE  /\ calls'[c].at = stage /\ calls'[c].clock = calls[c].clock
                 /\ \A d \in Clients \ {c} : calls'[d] = calls[d]
      BY <1>3, <3>1
    <3> QED
      BY <1>2, <2>1, <3>1
  <2> QED
    BY <1>1, <2>1, <2>2
<1>9. ASSUME NEW c \in Clients, ReadBounds(c)
      PROVE  CacheInv'
  <2>1. CASE Len(selection[calls[c].player]) = 2
    <3>1. /\ calls'[c].clock = calls[c].clock
          /\ \A d \in Clients \ {c} : calls'[d] = calls[d]
      BY <1>9, <2>1 DEF ReadBounds, TypeOK, Call
    <3> QED
      BY <1>1, <1>9, <3>1 DEF ReadBounds
  <2>2. CASE Len(selection[calls[c].player]) # 2
    BY <1>1, <1>2, <1>9, <2>2 DEF ReadBounds
  <2> QED
    BY <2>1, <2>2
<1>10. ASSUME NEW c \in Clients, ReadDimension(c)
       PROVE  CacheInv'
  <2>1. CASE dimension[calls[c].player] # None
    <3>1. /\ calls'[c].clock = calls[c].clock
          /\ \A d \in Clients \ {c} : calls'[d] = calls[d]
      BY <1>10, <2>1 DEF ReadDimension, TypeOK, Call
    <3> QED
      BY <1>1, <1>10, <3>1 DEF ReadDimension
  <2>2. CASE dimension[calls[c].player] = None
    BY <1>1, <1>2, <1>10, <2>2 DEF ReadDimension
  <2> QED
    BY <2>1, <2>2
<1>11. ASSUME NEW c \in Clients, Scan(c) \/ ReadClock(c)
       PROVE  CacheInv'
  <2>1. /\ calls'[c].clock \in {now, calls[c].clock}
        /\ \A d \in Clients \ {c} : calls'[d] = calls[d]
    BY <1>11 DEF Scan, ReadClock, TypeOK, Call
  <2> QED
    BY <1>1, <1>11, <2>1 DEF Scan, ReadClock
<1>12. ASSUME NEW c \in Clients, Store(c)
       PROVE  CacheInv'
  <2>1. \A i \in DOMAIN stored : i \in DOMAIN stored' /\ stored'[i] = stored[i]
    BY <1>12 DEF Store, TypeOK
  <2>2. /\ calls'[c].clock = 0
        /\ \A d \in Clients \ {c} : calls'[d] = calls[d]
    BY <1>2, <1>12 DEF Store
  <2>3. now' = now /\ now \in Nat
    BY <1>12 DEF Store, TypeOK
  <2>4. ClocksAreRead'
    BY <2>1, <2>2, <2>3, RequestsKept
  <2> QED
    BY <1>12, <2>4, StoreStep DEF CacheInv
<1>13. ASSUME NEW c \in Clients, AskFor(c)
       PROVE  CacheInv'
  <2>1. PICK q \in Players, id \in 1..MaxStores :
            calls' = [calls EXCEPT ![c] = [NoCall EXCEPT !.at = "Load", !.player = q, !.id = id,
                                                         !.clock = now]]
    BY <1>13 DEF AskFor
  <2>2. /\ calls'[c].at = "Load" /\ calls'[c].clock = now
        /\ \A d \in Clients \ {c} : calls'[d] = calls[d]
    BY <2>1 DEF NoCall, TypeOK
  <2> QED
    BY <1>1, <1>13, <2>2 DEF AskFor
<1>14. ASSUME NEW c \in Clients, Load(c)
       PROVE  CacheInv'
  <2>1. /\ now \in Nat /\ now' = now /\ stored' = stored
        /\ calls[c].clock \in Nat /\ calls[c].clock <= now
    BY <1>14 DEF Load, TypeOK, Call, CacheInv, ClocksAreRead
  <2>2. Cardinality(held') <= MaxCircuits /\ \A i \in DOMAIN stored' : IsKept(i)'
    <3>1. held' = Alive(c)
      BY <1>14 DEF Load
    <3>2. ASSUME NEW i \in held \ held'
          PROVE  stored[i].expires <= now
      <4>1. i \in DOMAIN stored
        BY DEF TypeOK
      <4>2. stored[i].expires \in Nat
        BY <4>1, StoredIsTyped
      <4> QED
        BY <2>1, <3>1, <4>2 DEF Alive
    <3> QED
      BY <2>1, <3>1, <3>2, NothingStored DEF Alive
  <2>3. CASE Loadable(c) = {}
    <3>1. /\ calls'[c].clock = 0
          /\ \A d \in Clients \ {c} : calls'[d] = calls[d]
      BY <1>2, <1>14, <2>3 DEF Load
    <3>2. ClocksAreRead'
      BY <2>1, <3>1, RequestsKept
    <3> QED
      BY <2>2, <3>2 DEF CacheInv
  <2>4. CASE Loadable(c) # {}
    <3>1. /\ calls'[c].clock = calls[c].clock
          /\ \A d \in Clients \ {c} : calls'[d] = calls[d]
      BY <1>3, <1>14, <2>4 DEF Load
    <3>2. ClocksAreRead'
      BY <2>1, <3>1, RequestsKept
    <3> QED
      BY <2>2, <3>2 DEF CacheInv
  <2> QED
    BY <2>3, <2>4
<1>15. CASE Tick
  <2>1. /\ now \in Nat /\ now' = now + 1
        /\ UNCHANGED <<stored, held, calls>>
    BY <1>15 DEF Tick, TypeOK
  <2>2. ClocksAreRead'
    BY <2>1 DEF TypeOK, Call, CacheInv, ClocksAreRead
  <2>3. ASSUME NEW i \in DOMAIN stored
        PROVE  IsKept(i)'
    <3>1. Rivals(i)' = Rivals(i)
      BY <2>1 DEF Rivals
    <3>2. stored[i].expires \in Nat
      BY StoredIsTyped
    <3> QED
      BY <2>1, <3>1, <3>2 DEF CacheInv, IsKept
  <2> QED
    BY <2>1, <2>2, <2>3 DEF CacheInv
<1>16. CASE UNCHANGED vars
  BY <1>16 DEF vars, CacheInv, ClocksAreRead, IsKept, Rivals
<1> QED
  BY <1>4, <1>5, <1>6, <1>7, <1>8, <1>9, <1>10, <1>11, <1>12, <1>13, <1>14, <1>15, <1>16 DEF Next

\* The inductive invariant of the snapshot store, under every order in which
\* concurrent requests read the clock and store what they made.
THEOREM CacheIsSound == Spec => []CacheInv
<1>1. Init => CacheInv
  <2> SUFFICES ASSUME Init
               PROVE  CacheInv
    OBVIOUS
  <2>1. Cardinality(held) = 0 /\ DOMAIN stored = {}
    BY FS_EmptySet DEF Init
  <2>2. \A c \in Clients : calls[c].at = "Idle" /\ calls[c].clock = 0 /\ now = 0
    BY DEF Init, NoCall
  <2> QED
    BY <2>1, <2>2, CaptureAssumption DEF CacheInv, ClocksAreRead
<1>2. TypeOK /\ CacheInv /\ [Next]_vars => CacheInv'
  BY CacheStep
<1> QED
  BY <1>1, <1>2, TypeCorrect, PTL DEF Spec

\* store_circuit and load_circuit (service.rs): the cache stays within
\* MAX_CIRCUIT_SNAPSHOTS, and no circuit is given up before its time unless
\* as many others as fit have come later or live at least as long.
THEOREM CachePromiseIsKept == Spec => []CacheKeepsItsPromise
<1>1. CacheInv => CacheKeepsItsPromise
  BY DEF CacheInv, CacheKeepsItsPromise, IsKept, Rivals
<1> QED
  BY <1>1, CacheIsSound, PTL

-----------------------------------------------------------------------------
(***************************************************************************)
(* The flood fill, for every world, gap, limit and tile size.  A position  *)
(* of the component whose turn is over has all its tiles loaded and all    *)
(* its known neighbours in the component or in the queue                   *)
(* (SettledIsSpread); what was never touched and stands in a loaded tile   *)
(* is known (LoadedIsFound); and the queue holds new neighbours of the     *)
(* component only, each once (QueueIsFrontier).                            *)
(***************************************************************************)

Settled(p) == p \in connected /\ pc # "Failed" /\ (pc = "Load" => p # current)

SettledIsSpread ==
    \A p \in connected : Settled(p) =>
        /\ TilesAround(p) \subseteq tiles
        /\ \A q \in found : Near(p, q) => q \in connected \cup ToSet(queue)

LoadedIsFound == \A q \in world \ edited : TileOf(q) \in tiles => q \in found

Distinct(s) == \A i, j \in 1..Len(s) : i < j => s[i] # s[j]

QueueIsFrontier ==
    /\ Distinct(queue)
    /\ ToSet(queue) \cap connected = {}
    /\ connected # {} =>
          /\ seed \in connected
          /\ \A q \in ToSet(queue) : \E p \in connected : Near(p, q)

\* Where the call is tells what it has.
ScanStages ==
    /\ pc = "Seed" => connected = {} /\ queue = <<>> /\ tiles = {}
    /\ pc = "Pop" /\ connected = {} => queue = <<seed>>
    /\ pc = "Load" => current \in connected
    /\ pc = "Done" => connected # {} /\ (limited <=> queue # <<>>)
    /\ pc = "Done" /\ limited => Cardinality(connected) = call.limit

ScanInv ==
    /\ ScanTypeOK
    /\ SettledIsSpread
    /\ LoadedIsFound
    /\ QueueIsFrontier
    /\ ScanStages
    /\ ComponentIsOneGroup

-----------------------------------------------------------------------------

\* Rounding down keeps the order.
LEMMA DivMonotone ==
    ASSUME NEW a \in Int, NEW b \in Int, NEW n \in Nat \ {0}, a <= b
    PROVE  /\ a \div n \in Int
           /\ a \div n <= b \div n
  <1>1. /\ a \div n \in Int /\ b \div n \in Int
        /\ n * (a \div n) <= a /\ b < n * (b \div n) + n
    OBVIOUS
  <1> DEFINE x == a \div n
             y == b \div n
  <1>2. x \in Int /\ y \in Int /\ n * x <= a /\ b < n * y + n
    BY <1>1
  <1> HIDE DEF x, y
  <1>3. ASSUME y < x PROVE FALSE
    <2>1. n * (y + 1) <= n * x
      BY <1>2, <1>3
    <2>2. n * (y + 1) = n * y + n
      BY <1>2
    <2> QED BY <2>1, <2>2, <1>2
  <1>4. x <= y
    BY <1>3, <1>2
  <1> QED BY <1>2, <1>4 DEF x, y

\* Whatever is near p stands in one of the tiles loaded for p.
LEMMA NearIsInTiles ==
    ASSUME ScanAssumption, call \in [target : Targets, gap : Gaps, limit : Limits],
           NEW p \in Position, NEW q \in Position, Near(p, q)
    PROVE  TileOf(q) \in TilesAround(p)
  <1>1. call.gap \in Nat /\ TileSize \in Nat \ {0}
    BY DEF ScanAssumption
  <1>2. /\ p.x \in Int /\ p.y \in Int /\ p.z \in Int
        /\ q.x \in Int /\ q.y \in Int /\ q.z \in Int
    BY DEF Position
  <1>3. /\ p.x - call.gap <= q.x /\ q.x <= p.x + call.gap
        /\ p.y - call.gap <= q.y /\ q.y <= p.y + call.gap
        /\ p.z - call.gap <= q.z /\ q.z <= p.z + call.gap
    BY <1>1, <1>2 DEF Near, Distance
  <1>4. /\ q.x \div TileSize \in ((p.x - call.gap) \div TileSize)..((p.x + call.gap) \div TileSize)
        /\ q.y \div TileSize \in ((p.y - call.gap) \div TileSize)..((p.y + call.gap) \div TileSize)
        /\ q.z \div TileSize \in ((p.z - call.gap) \div TileSize)..((p.z + call.gap) \div TileSize)
    <2>1. ASSUME NEW a \in Int, NEW b \in Int, NEW c \in Int, a <= b, b <= c
          PROVE  b \div TileSize \in (a \div TileSize)..(c \div TileSize)
      <3>1. /\ a \div TileSize \in Int /\ a \div TileSize <= b \div TileSize
        BY <1>1, <2>1, DivMonotone
      <3>2. /\ b \div TileSize \in Int /\ b \div TileSize <= c \div TileSize
        BY <1>1, <2>1, DivMonotone
      <3>3. c \div TileSize \in Int
        BY <1>1, <2>1, DivMonotone
      <3> QED BY <3>1, <3>2, <3>3
    <2>2. /\ p.x - call.gap \in Int /\ p.x + call.gap \in Int
          /\ p.y - call.gap \in Int /\ p.y + call.gap \in Int
          /\ p.z - call.gap \in Int /\ p.z + call.gap \in Int
      BY <1>1, <1>2
    <2>3. q.x \div TileSize \in ((p.x - call.gap) \div TileSize)..((p.x + call.gap) \div TileSize)
      BY <2>1, <2>2, <1>2, <1>3
    <2>4. q.y \div TileSize \in ((p.y - call.gap) \div TileSize)..((p.y + call.gap) \div TileSize)
      BY <2>1, <2>2, <1>2, <1>3
    <2>5. q.z \div TileSize \in ((p.z - call.gap) \div TileSize)..((p.z + call.gap) \div TileSize)
      BY <2>1, <2>2, <1>2, <1>3
    <2> QED BY <2>3, <2>4, <2>5
  <1>5. /\ TileOf(Shift(p, -call.gap)) = [x |-> (p.x - call.gap) \div TileSize,
                                         y |-> (p.y - call.gap) \div TileSize,
                                         z |-> (p.z - call.gap) \div TileSize]
        /\ TileOf(Shift(p, call.gap)) = [x |-> (p.x + call.gap) \div TileSize,
                                         y |-> (p.y + call.gap) \div TileSize,
                                         z |-> (p.z + call.gap) \div TileSize]
    <2>1. p.x + (-call.gap) = p.x - call.gap /\ p.y + (-call.gap) = p.y - call.gap
          /\ p.z + (-call.gap) = p.z - call.gap
      BY <1>1, <1>2
    <2> QED BY <2>1 DEF TileOf, Shift
  <1> QED BY <1>4, <1>5 DEF TilesAround, Box, TileOf

\* Taking the head of a sequence splits its set of members.
LEMMA TakingTheHead ==
    ASSUME NEW S, NEW s \in Seq(S), s # <<>>
    PROVE  /\ Head(s) \in S
           /\ Tail(s) \in Seq(S)
           /\ ToSet(s) = {Head(s)} \cup ToSet(Tail(s))
           /\ ToSet(s) \subseteq S
           /\ Distinct(s) => Head(s) \notin ToSet(Tail(s)) /\ Distinct(Tail(s))
  <1>1. /\ Head(s) \in S /\ Tail(s) \in Seq(S) /\ Head(s) = s[1]
        /\ Len(s) \in Nat /\ Len(s) >= 1 /\ Len(Tail(s)) = Len(s) - 1
        /\ DOMAIN s = 1..Len(s) /\ DOMAIN Tail(s) = 1..Len(Tail(s))
        /\ \A i \in 1..Len(Tail(s)) : Tail(s)[i] = s[i + 1]
    OBVIOUS
  <1>2. ToSet(s) \subseteq {Head(s)} \cup ToSet(Tail(s))
    <2> SUFFICES ASSUME NEW i \in 1..Len(s), i # 1
                 PROVE  s[i] \in ToSet(Tail(s))
      BY <1>1 DEF ToSet
    <2>1. i - 1 \in 1..Len(Tail(s)) /\ (i - 1) + 1 = i
      BY <1>1
    <2> QED BY <2>1, <1>1 DEF ToSet
  <1>3. {Head(s)} \cup ToSet(Tail(s)) \subseteq ToSet(s)
    <2>1. Head(s) \in ToSet(s)
      <3>1. 1 \in 1..Len(s)
        BY <1>1
      <3> QED BY <3>1, <1>1 DEF ToSet
    <2>2. ASSUME NEW i \in 1..Len(Tail(s)) PROVE Tail(s)[i] \in ToSet(s)
      <3>1. i + 1 \in 1..Len(s)
        BY <1>1
      <3> QED BY <3>1, <1>1 DEF ToSet
    <2> QED BY <2>1, <2>2, <1>1 DEF ToSet
  <1>4. ToSet(s) \subseteq S
    BY DEF ToSet
  <1>5. ASSUME Distinct(s) PROVE Head(s) \notin ToSet(Tail(s)) /\ Distinct(Tail(s))
    <2>1. ASSUME NEW i \in 1..Len(Tail(s)) PROVE Tail(s)[i] # Head(s)
      <3>1. i + 1 \in 1..Len(s) /\ 1 < i + 1 /\ 1 \in 1..Len(s)
        BY <1>1
      <3> QED BY <3>1, <1>1, <1>5 DEF Distinct
    <2>2. ASSUME NEW i \in 1..Len(Tail(s)), NEW j \in 1..Len(Tail(s)), i < j
          PROVE  Tail(s)[i] # Tail(s)[j]
      <3>1. i + 1 \in 1..Len(s) /\ j + 1 \in 1..Len(s) /\ i + 1 < j + 1
        BY <1>1, <2>2
      <3> QED BY <3>1, <1>1, <1>5 DEF Distinct
    <2> QED BY <2>1, <2>2, <1>1 DEF ToSet, Distinct
  <1> QED BY <1>1, <1>2, <1>3, <1>4, <1>5

\* Putting two sequences together unites their members.
LEMMA PuttingTogether ==
    ASSUME NEW S, NEW s \in Seq(S), NEW t \in Seq(S)
    PROVE  /\ s \o t \in Seq(S)
           /\ ToSet(s \o t) = ToSet(s) \cup ToSet(t)
           /\ Distinct(s) /\ Distinct(t) /\ ToSet(s) \cap ToSet(t) = {} => Distinct(s \o t)
  <1>1. /\ s \o t \in Seq(S) /\ Len(s) \in Nat /\ Len(t) \in Nat
        /\ Len(s \o t) = Len(s) + Len(t)
        /\ DOMAIN s = 1..Len(s) /\ DOMAIN t = 1..Len(t) /\ DOMAIN (s \o t) = 1..Len(s \o t)
        /\ \A i \in 1..Len(s \o t) : (s \o t)[i] = IF i <= Len(s) THEN s[i] ELSE t[i - Len(s)]
    OBVIOUS
  <1>2. ASSUME NEW i \in 1..Len(s \o t)
        PROVE  \/ i \in 1..Len(s) /\ (s \o t)[i] = s[i]
               \/ i > Len(s) /\ i - Len(s) \in 1..Len(t) /\ (s \o t)[i] = t[i - Len(s)]
    BY <1>1
  <1>3. ToSet(s \o t) \subseteq ToSet(s) \cup ToSet(t)
    BY <1>1, <1>2 DEF ToSet
  <1>4. ASSUME NEW i \in 1..Len(s) PROVE s[i] \in ToSet(s \o t)
    <2>1. i \in 1..Len(s \o t) /\ (s \o t)[i] = s[i]
      BY <1>1
    <2> QED BY <2>1, <1>1 DEF ToSet
  <1>5. ASSUME NEW i \in 1..Len(t) PROVE t[i] \in ToSet(s \o t)
    <2>1. i + Len(s) \in 1..Len(s \o t) /\ (s \o t)[i + Len(s)] = t[(i + Len(s)) - Len(s)]
      BY <1>1
    <2>2. (i + Len(s)) - Len(s) = i
      BY <1>1
    <2> QED BY <2>1, <2>2, <1>1 DEF ToSet
  <1>6. ASSUME Distinct(s), Distinct(t), ToSet(s) \cap ToSet(t) = {},
               NEW i \in 1..Len(s \o t), NEW j \in 1..Len(s \o t), i < j
        PROVE  (s \o t)[i] # (s \o t)[j]
    <2>1. CASE i \in 1..Len(s) /\ j \in 1..Len(s)
      BY <2>1, <1>1, <1>6 DEF Distinct
    <2>2. CASE i \in 1..Len(s) /\ j > Len(s)
      <3>1. (s \o t)[i] \in ToSet(s)
        BY <2>2, <1>1 DEF ToSet
      <3>2. (s \o t)[j] \in ToSet(t)
        BY <2>2, <1>2, <1>1 DEF ToSet
      <3> QED BY <3>1, <3>2, <1>6
    <2>3. CASE i > Len(s)
      <3>1. /\ i - Len(s) \in 1..Len(t) /\ j - Len(s) \in 1..Len(t) /\ i - Len(s) < j - Len(s)
            /\ (s \o t)[i] = t[i - Len(s)] /\ (s \o t)[j] = t[j - Len(s)]
        BY <2>3, <1>1, <1>6
      <3> QED BY <3>1, <1>6 DEF Distinct
    <2> QED BY <2>1, <2>2, <2>3, <1>1
  <1> QED BY <1>1, <1>3, <1>4, <1>5, <1>6 DEF ToSet, Distinct

-----------------------------------------------------------------------------

\* The invariant holds when a call begins.
LEMMA InitScanInv == ASSUME ScanAssumption, ScanInit PROVE ScanInv
  <1>1. queue \in Seq(found) /\ ToSet(queue) = {} /\ Distinct(queue)
    <2>1. queue = <<>>
      BY DEF ScanInit
    <2> QED BY <2>1 DEF ToSet, Distinct
  <1>2. /\ call \in [target : Targets, gap : Gaps, limit : Limits]
        /\ world \subseteq Space
    BY DEF ScanInit, ScanAssumption
  <1>3. seed \in Position /\ current \in Position
    BY DEF ScanInit, Nowhere, Position
  <1>4. ScanTypeOK
    BY <1>1, <1>2, <1>3 DEF ScanInit, ScanTypeOK
  <1> QED BY <1>1, <1>4 DEF ScanInit, ScanInv, SettledIsSpread, LoadedIsFound, QueueIsFrontier,
                            ScanStages, ComponentIsOneGroup

\* A failing step changes nothing but pc.
LEMMA FailKeepsScanInv == ASSUME ScanInv, Fail PROVE ScanInv'
  <1> USE DEF ScanInv, Fail
  <1>1. ScanTypeOK'
    BY DEF ScanTypeOK
  <1>2. SettledIsSpread'
    BY DEF SettledIsSpread, Settled
  <1>3. LoadedIsFound'
    BY DEF LoadedIsFound
  <1>4. QueueIsFrontier'
    BY DEF QueueIsFrontier, Near
  <1>5. ScanStages'
    BY DEF ScanStages
  <1>6. ComponentIsOneGroup'
    BY DEF ComponentIsOneGroup, Near
  <1> QED BY <1>1, <1>2, <1>3, <1>4, <1>5, <1>6

\* The seed scan knows what stands in its box, and queues the seed.
LEMMA ScanSeedKeepsScanInv == ASSUME ScanAssumption, ScanInv, ScanSeed PROVE ScanInv'
  <1>1. CASE Fail
    BY <1>1, FailKeepsScanInv
  <1>2. CASE ~Fail
    <2>1. PICK seen \in SUBSET world : \E p \in seen :
              /\ seed' = p /\ queue' = <<p>> /\ found' = seen /\ pc' = "Pop"
              /\ UNCHANGED <<world, edited, call, current, tiles, connected, limited>>
      BY <1>2 DEF ScanSeed
    <2>2. /\ pc = "Seed" /\ connected = {} /\ queue = <<>> /\ tiles = {}
          /\ ScanTypeOK
      BY DEF ScanSeed, ScanInv, ScanStages
    <2>3. /\ queue' = <<seed'>> /\ seed' \in found' /\ found' \subseteq world
          /\ pc' = "Pop" /\ connected' = {}
          /\ UNCHANGED <<world, edited, call, current, tiles, limited>>
      BY <2>1, <2>2
    <2>4. ScanTypeOK'
      <3>1. queue' \in Seq(found') /\ seed' \in Position
        BY <2>2, <2>3 DEF ScanTypeOK, ScanAssumption
      <3> QED BY <2>2, <2>3, <3>1 DEF ScanTypeOK
    <2>5. LoadedIsFound'
      BY <2>2, <2>3 DEF LoadedIsFound
    <2>6. Distinct(queue')
      BY <2>3 DEF Distinct
    <2>7. QueueIsFrontier'
      BY <2>3, <2>6 DEF QueueIsFrontier, Distinct
    <2>8. ScanStages'
      BY <2>3 DEF ScanStages
    <2>9. SettledIsSpread' /\ ComponentIsOneGroup'
      BY <2>3 DEF SettledIsSpread, ComponentIsOneGroup
    <2> QED BY <2>4, <2>5, <2>7, <2>8, <2>9 DEF ScanInv
  <1> QED BY <1>1, <1>2

\* Taking a position from the queue into the component.
LEMMA PopKeepsScanInv == ASSUME ScanAssumption, ScanInv, Pop PROVE ScanInv'
  <1>1. /\ pc = "Pop" /\ queue # <<>> /\ queue' = Tail(queue)
        /\ ScanTypeOK /\ SettledIsSpread /\ LoadedIsFound /\ QueueIsFrontier /\ ScanStages
        /\ ComponentIsOneGroup
        /\ UNCHANGED <<world, edited, call, seed, found, tiles, limited>>
    BY DEF Pop, ScanInv
  <1>2. /\ Head(queue) \in found /\ Tail(queue) \in Seq(found)
        /\ ToSet(queue) = {Head(queue)} \cup ToSet(Tail(queue))
        /\ Head(queue) \notin ToSet(Tail(queue)) /\ Distinct(Tail(queue))
    BY <1>1, TakingTheHead DEF ScanTypeOK, QueueIsFrontier
  <1>3. Head(queue) \notin connected
    BY <1>1, <1>2 DEF QueueIsFrontier
  <1>4. /\ current' = Head(queue) /\ connected' = connected \cup {Head(queue)}
        /\ pc' = "Load"
    BY <1>3 DEF Pop
  <1>5. ScanTypeOK'
    BY <1>1, <1>2, <1>4 DEF ScanTypeOK, ScanAssumption
  <1>6. LoadedIsFound'
    BY <1>1 DEF LoadedIsFound
  <1>7. SettledIsSpread'
    <2> SUFFICES ASSUME NEW p \in connected', Settled(p)'
                 PROVE  /\ TilesAround(p)' \subseteq tiles'
                        /\ \A q \in found' : Near(p, q)' => q \in connected' \cup ToSet(queue')
      BY DEF SettledIsSpread
    <2>1. p \in connected /\ Settled(p)
      BY <1>1, <1>4 DEF Settled
    <2>2. TilesAround(p)' = TilesAround(p)
      BY <1>1 DEF TilesAround
    <2>3. \A q : Near(p, q)' = Near(p, q)
      BY <1>1 DEF Near
    <2> QED BY <1>1, <1>2, <1>4, <2>1, <2>2, <2>3 DEF SettledIsSpread
  <1>8. /\ Distinct(queue)'
        /\ (ToSet(queue) \cap connected = {})'
    BY <1>1, <1>2, <1>4 DEF QueueIsFrontier, Distinct
  <1>9. seed \in connected' /\ (connected = {} => Head(queue) = seed /\ Tail(queue) = <<>>)
    <2>1. CASE connected = {}
      BY <2>1, <1>1, <1>4 DEF ScanStages
    <2>2. CASE connected # {}
      BY <2>2, <1>1, <1>4 DEF QueueIsFrontier
    <2> QED BY <2>1, <2>2
  <1>10. \A q \in ToSet(queue') : \E p \in connected' : Near(p, q)
    <2>1. CASE connected = {}
      BY <2>1, <1>1, <1>9 DEF ToSet
    <2>2. CASE connected # {}
      BY <2>2, <1>1, <1>2, <1>4 DEF QueueIsFrontier
    <2> QED BY <2>1, <2>2
  <1>11. QueueIsFrontier'
    <2>1. \A p, q : Near(p, q)' = Near(p, q)
      BY <1>1 DEF Near
    <2> QED BY <1>1, <1>8, <1>9, <1>10, <2>1 DEF QueueIsFrontier
  <1>12. ScanStages'
    BY <1>4 DEF ScanStages
  <1>13. ComponentIsOneGroup'
    <2>1. \A p, q : Near(p, q)' = Near(p, q)
      BY <1>1 DEF Near
    <2> SUFFICES ASSUME NEW part \in SUBSET connected', seed \in part, part # connected'
                 PROVE  \E p \in part, q \in connected' \ part : Near(p, q)
      BY <1>1, <2>1 DEF ComponentIsOneGroup
    <2> DEFINE head == Head(queue)
    <2>2. CASE head \notin part /\ part = connected
      <3>1. \E p \in connected : Near(p, head)
        BY <2>2, <1>1, <1>2 DEF QueueIsFrontier
      <3> QED BY <3>1, <2>2, <1>4
    <2>3. CASE head \notin part /\ part # connected
      <3>1. part \in SUBSET connected
        BY <2>3, <1>4
      <3>2. \E p \in part, q \in connected \ part : Near(p, q)
        BY <3>1, <2>3, <1>1 DEF ComponentIsOneGroup
      <3> QED BY <3>2, <1>4
    <2>4. CASE head \in part
      <3>1. part \ {head} \in SUBSET connected /\ part \ {head} # connected
        BY <2>4, <1>3, <1>4
      <3>2. seed \in part \ {head}
        BY <1>4, <1>9, <2>4, <1>1, <1>3 DEF QueueIsFrontier
      <3>3. \E p \in part \ {head}, q \in connected \ (part \ {head}) : Near(p, q)
        BY <3>1, <3>2, <1>1 DEF ComponentIsOneGroup
      <3> QED BY <3>3, <1>3, <1>4
    <2> QED BY <2>2, <2>3, <2>4
  <1> QED BY <1>5, <1>6, <1>7, <1>11, <1>12, <1>13 DEF ScanInv

\* Loading a tile around the current position.
LEMMA LoadTileKeepsScanInv == ASSUME ScanAssumption, ScanInv, LoadTile PROVE ScanInv'
  <1>1. CASE Fail
    BY <1>1, FailKeepsScanInv
  <1>2. CASE ~Fail
    <2>1. PICK t \in MissingTiles :
              /\ pc = "Load"
              /\ tiles' = tiles \cup {t}
              /\ found' = found \cup {p \in world : TileOf(p) = t}
              /\ UNCHANGED <<world, edited, call, pc, seed, current, queue, connected, limited>>
      BY <1>2 DEF LoadTile
    <2>2. /\ ScanTypeOK /\ SettledIsSpread /\ LoadedIsFound /\ QueueIsFrontier /\ ScanStages
          /\ ComponentIsOneGroup
      BY DEF ScanInv
    <2>3. \A p, q : Near(p, q)' = Near(p, q)
      BY <2>1 DEF Near
    <2>4. \A p : TilesAround(p)' = TilesAround(p)
      BY <2>1 DEF TilesAround
    <2>5. ScanTypeOK'
      <3>1. t \in Position
        BY <2>1 DEF MissingTiles, TilesAround, Box, Position
      <3>2. queue \in Seq(found')
        BY <2>1, <2>2 DEF ScanTypeOK
      <3> QED BY <3>1, <3>2, <2>1, <2>2 DEF ScanTypeOK
    <2>6. SettledIsSpread'
      <3> SUFFICES ASSUME NEW p \in connected, Settled(p)
                   PROVE  /\ TilesAround(p) \subseteq tiles'
                          /\ \A q \in found' : Near(p, q) => q \in connected \cup ToSet(queue)
        BY <2>1, <2>3, <2>4 DEF SettledIsSpread, Settled
      <3>1. /\ TilesAround(p) \subseteq tiles
            /\ \A q \in found : Near(p, q) => q \in connected \cup ToSet(queue)
        BY <2>2 DEF SettledIsSpread
      <3>2. ASSUME NEW q \in world, TileOf(q) = t, Near(p, q) PROVE FALSE
        <4>1. p \in Position /\ q \in Position
          BY <2>2 DEF ScanTypeOK, ScanAssumption
        <4>2. TileOf(q) \in TilesAround(p)
          BY <4>1, <3>2, <2>2, NearIsInTiles DEF ScanTypeOK
        <4> QED BY <4>2, <3>1, <3>2, <2>1 DEF MissingTiles
      <3> QED BY <2>1, <3>1, <3>2
    <2>7. LoadedIsFound'
      BY <2>1, <2>2 DEF LoadedIsFound
    <2>8. QueueIsFrontier'
      BY <2>1, <2>2, <2>3 DEF QueueIsFrontier
    <2>9. ScanStages'
      BY <2>1, <2>2 DEF ScanStages
    <2>10. ComponentIsOneGroup'
      BY <2>1, <2>2, <2>3 DEF ComponentIsOneGroup
    <2> QED BY <2>5, <2>6, <2>7, <2>8, <2>9, <2>10 DEF ScanInv
  <1> QED BY <1>1, <1>2

\* Queueing the neighbours of the current position.
LEMMA SpreadKeepsScanInv == ASSUME ScanAssumption, ScanInv, Spread PROVE ScanInv'
  <1>1. /\ pc = "Load" /\ MissingTiles = {} /\ pc' = "Pop"
        /\ ScanTypeOK /\ SettledIsSpread /\ LoadedIsFound /\ QueueIsFrontier /\ ScanStages
        /\ ComponentIsOneGroup
        /\ UNCHANGED <<world, edited, call, seed, current, found, tiles, connected, limited>>
    BY DEF Spread, ScanInv
  <1>2. PICK order \in [1..Cardinality(NewNeighbours) -> NewNeighbours] :
            /\ ToSet(order) = NewNeighbours
            /\ \A i, j \in DOMAIN order : i < j => Before(order[i], order[j])
            /\ queue' = queue \o order
    BY DEF Spread
  <1>3. NewNeighbours \subseteq found /\ found \subseteq Position
    BY <1>1 DEF NewNeighbours, ScanTypeOK, ScanAssumption
  <1>4. order \in Seq(found) /\ DOMAIN order = 1..Len(order)
    <2>1. Cardinality(NewNeighbours) \in Nat
      <3>1. IsFiniteSet(NewNeighbours)
        BY <1>1, <1>3, FS_Subset DEF ScanTypeOK, ScanAssumption
      <3> QED BY <3>1, FS_CardinalityType
    <2> QED BY <2>1, <1>3
  <1>5. Distinct(order)
    <2>1. \A p \in Position : ~Before(p, p)
      BY DEF Before, Position
    <2>2. \A i \in 1..Len(order) : order[i] \in Position
      BY <1>3, <1>4
    <2> QED BY <1>2, <1>4, <2>1, <2>2 DEF Distinct
  <1>6. /\ queue' \in Seq(found) /\ Distinct(queue')
        /\ ToSet(queue') = ToSet(queue) \cup NewNeighbours
    <2>1. queue \in Seq(found) /\ Distinct(queue)
      BY <1>1 DEF ScanTypeOK, QueueIsFrontier
    <2>2. ToSet(queue) \cap ToSet(order) = {}
      BY <1>2 DEF NewNeighbours
    <2> QED BY <2>1, <2>2, <1>2, <1>4, <1>5, PuttingTogether
  <1>7. \A p, q : Near(p, q)' = Near(p, q)
    BY <1>1 DEF Near
  <1>8. ScanTypeOK'
    BY <1>1, <1>6 DEF ScanTypeOK
  <1>9. current \in connected
    BY <1>1 DEF ScanStages
  <1>10. SettledIsSpread'
    <2> SUFFICES ASSUME NEW p \in connected
                 PROVE  /\ TilesAround(p) \subseteq tiles
                        /\ \A q \in found : Near(p, q) => q \in connected \cup ToSet(queue')
      <3>1. \A p : TilesAround(p)' = TilesAround(p)
        BY <1>1 DEF TilesAround
      <3> QED BY <1>1, <1>7, <3>1 DEF SettledIsSpread
    <2>1. CASE p = current
      BY <2>1, <1>1, <1>6 DEF MissingTiles, NewNeighbours
    <2>2. CASE p # current
      BY <2>2, <1>1, <1>6 DEF SettledIsSpread, Settled
    <2> QED BY <2>1, <2>2
  <1>11. LoadedIsFound'
    BY <1>1 DEF LoadedIsFound
  <1>12. QueueIsFrontier'
    <2>1. ToSet(queue') \cap connected = {}
      BY <1>1, <1>6 DEF QueueIsFrontier, NewNeighbours
    <2>2. \A q \in ToSet(queue') : \E p \in connected : Near(p, q)
      BY <1>1, <1>6, <1>9 DEF QueueIsFrontier, NewNeighbours
    <2>3. seed \in connected
      BY <1>1, <1>9 DEF QueueIsFrontier
    <2> QED BY <1>1, <1>6, <1>7, <2>1, <2>2, <2>3 DEF QueueIsFrontier, Distinct
  <1>13. ScanStages'
    BY <1>1, <1>9 DEF ScanStages
  <1>14. ComponentIsOneGroup'
    BY <1>1, <1>7 DEF ComponentIsOneGroup
  <1> QED BY <1>8, <1>10, <1>11, <1>12, <1>13, <1>14 DEF ScanInv

\* The end of the loop.
LEMMA FinishKeepsScanInv == ASSUME ScanAssumption, ScanInv, Finish PROVE ScanInv'
  <1>1. /\ pc = "Pop" /\ pc' = "Done" /\ limited' = (queue # <<>>)
        /\ queue = <<>> \/ Cardinality(connected) = call.limit
        /\ ScanTypeOK /\ SettledIsSpread /\ LoadedIsFound /\ QueueIsFrontier /\ ScanStages
        /\ ComponentIsOneGroup
        /\ UNCHANGED <<world, edited, call, seed, current, found, tiles, queue, connected>>
    BY DEF Finish, Cut, ScanInv
  <1>2. \A p, q : Near(p, q)' = Near(p, q)
    BY <1>1 DEF Near
  <1>3. ScanTypeOK'
    BY <1>1 DEF ScanTypeOK
  <1>4. SettledIsSpread'
    BY <1>1, <1>2 DEF SettledIsSpread, Settled, TilesAround
  <1>5. LoadedIsFound' /\ QueueIsFrontier' /\ ComponentIsOneGroup'
    BY <1>1, <1>2 DEF LoadedIsFound, QueueIsFrontier, ComponentIsOneGroup
  <1>6. connected # {}
    <2> SUFFICES ASSUME connected = {} PROVE FALSE
      OBVIOUS
    <2>1. queue = <<seed>>
      BY <1>1 DEF ScanStages
    <2>2. Cardinality(connected) = 0
      BY FS_EmptySet
    <2>3. call.limit \in Nat \ {0}
      BY <1>1 DEF ScanTypeOK, ScanAssumption
    <2> QED BY <1>1, <2>1, <2>2, <2>3
  <1>7. ScanStages'
    BY <1>1, <1>6 DEF ScanStages
  <1> QED BY <1>3, <1>4, <1>5, <1>7 DEF ScanInv

\* A player's edit: what was touched is no longer asked for.
LEMMA EditKeepsScanInv == ASSUME ScanAssumption, ScanInv, Edit PROVE ScanInv'
  <1>1. PICK p \in Space \ edited :
            /\ edited' = edited \cup {p}
            /\ world' = IF p \in world THEN world \ {p} ELSE world \cup {p}
            /\ UNCHANGED <<call, pc, seed, current, found, tiles, queue, connected, limited>>
    BY DEF Edit
  <1>2. \A a, b : Near(a, b)' = Near(a, b)
    BY <1>1 DEF Near
  <1>3. ScanTypeOK'
    BY <1>1 DEF ScanInv, ScanTypeOK
  <1>4. LoadedIsFound'
    BY <1>1 DEF ScanInv, LoadedIsFound
  <1>5. SettledIsSpread' /\ QueueIsFrontier' /\ ScanStages' /\ ComponentIsOneGroup'
    BY <1>1, <1>2 DEF ScanInv, SettledIsSpread, Settled, TilesAround, QueueIsFrontier, ScanStages,
                      ComponentIsOneGroup
  <1> QED BY <1>3, <1>4, <1>5 DEF ScanInv

\* Every step keeps the invariant.
LEMMA ScanInvIsInductive == ASSUME ScanAssumption, ScanInv, [ScanNext]_scanVars PROVE ScanInv'
  <1>1. CASE UNCHANGED scanVars
    BY <1>1 DEF scanVars, ScanInv, ScanTypeOK, SettledIsSpread, Settled, TilesAround, Near, LoadedIsFound,
                QueueIsFrontier, ScanStages, ComponentIsOneGroup
  <1> QED BY <1>1, ScanSeedKeepsScanInv, PopKeepsScanInv, LoadTileKeepsScanInv, SpreadKeepsScanInv,
             FinishKeepsScanInv, EditKeepsScanInv DEF ScanNext, ScanStep

\* The invariant of the flood fill, in every state.
LEMMA ScanInvAlways == ScanSpec => []ScanInv
  BY InitScanInv, ScanInvIsInductive, ScanAssumption, PTL DEF ScanSpec

\* The call keeps its types; what it takes up it has seen.
THEOREM TypesHold == ScanSpec => []ScanTypeOK
  BY ScanInvAlways, PTL DEF ScanInv

\* A scan reported complete has the whole component, for every world, gap,
\* limit and size of the tiles, whatever players build meanwhile: the tiles
\* loaded around the component hold everything that may belong to it.
THEOREM CompleteScansAreComplete == ScanSpec => []FrontierIsExhausted
  <1>1. ScanInv => FrontierIsExhausted
    <2> SUFFICES ASSUME ScanInv, pc = "Done", ~limited,
                        NEW p \in connected, NEW q \in world \ edited, Near(p, q)
                 PROVE  q \in connected
      BY DEF FrontierIsExhausted
    <2>1. queue = <<>> /\ ToSet(queue) = {}
      BY DEF ScanInv, ScanStages, ToSet
    <2>2. p \in Position /\ q \in Position
      BY ScanAssumption DEF ScanInv, ScanTypeOK, ScanAssumption
    <2>3. TileOf(q) \in TilesAround(p)
      BY <2>2, ScanAssumption, NearIsInTiles DEF ScanInv, ScanTypeOK
    <2>4. /\ TilesAround(p) \subseteq tiles
          /\ \A r \in found : Near(p, r) => r \in connected \cup ToSet(queue)
      BY DEF ScanInv, SettledIsSpread, Settled
    <2>5. q \in found
      BY <2>3, <2>4 DEF ScanInv, LoadedIsFound
    <2> QED BY <2>1, <2>4, <2>5
  <1> QED BY <1>1, ScanInvAlways, PTL

\* What the fill takes up hangs together, from the seed on.
THEOREM ComponentsHangTogether == ScanSpec => []ComponentIsOneGroup
  BY ScanInvAlways, PTL DEF ScanInv

\* A scan is reported cut only when something known was left out.
THEOREM LimitsAreHonest == ScanSpec => []LimitIsHonest
  <1>1. ScanInv => LimitIsHonest
    <2> SUFFICES ASSUME ScanInv, pc = "Done", limited
                 PROVE  /\ Cardinality(connected) = call.limit
                        /\ \E p \in connected, q \in found \ connected : Near(p, q)
      BY DEF LimitIsHonest
    <2>1. queue # <<>> /\ connected # {} /\ queue \in Seq(found)
      BY DEF ScanInv, ScanStages, ScanTypeOK
    <2>2. Head(queue) \in found /\ Head(queue) \in ToSet(queue)
      BY <2>1, TakingTheHead
    <2> QED BY <2>1, <2>2 DEF ScanInv, ScanStages, QueueIsFrontier
  <1> QED BY <1>1, ScanInvAlways, PTL
=============================================================================
