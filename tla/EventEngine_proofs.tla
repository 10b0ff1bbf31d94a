--------------------------- MODULE EventEngine_proofs ---------------------------
(***************************************************************************)
(* Theorems about the event engine, for every world, handler and number of *)
(* ticks.  The inductive invariant keeps, for every tick, the sub-tick     *)
(* orders and ids of its queue increasing and below their counters, and    *)
(* every pending event after every popped one.                             *)
(***************************************************************************)
EXTENDS EventEngine, TLAPS

\* The queue of every tick is sorted, and the counters are above it.
QueueSorted ==
    \A t \in Ticks :
        /\ \A i \in DOMAIN queue[t] :
            /\ queue[t][i].tick = t
            /\ queue[t][i].sub < nextSub[t]
            /\ queue[t][i].id < nextId
        /\ \A i, j \in DOMAIN queue[t] : i < j =>
            /\ queue[t][i].sub < queue[t][j].sub
            /\ queue[t][i].id < queue[t][j].id

\* Popped events are in time order and below the counters.
PoppedSorted ==
    /\ \A i \in DOMAIN popped :
        /\ popped[i].id < nextId
        /\ popped[i].sub < nextSub[popped[i].tick]
    /\ \A i, j \in DOMAIN popped : i < j => Earlier(popped[i], popped[j])

\* Whatever is pending comes after whatever was popped.
PendingInFuture ==
    \A t \in Ticks : \A i \in DOMAIN queue[t] : \A j \in DOMAIN popped :
        Earlier(popped[j], queue[t][i])

\* An outcome is that of an event, popped below the limit.
OutcomeOfEvent ==
    outcome # NoOutcome => popped # <<>> /\ processed < MaxEvents

TimeInv == TypeOK /\ QueueSorted /\ PoppedSorted /\ PendingInFuture /\ OutcomeOfEvent

\* The next event is scheduled at the end of its tick's queue.
NewEvent(t, cause) == [id |-> nextId, tick |-> t, sub |-> nextSub[t], cause |-> cause]

\* A fresh engine satisfies the inductive invariant.
LEMMA InitTime == Init => TimeInv
  BY EngineAssumption DEF Init, TimeInv, TypeOK, QueueSorted, PoppedSorted, PendingInFuture, OutcomeOfEvent, Ticks

\* What Schedule does to the queues, element by element.
LEMMA Scheduled ==
  ASSUME TypeOK, NEW STATE t, t \in Ticks, NEW STATE cause, cause \in Nat \cup {External}, Schedule(t, cause)
  PROVE  /\ queue' \in [Ticks -> Seq(Event)]
         /\ nextId' = nextId + 1 /\ nextId' \in Nat
         /\ nextSub' \in [Ticks -> Nat]
         /\ nextSub'[t] = nextSub[t] + 1
         /\ \A u \in Ticks : u # t => queue'[u] = queue[u] /\ nextSub'[u] = nextSub[u]
         /\ DOMAIN queue'[t] = 1..(Len(queue[t]) + 1)
         /\ \A i \in DOMAIN queue[t] : i \in DOMAIN queue'[t] /\ queue'[t][i] = queue[t][i]
         /\ \A i \in DOMAIN queue'[t] : i \in DOMAIN queue[t] \/ i = Len(queue[t]) + 1
         /\ queue'[t][Len(queue[t]) + 1] = NewEvent(t, cause)
         /\ NewEvent(t, cause) \in Event
  <1>1. NewEvent(t, cause) \in Event
    BY DEF NewEvent, Event, TypeOK
  <1>2. queue[t] \in Seq(Event)
    BY DEF TypeOK
  <1>3. queue' = [queue EXCEPT ![t] = Append(@, NewEvent(t, cause))]
    BY DEF Schedule, NewEvent
  <1>4. queue' \in [Ticks -> Seq(Event)] /\ queue'[t] = Append(queue[t], NewEvent(t, cause))
    BY <1>1, <1>2, <1>3 DEF TypeOK
  <1>5. /\ nextId' = nextId + 1 /\ nextId' \in Nat
        /\ nextSub' \in [Ticks -> Nat]
        /\ nextSub'[t] = nextSub[t] + 1
        /\ \A u \in Ticks : u # t => queue'[u] = queue[u] /\ nextSub'[u] = nextSub[u]
    BY <1>3 DEF Schedule, TypeOK
  <1>6. /\ DOMAIN queue[t] = 1..Len(queue[t]) /\ Len(queue[t]) \in Nat
        /\ DOMAIN queue'[t] = 1..(Len(queue[t]) + 1)
        /\ \A i \in DOMAIN queue[t] : queue'[t][i] = queue[t][i]
        /\ queue'[t][Len(queue[t]) + 1] = NewEvent(t, cause)
    BY <1>1, <1>2, <1>4
  <1> QED BY <1>1, <1>4, <1>5, <1>6

\* The last popped event is the latest.
LEMMA CurrentIsLast ==
  ASSUME TypeOK, PoppedSorted, NEW j \in DOMAIN popped
  PROVE  /\ popped # <<>> /\ Current \in Event
         /\ Len(popped) \in DOMAIN popped
         /\ popped[j] = Current \/ Earlier(popped[j], Current)
  <1>1. DOMAIN popped = 1..Len(popped) /\ Len(popped) \in Nat /\ popped[Len(popped)] \in Event /\ popped # <<>>
    BY DEF TypeOK
  <1>2. j = Len(popped) \/ j < Len(popped)
    BY <1>1
  <1> QED BY <1>1, <1>2 DEF PoppedSorted, Current

\* A new event that is not before the current tick keeps the queues in order.
LEMMA ScheduleKeepsOrder ==
  ASSUME TypeOK, QueueSorted, PoppedSorted, PendingInFuture, UNCHANGED popped,
         NEW STATE t, t \in Ticks, NEW STATE cause, cause \in Nat \cup {External}, Schedule(t, cause),
         popped # <<>> => Current.tick <= t
  PROVE  QueueSorted' /\ PoppedSorted' /\ PendingInFuture'
  <1> DEFINE new == NewEvent(t, cause)
  <1>1. new.id = nextId /\ new.tick = t /\ new.sub = nextSub[t]
    BY DEF NewEvent
  <1>2. nextId \in Nat /\ nextSub \in [Ticks -> Nat] /\ queue \in [Ticks -> Seq(Event)] /\ popped \in Seq(Event)
    BY DEF TypeOK
  <1>3. \A u \in Ticks : nextSub[u] <= nextSub'[u]
    <2>1. /\ nextSub'[t] = nextSub[t] + 1
          /\ \A u \in Ticks : u # t => nextSub'[u] = nextSub[u]
      BY Scheduled
    <2>2. \A u \in Ticks : nextSub[u] \in Nat
      BY <1>2
    <2> QED BY <2>1, <2>2
  <1>10. QueueSorted'
    <2> SUFFICES ASSUME NEW u \in Ticks
                 PROVE  /\ \A i \in DOMAIN queue'[u] :
                            /\ queue'[u][i].tick = u
                            /\ queue'[u][i].sub < nextSub'[u]
                            /\ queue'[u][i].id < nextId'
                        /\ \A i, j \in DOMAIN queue'[u] : i < j =>
                            /\ queue'[u][i].sub < queue'[u][j].sub
                            /\ queue'[u][i].id < queue'[u][j].id
      BY DEF QueueSorted
    <2>0. /\ \A i \in DOMAIN queue[u] : queue[u][i] \in Event
          /\ DOMAIN queue[u] = 1..Len(queue[u]) /\ Len(queue[u]) \in Nat
      BY <1>2
    <2>1. \A i \in DOMAIN queue[u] : queue[u][i].sub \in Nat /\ queue[u][i].id \in Nat
      BY <2>0 DEF Event
    <2>2. CASE u # t
      <3>1. queue'[u] = queue[u] /\ nextSub'[u] = nextSub[u] /\ nextId' = nextId + 1
        BY <2>2, Scheduled
      <3> QED BY <3>1, <2>1, <1>2 DEF QueueSorted
    <2>3. CASE u = t
      <3>1. /\ DOMAIN queue'[t] = 1..(Len(queue[t]) + 1)
            /\ \A i \in DOMAIN queue[t] : queue'[t][i] = queue[t][i]
            /\ queue'[t][Len(queue[t]) + 1] = new
            /\ nextSub'[t] = nextSub[t] + 1 /\ nextId' = nextId + 1
        BY Scheduled
      <3>2. ASSUME NEW i \in DOMAIN queue[t]
            PROVE  queue[t][i].tick = t /\ queue[t][i].sub < nextSub[t] /\ queue[t][i].id < nextId
        BY DEF QueueSorted
      <3>3. \A i \in DOMAIN queue'[t] : i \in DOMAIN queue[t] \/ i = Len(queue[t]) + 1
        BY Scheduled
      <3>4. ASSUME NEW i \in DOMAIN queue'[t]
            PROVE  /\ queue'[t][i].tick = t
                   /\ queue'[t][i].sub < nextSub'[t]
                   /\ queue'[t][i].id < nextId'
        <4>1. nextSub[t] \in Nat
          BY <1>2
        <4>2. CASE i \in DOMAIN queue[t]
          BY <4>1, <4>2, <3>1, <3>2, <1>2, <2>1, <2>3
        <4>3. CASE i = Len(queue[t]) + 1
          BY <4>1, <4>3, <3>1, <1>1, <1>2
        <4> QED BY <4>2, <4>3, <3>3
      <3>5. ASSUME NEW i \in DOMAIN queue'[t], NEW j \in DOMAIN queue'[t], i < j
            PROVE  /\ queue'[t][i].sub < queue'[t][j].sub
                   /\ queue'[t][i].id < queue'[t][j].id
        <4>1. i \in DOMAIN queue[t]
          BY <3>5, <3>1, <2>0, <2>3
        <4>2. CASE j \in DOMAIN queue[t]
          BY <4>1, <4>2, <3>1, <3>5 DEF QueueSorted
        <4>3. CASE j = Len(queue[t]) + 1
          BY <4>1, <4>3, <3>1, <3>2, <1>1
        <4> QED BY <4>2, <4>3, <3>3
      <3> QED BY <2>3, <3>4, <3>5
    <2> QED BY <2>2, <2>3
  <1>11. PoppedSorted'
    <2>1. \A i \in DOMAIN popped : popped[i] \in Event
      BY <1>2
    <2>2. \A i \in DOMAIN popped : popped[i].tick \in Ticks /\ popped[i].sub \in Nat /\ popped[i].id \in Nat
      BY <2>1 DEF Event
    <2>3. nextId' = nextId + 1 /\ nextSub' \in [Ticks -> Nat]
      BY Scheduled
    <2> QED BY <2>2, <2>3, <1>2, <1>3 DEF PoppedSorted, Earlier
  <1>12. PendingInFuture'
    <2> SUFFICES ASSUME NEW u \in Ticks, NEW i \in DOMAIN queue'[u], NEW j \in DOMAIN popped
                 PROVE  Earlier(popped[j], queue'[u][i])
      BY DEF PendingInFuture, Earlier
    <2>1. CASE i \in DOMAIN queue[u] /\ queue'[u][i] = queue[u][i]
      BY <2>1 DEF PendingInFuture
    <2>2. CASE u = t /\ i = Len(queue[t]) + 1
      <3>1. queue'[u][i] = new
        BY <2>2, Scheduled
      <3>2. popped[j] \in Event /\ Current \in Event /\ (popped[j] = Current \/ Earlier(popped[j], Current)) /\ popped # <<>>
        BY <1>2, CurrentIsLast
      <3>3. popped[j].tick <= Current.tick /\ popped[j].tick \in Int /\ Current.tick \in Int /\ t \in Int
        BY <3>2, EngineAssumption DEF Earlier, Event, Ticks
      <3>4. popped[j].tick <= t
        BY <3>2, <3>3
      <3>5. popped[j].sub < nextSub[popped[j].tick]
        BY DEF PoppedSorted
      <3> QED BY <3>1, <3>3, <3>4, <3>5, <1>1 DEF Earlier
    <2> QED BY <2>1, <2>2, Scheduled
  <1> QED BY <1>10, <1>11, <1>12

\* Pop takes the head of the first non-empty tick.
LEMMA Popping ==
  ASSUME TypeOK, NEW STATE t, t \in Ticks, IsNextTick(t),
         queue' = [queue EXCEPT ![t] = Tail(@)], popped' = Append(popped, Head(queue[t]))
  PROVE  /\ queue' \in [Ticks -> Seq(Event)]
         /\ popped' \in Seq(Event)
         /\ Head(queue[t]) = queue[t][1] /\ 1 \in DOMAIN queue[t] /\ queue[t][1] \in Event
         /\ \A u \in Ticks : u # t => queue'[u] = queue[u]
         /\ \A i \in DOMAIN queue'[t] : i + 1 \in DOMAIN queue[t] /\ queue'[t][i] = queue[t][i + 1] /\ i >= 1
         /\ \A i \in DOMAIN queue[t] : i = 1 \/ (i - 1 \in DOMAIN queue'[t] /\ queue'[t][i - 1] = queue[t][i])
         /\ \A i \in DOMAIN popped : i \in DOMAIN popped' /\ popped'[i] = popped[i]
         /\ \A i \in DOMAIN popped' : i \in DOMAIN popped \/ i = Len(popped) + 1
         /\ popped'[Len(popped) + 1] = queue[t][1]
         /\ Len(popped') = Len(popped) + 1 /\ popped' # <<>>
         /\ DOMAIN popped = 1..Len(popped) /\ DOMAIN popped' = 1..(Len(popped) + 1)
  <1>1. queue[t] \in Seq(Event) /\ queue[t] # <<>> /\ popped \in Seq(Event) /\ queue \in [Ticks -> Seq(Event)]
    BY DEF TypeOK, IsNextTick
  <1>2. Tail(queue[t]) \in Seq(Event) /\ Head(queue[t]) = queue[t][1] /\ queue[t][1] \in Event /\ 1 \in DOMAIN queue[t]
    BY <1>1
  <1>3. queue' \in [Ticks -> Seq(Event)] /\ queue'[t] = Tail(queue[t]) /\ \A u \in Ticks : u # t => queue'[u] = queue[u]
    BY <1>1, <1>2
  <1>4. \A i \in DOMAIN Tail(queue[t]) : i + 1 \in DOMAIN queue[t] /\ Tail(queue[t])[i] = queue[t][i + 1] /\ i >= 1
    BY <1>1
  <1>5. \A i \in DOMAIN queue[t] : i = 1 \/ (i - 1 \in DOMAIN Tail(queue[t]) /\ Tail(queue[t])[i - 1] = queue[t][i])
    BY <1>1
  <1>6. /\ popped' \in Seq(Event)
        /\ \A i \in DOMAIN popped : i \in DOMAIN popped' /\ popped'[i] = popped[i]
        /\ \A i \in DOMAIN popped' : i \in DOMAIN popped \/ i = Len(popped) + 1
        /\ popped'[Len(popped) + 1] = queue[t][1]
        /\ Len(popped') = Len(popped) + 1 /\ popped' # <<>>
        /\ DOMAIN popped = 1..Len(popped) /\ DOMAIN popped' = 1..(Len(popped) + 1)
    BY <1>1, <1>2
  <1> QED BY <1>2, <1>3, <1>4, <1>5, <1>6

\* The head of the first tick is before everything else that is pending.
LEMMA HeadIsFirst ==
  ASSUME TypeOK, QueueSorted, NEW STATE t, t \in Ticks, IsNextTick(t),
         NEW u \in Ticks, NEW i \in DOMAIN queue[u]
  PROVE  \/ u = t /\ i = 1
         \/ /\ Earlier(queue[t][1], queue[u][i])
            /\ queue[t][1].tick < queue[u][i].tick
                \/ (queue[t][1].tick = queue[u][i].tick /\ queue[t][1].id < queue[u][i].id)
  <1>1. queue \in [Ticks -> Seq(Event)] /\ Ticks \subseteq Int
    BY EngineAssumption DEF TypeOK, Ticks
  <1>2. queue[t] \in Seq(Event) /\ queue[u] \in Seq(Event) /\ queue[t] # <<>> /\ queue[u] # <<>>
    BY <1>1 DEF IsNextTick
  <1>3. t <= u
    BY <1>1, <1>2 DEF IsNextTick
  <1>4. 1 \in DOMAIN queue[t] /\ DOMAIN queue[t] = 1..Len(queue[t]) /\ Len(queue[t]) \in Nat
    BY <1>2
  <1>5. queue[t][1].tick = t /\ queue[u][i].tick = u
    BY <1>4 DEF QueueSorted
  <1>6. CASE t = u /\ i # 1
    <2>1. 1 < i
      BY <1>4, <1>6
    <2> QED BY <2>1, <1>4, <1>5, <1>6 DEF QueueSorted, Earlier
  <1>7. CASE t < u
    BY <1>5, <1>7 DEF Earlier
  <1> QED BY <1>1, <1>3, <1>6, <1>7

\* Moving the head event to the popped ones keeps pending and popped in order.
LEMMA PopKeepsOrder ==
  ASSUME TypeOK, QueueSorted, PoppedSorted, PendingInFuture, Pop
  PROVE  QueueSorted' /\ PoppedSorted' /\ PendingInFuture' /\ popped' # <<>> /\ popped' \in Seq(Event) /\ queue' \in [Ticks -> Seq(Event)]
  <1>1. PICK t \in Ticks : /\ IsNextTick(t)
                           /\ popped' = Append(popped, Head(queue[t]))
                           /\ queue' = [queue EXCEPT ![t] = Tail(@)]
    BY DEF Pop
  <1>2. UNCHANGED <<nextId, nextSub>>
    BY DEF Pop
  <1>3. /\ queue' \in [Ticks -> Seq(Event)]
        /\ popped' \in Seq(Event)
        /\ 1 \in DOMAIN queue[t] /\ queue[t][1] \in Event
        /\ \A u \in Ticks : u # t => queue'[u] = queue[u]
        /\ \A i \in DOMAIN queue'[t] : i + 1 \in DOMAIN queue[t] /\ queue'[t][i] = queue[t][i + 1] /\ i >= 1
        /\ \A i \in DOMAIN popped : popped'[i] = popped[i]
        /\ \A i \in DOMAIN popped' : i \in DOMAIN popped \/ i = Len(popped) + 1
        /\ popped'[Len(popped) + 1] = queue[t][1]
        /\ popped' # <<>>
        /\ DOMAIN popped = 1..Len(popped)
    BY <1>1, Popping
  <1>4. Len(popped) \in Nat /\ \A u \in Ticks : DOMAIN queue'[u] \subseteq Nat
    BY <1>3 DEF TypeOK
  <1>5. QueueSorted'
    <2> SUFFICES ASSUME NEW u \in Ticks
                 PROVE  /\ \A i \in DOMAIN queue'[u] :
                            /\ queue'[u][i].tick = u
                            /\ queue'[u][i].sub < nextSub[u]
                            /\ queue'[u][i].id < nextId
                        /\ \A i, j \in DOMAIN queue'[u] : i < j =>
                            /\ queue'[u][i].sub < queue'[u][j].sub
                            /\ queue'[u][i].id < queue'[u][j].id
      BY <1>2 DEF QueueSorted
    <2>1. CASE u # t
      BY <2>1, <1>3 DEF QueueSorted
    <2>2. CASE u = t
      <3>1. \A i \in DOMAIN queue'[t] :
              /\ queue'[t][i].tick = t
              /\ queue'[t][i].sub < nextSub[t]
              /\ queue'[t][i].id < nextId
        BY <1>3 DEF QueueSorted
      <3>2. \A i, j \in DOMAIN queue'[t] : i < j =>
              /\ queue'[t][i].sub < queue'[t][j].sub
              /\ queue'[t][i].id < queue'[t][j].id
        BY <1>3, <1>4 DEF QueueSorted
      <3> QED BY <2>2, <3>1, <3>2
    <2> QED BY <2>1, <2>2
  <1>6. PoppedSorted'
    <2>1. ASSUME NEW i \in DOMAIN popped'
          PROVE  popped'[i].id < nextId' /\ popped'[i].sub < nextSub'[popped'[i].tick]
      <3>1. CASE i \in DOMAIN popped
        BY <3>1, <1>2, <1>3 DEF PoppedSorted
      <3>2. CASE i = Len(popped) + 1
        BY <3>2, <1>2, <1>3 DEF QueueSorted
      <3> QED BY <3>1, <3>2, <1>3
    <2>2. ASSUME NEW i \in DOMAIN popped', NEW j \in DOMAIN popped', i < j
          PROVE  Earlier(popped'[i], popped'[j])
      <3>1. i \in DOMAIN popped
        BY <2>2, <1>3, <1>4
      <3>2. CASE j \in DOMAIN popped
        BY <3>1, <3>2, <2>2, <1>3 DEF PoppedSorted
      <3>3. CASE j = Len(popped) + 1
        BY <3>1, <3>3, <1>3 DEF PendingInFuture
      <3> QED BY <3>2, <3>3, <1>3
    <2>3. \A i, j \in DOMAIN popped' : i < j => Earlier(popped'[i], popped'[j])
      BY <2>2
    <2> QED BY <2>1, <2>3 DEF PoppedSorted, Earlier
  <1>7. PendingInFuture'
    <2> SUFFICES ASSUME NEW u \in Ticks, NEW i \in DOMAIN queue'[u], NEW j \in DOMAIN popped'
                 PROVE  Earlier(popped'[j], queue'[u][i])
      BY DEF PendingInFuture, Earlier
    <2>1. PICK k \in DOMAIN queue[u] : queue'[u][i] = queue[u][k] /\ (u = t => k # 1)
      <3>1. CASE u = t
        BY <3>1, <1>3
      <3>2. CASE u # t
        BY <3>2, <1>3
      <3> QED BY <3>1, <3>2
    <2>2. CASE j \in DOMAIN popped
      BY <2>1, <2>2, <1>3 DEF PendingInFuture
    <2>3. CASE j = Len(popped) + 1
      BY <2>1, <2>3, <1>1, <1>3, HeadIsFirst
    <2> QED BY <2>2, <2>3, <1>3
  <1> QED BY <1>3, <1>5, <1>6, <1>7

\* A delay never leads to an earlier tick nor beyond the last one.
LEMMA AddForward ==
  ASSUME NEW STATE tick, tick \in Ticks, NEW STATE delay, delay \in Nat
  PROVE  SaturatingAdd(tick, delay) \in Ticks /\ tick <= SaturatingAdd(tick, delay)
  BY EngineAssumption DEF SaturatingAdd, Ticks

\* Steps that leave queues and popped events alone keep them in order.
LEMMA SameOrder ==
  ASSUME QueueSorted, PoppedSorted, PendingInFuture, UNCHANGED <<queue, nextId, nextSub, popped>>
  PROVE  QueueSorted' /\ PoppedSorted' /\ PendingInFuture'
  <1>1. QueueSorted'
    BY DEF QueueSorted
  <1>2. PoppedSorted'
    BY DEF PoppedSorted, Earlier
  <1>3. PendingInFuture'
    BY DEF PendingInFuture, Earlier
  <1> QED BY <1>1, <1>2, <1>3

\* Every step of the engine keeps the inductive invariant.
LEMMA NextTime == TimeInv /\ [Next]_vars => TimeInv'
  <1> SUFFICES ASSUME TimeInv, [Next]_vars PROVE TimeInv'
    OBVIOUS
  <1> USE EngineAssumption
  <1>0. TypeOK /\ QueueSorted /\ PoppedSorted /\ PendingInFuture /\ OutcomeOfEvent
    BY DEF TimeInv
  <1>1. ASSUME NEW t \in Ticks, ScheduleExternal(t) PROVE TimeInv'
    <2> DEFINE u == IF t < CurrentTick THEN CurrentTick ELSE t
    <2>1. u \in Ticks /\ (popped # <<>> => Current.tick <= u)
      <3>1. CASE popped = <<>>
        BY <3>1 DEF CurrentTick, Ticks
      <3>2. CASE popped # <<>>
        <4>1. Current \in Event
          BY <3>2, <1>0 DEF TypeOK, Current
        <4>2. Current.tick \in Ticks
          BY <4>1 DEF Event
        <4> QED BY <3>2, <4>2 DEF CurrentTick, Ticks
      <3> QED BY <3>1, <3>2
    <2>2. Schedule(u, External) /\ UNCHANGED <<world, trace, processed, outcome, running, popped>>
      BY <1>1 DEF ScheduleExternal
    <2> HIDE DEF u
    <2>3. QueueSorted' /\ PoppedSorted' /\ PendingInFuture'
      BY <1>0, <2>1, <2>2, ScheduleKeepsOrder
    <2>4. queue' \in [Ticks -> Seq(Event)] /\ nextId' \in Nat /\ nextSub' \in [Ticks -> Nat]
      BY <1>0, <2>1, <2>2, Scheduled
    <2>5. external' \in 0..MaxExternal
      BY <1>0, <1>1 DEF ScheduleExternal, TypeOK
    <2>6. TypeOK'
      BY <1>0, <2>2, <2>4, <2>5 DEF TypeOK
    <2>7. OutcomeOfEvent'
      BY <1>0, <2>2 DEF OutcomeOfEvent
    <2> QED BY <2>3, <2>6, <2>7 DEF TimeInv
  <1>2. CASE Run
    <2>1. QueueSorted' /\ PoppedSorted' /\ PendingInFuture'
      BY <1>0, <1>2, SameOrder DEF Run
    <2>2. TypeOK' /\ OutcomeOfEvent'
      BY <1>0, <1>2 DEF Run, TypeOK, OutcomeOfEvent
    <2> QED BY <2>1, <2>2 DEF TimeInv
  <1>3. CASE Return
    <2>1. QueueSorted' /\ PoppedSorted' /\ PendingInFuture'
      BY <1>0, <1>3, SameOrder DEF Return
    <2>2. TypeOK' /\ OutcomeOfEvent'
      BY <1>0, <1>3 DEF Return, TypeOK, OutcomeOfEvent
    <2> QED BY <2>1, <2>2 DEF TimeInv
  <1>4. CASE Pop
    <2>1. QueueSorted' /\ PoppedSorted' /\ PendingInFuture' /\ popped' # <<>> /\ popped' \in Seq(Event) /\ queue' \in [Ticks -> Seq(Event)]
      BY <1>0, <1>4, PopKeepsOrder
    <2>2. processed < MaxEvents /\ outcome' \in Outcomes /\ UNCHANGED <<world, nextId, nextSub, trace, processed, running, external>>
      BY <1>4 DEF Pop
    <2>3. TypeOK'
      BY <1>0, <2>1, <2>2 DEF TypeOK
    <2> QED BY <2>1, <2>2, <2>3 DEF TimeInv, OutcomeOfEvent
  <1>5. CASE ApplyChange
    <2>1. UNCHANGED <<queue, nextId, nextSub, processed, running, popped, external>> /\ outcome # NoOutcome /\ outcome.changes # <<>>
      BY <1>5 DEF ApplyChange
    <2>2. outcome \in Outcome /\ Head(outcome.changes) \in Change /\ Tail(outcome.changes) \in Seq(Change)
      BY <1>0, <2>1 DEF TypeOK, Outcome
    <2>3. outcome' \in Outcome
      BY <2>2, <1>5 DEF ApplyChange, Outcome
    <2>4. Current \in Event
      BY <1>0, <2>1 DEF TypeOK, OutcomeOfEvent, Current
    <2>5. world' \in [Positions -> Blocks]
      BY <1>0, <2>2, <1>5 DEF ApplyChange, Change, TypeOK
    <2>6. trace' \in Seq(Transition)
      <3>1. [tick |-> Current.tick, sub |-> Current.sub,
             position |-> Head(outcome.changes).position, before |-> world[Head(outcome.changes).position],
             after |-> Head(outcome.changes).after, cause |-> Current.id] \in Transition
        BY <1>0, <2>2, <2>4 DEF Transition, Event, Change, TypeOK
      <3> QED BY <1>0, <3>1, <1>5 DEF ApplyChange, TypeOK
    <2>7. TypeOK'
      BY <1>0, <2>1, <2>3, <2>5, <2>6 DEF TypeOK
    <2>8. QueueSorted' /\ PoppedSorted' /\ PendingInFuture'
      BY <1>0, <2>1, SameOrder
    <2>9. OutcomeOfEvent'
      BY <1>0, <2>1 DEF OutcomeOfEvent
    <2> QED BY <2>7, <2>8, <2>9 DEF TimeInv
  <1>6. CASE QueueNext
    <2> DEFINE u == SaturatingAdd(Current.tick, Head(outcome.queued))
    <2>0. outcome \in Outcome /\ outcome # NoOutcome /\ outcome.queued # <<>>
      BY <1>0, <1>6 DEF QueueNext, TypeOK
    <2>01. outcome.queued \in Seq(Nat)
      BY <2>0 DEF Outcome
    <2>1. outcome \in Outcome /\ Head(outcome.queued) \in Nat /\ Tail(outcome.queued) \in Seq(Nat) /\ popped # <<>>
      BY <1>0, <2>0, <2>01 DEF OutcomeOfEvent
    <2>2. Current \in Event
      BY <1>0, <2>1 DEF TypeOK, Current
    <2>3. Current.tick \in Ticks /\ Current.id \in Nat
      BY <2>2 DEF Event
    <2>4. u \in Ticks /\ Current.tick <= u
      BY <2>1, <2>3, AddForward
    <2>5. Schedule(u, Current.id) /\ UNCHANGED <<world, trace, processed, running, popped, external>>
      BY <1>6 DEF QueueNext
    <2> HIDE DEF u
    <2>6. Current.id \in Nat \cup {External}
      BY <2>3
    <2>7. QueueSorted' /\ PoppedSorted' /\ PendingInFuture'
      BY <1>0, <2>4, <2>5, <2>6, ScheduleKeepsOrder
    <2>8. queue' \in [Ticks -> Seq(Event)] /\ nextId' \in Nat /\ nextSub' \in [Ticks -> Nat]
      BY <1>0, <2>4, <2>5, <2>6, Scheduled
    <2>9. outcome' \in Outcome
      BY <2>1, <1>6 DEF QueueNext, Outcome
    <2>10. TypeOK'
      BY <1>0, <2>5, <2>8, <2>9 DEF TypeOK
    <2> QED BY <1>0, <2>1, <2>5, <2>7, <2>10, <1>6 DEF TimeInv, OutcomeOfEvent, QueueNext
  <1>7. CASE CountEvent
    <2>1. processed' \in 0..MaxEvents
      BY <1>0, <1>7 DEF CountEvent, TypeOK, OutcomeOfEvent
    <2>2. QueueSorted' /\ PoppedSorted' /\ PendingInFuture'
      BY <1>0, <1>7, SameOrder DEF CountEvent
    <2>3. TypeOK' /\ OutcomeOfEvent'
      BY <1>0, <1>7, <2>1 DEF CountEvent, TypeOK, OutcomeOfEvent
    <2> QED BY <2>2, <2>3 DEF TimeInv
  <1>8. CASE UNCHANGED vars
    <2>1. QueueSorted' /\ PoppedSorted' /\ PendingInFuture'
      BY <1>0, <1>8, SameOrder DEF vars
    <2>2. TypeOK' /\ OutcomeOfEvent'
      BY <1>0, <1>8 DEF vars, TypeOK, OutcomeOfEvent
    <2> QED BY <2>1, <2>2 DEF TimeInv
  <1> QED BY <1>1, <1>2, <1>3, <1>4, <1>5, <1>6, <1>7, <1>8 DEF Next, Loop

\* Types are kept by every step (TypeOK of the events run).
THEOREM TypeCorrect == Spec => []TypeOK
  <1>1. TimeInv => TypeOK
    BY DEF TimeInv
  <1> QED BY <1>1, InitTime, NextTime, PTL DEF Spec

\* No two events share a place in time, pending or popped.
THEOREM TimesAreUniqueAlways == Spec => []TimesAreUnique
  <1>1. ASSUME TimeInv PROVE TimesAreUnique
    <2> USE <1>1 DEF TimeInv
    <2>0. /\ \A t \in Ticks : queue[t] \in Seq(Event)
          /\ popped \in Seq(Event) /\ Ticks \subseteq Int
      BY EngineAssumption DEF TypeOK, Ticks
    <2>a. \A t \in Ticks : \A i \in DOMAIN queue[t] : i \in Int /\ queue[t][i] \in Event
      BY <2>0
    <2>b. \A i \in DOMAIN popped : i \in Int /\ popped[i] \in Event
      BY <2>0
    <2>c. ASSUME NEW e \in Event PROVE e.sub \in Int /\ e.tick \in Int
      <3>1. e.sub \in Nat /\ e.tick \in Ticks
        BY DEF Event
      <3>2. e.tick \in Int
        BY <3>1, EngineAssumption DEF Ticks
      <3> QED BY <3>1, <3>2
    <2> DEFINE Same(e, f) == e.tick = f.tick /\ e.sub = f.sub
    <2>1. ASSUME NEW t \in Ticks, NEW i \in DOMAIN queue[t], NEW u \in Ticks, NEW j \in DOMAIN queue[u],
                 Same(queue[t][i], queue[u][j])
          PROVE  queue[t][i] = queue[u][j]
      <3>1. t = u
        BY <2>1 DEF QueueSorted
      <3>2. i \in Int /\ j \in Int /\ queue[t][i].sub \in Int /\ queue[t][j].sub \in Int
        BY <2>a, <2>c, <2>1, <3>1
      <3>3. ~(i < j) /\ ~(j < i)
        BY <2>1, <3>1, <3>2 DEF QueueSorted
      <3> QED BY <3>1, <3>2, <3>3
    <2>2. ASSUME NEW t \in Ticks, NEW i \in DOMAIN queue[t], NEW j \in DOMAIN popped
          PROVE  ~Same(popped[j], queue[t][i])
      <3>1. popped[j].sub \in Int /\ popped[j].tick \in Int /\ Earlier(popped[j], queue[t][i])
        BY <2>b, <2>c DEF PendingInFuture
      <3> QED BY <3>1 DEF Earlier
    <2>3. ASSUME NEW i \in DOMAIN popped, NEW j \in DOMAIN popped, Same(popped[i], popped[j])
          PROVE  popped[i] = popped[j]
      <3>1. /\ i \in Int /\ j \in Int
            /\ popped[i].sub \in Int /\ popped[i].tick \in Int
            /\ popped[j].sub \in Int /\ popped[j].tick \in Int
        BY <2>b, <2>c
      <3>2. ~(i < j) /\ ~(j < i)
        BY <2>3, <3>1 DEF PoppedSorted, Earlier
      <3> QED BY <3>1, <3>2
    <2>4. /\ \A e \in Pending : \E t \in Ticks : \E i \in DOMAIN queue[t] : e = queue[t][i]
          /\ \A e \in Popped : \E i \in DOMAIN popped : e = popped[i]
      BY DEF Pending, Popped
    <2> QED BY <2>1, <2>2, <2>3, <2>4 DEF TimesAreUnique
  <1> QED BY <1>1, InitTime, NextTime, PTL DEF Spec

\* The cause of a new event was popped before it.
LEMMA ScheduleKeepsCauses ==
  ASSUME TypeOK, QueueSorted, PoppedSorted, CauseBeforeEffect, UNCHANGED popped,
         NEW STATE t, t \in Ticks, NEW STATE cause, cause \in Nat \cup {External}, Schedule(t, cause),
         cause # External => /\ \E j \in DOMAIN popped : popped[j] = Current
                             /\ Current.id = cause /\ Current.tick <= t
  PROVE  CauseBeforeEffect'
  <1> DEFINE new == NewEvent(t, cause)
  <1>1. new.id = nextId /\ new.tick = t /\ new.sub = nextSub[t] /\ new.cause = cause
    BY DEF NewEvent
  <1>2. Pending' \subseteq Pending \cup {new}
    <2> SUFFICES ASSUME NEW u \in Ticks, NEW i \in DOMAIN queue'[u]
                 PROVE  queue'[u][i] \in Pending \cup {new}
      BY DEF Pending
    <2>1. CASE i \in DOMAIN queue[u] /\ queue'[u][i] = queue[u][i]
      BY <2>1 DEF Pending
    <2>2. CASE u = t /\ i = Len(queue[t]) + 1
      BY <2>2, Scheduled
    <2> QED BY <2>1, <2>2, Scheduled
  <1>3. Popped' = Popped
    BY DEF Popped
  <1>4. cause # External => Current \in Popped /\ Current.id < new.id /\ Earlier(Current, new)
    <2> SUFFICES ASSUME cause # External
                 PROVE  Current \in Popped /\ Current.id < new.id /\ Earlier(Current, new)
      OBVIOUS
    <2>1. PICK j \in DOMAIN popped : popped[j] = Current
      OBVIOUS
    <2>2. Current.id < nextId /\ Current.sub < nextSub[Current.tick]
      BY <2>1 DEF PoppedSorted
    <2>3. Current \in Event
      BY <2>1 DEF TypeOK
    <2>4. Current.tick \in Int /\ t \in Int /\ Current.tick <= t
      BY <2>3, EngineAssumption DEF Event, Ticks
    <2> QED BY <2>1, <2>2, <2>4, <1>1 DEF Popped, Earlier
  <1> SUFFICES ASSUME NEW e \in Pending' \cup Popped', e.cause # External
               PROVE  \E c \in Popped' : c.id = e.cause /\ c.id < e.id /\ Earlier(c, e)
    BY DEF CauseBeforeEffect, Earlier
  <1>5. CASE e \in Pending \cup Popped
    BY <1>3, <1>5 DEF CauseBeforeEffect
  <1>6. CASE e = new
    BY <1>1, <1>3, <1>4, <1>6
  <1> HIDE DEF new
  <1> QED BY <1>2, <1>3, <1>5, <1>6

\* Popping moves an event and forgets none.
LEMMA PopMoves ==
  ASSUME TypeOK, Pop
  PROVE  Pending' \cup Popped' \subseteq Pending \cup Popped /\ Popped \subseteq Popped'
  <1>1. PICK t \in Ticks : /\ IsNextTick(t)
                           /\ popped' = Append(popped, Head(queue[t]))
                           /\ queue' = [queue EXCEPT ![t] = Tail(@)]
    BY DEF Pop
  <1>2. /\ 1 \in DOMAIN queue[t]
        /\ \A u \in Ticks : u # t => queue'[u] = queue[u]
        /\ \A i \in DOMAIN queue'[t] : i + 1 \in DOMAIN queue[t] /\ queue'[t][i] = queue[t][i + 1]
        /\ \A i \in DOMAIN popped : i \in DOMAIN popped' /\ popped'[i] = popped[i]
        /\ \A i \in DOMAIN popped' : i \in DOMAIN popped \/ i = Len(popped) + 1
        /\ popped'[Len(popped) + 1] = queue[t][1]
    BY <1>1, Popping
  <1>3. \A u \in Ticks : \A i \in DOMAIN queue[u] : queue[u][i] \in Pending
    BY DEF Pending
  <1>4. \A u \in Ticks : \A i \in DOMAIN queue'[u] : queue'[u][i] \in Pending
    <2> SUFFICES ASSUME NEW u \in Ticks, NEW i \in DOMAIN queue'[u] PROVE queue'[u][i] \in Pending
      OBVIOUS
    <2>1. CASE u = t
      BY <2>1, <1>2, <1>3
    <2>2. CASE u # t
      BY <2>2, <1>2, <1>3
    <2> QED BY <2>1, <2>2
  <1>5. Pending' \subseteq Pending
    BY <1>4 DEF Pending
  <1>6. Popped' \subseteq Pending \cup Popped
    <2> SUFFICES ASSUME NEW i \in DOMAIN popped' PROVE popped'[i] \in Pending \cup Popped
      BY DEF Popped
    <2>1. CASE i \in DOMAIN popped
      BY <2>1, <1>2 DEF Popped
    <2>2. CASE i = Len(popped) + 1
      BY <2>2, <1>2, <1>3
    <2> QED BY <2>1, <2>2, <1>2
  <1>7. Popped \subseteq Popped'
    BY <1>2 DEF Popped
  <1> QED BY <1>5, <1>6, <1>7

\* Every step keeps causes before their effects.
LEMMA NextCauses == TimeInv /\ CauseBeforeEffect /\ [Next]_vars => CauseBeforeEffect'
  <1> SUFFICES ASSUME TimeInv, CauseBeforeEffect, [Next]_vars PROVE CauseBeforeEffect'
    OBVIOUS
  <1>0. TypeOK /\ QueueSorted /\ PoppedSorted /\ PendingInFuture /\ OutcomeOfEvent
    BY DEF TimeInv
  <1>1. ASSUME NEW t \in Ticks, ScheduleExternal(t) PROVE CauseBeforeEffect'
    <2> DEFINE u == IF t < CurrentTick THEN CurrentTick ELSE t
    <2>1. u \in Ticks
      <3>1. CASE popped = <<>>
        BY <3>1, EngineAssumption DEF CurrentTick, Ticks
      <3>2. CASE popped # <<>>
        <4>1. Current \in Event
          BY <3>2, <1>0 DEF TypeOK, Current
        <4>2. Current.tick \in Ticks
          BY <4>1 DEF Event
        <4> QED BY <3>2, <4>2 DEF CurrentTick
      <3> QED BY <3>1, <3>2
    <2>2. Schedule(u, External) /\ UNCHANGED popped
      BY <1>1 DEF ScheduleExternal
    <2> HIDE DEF u
    <2> QED BY <1>0, <2>1, <2>2, ScheduleKeepsCauses
  <1>2. CASE QueueNext
    <2> DEFINE u == SaturatingAdd(Current.tick, Head(outcome.queued))
    <2>0. outcome \in Outcome /\ outcome # NoOutcome /\ outcome.queued # <<>>
      BY <1>0, <1>2 DEF QueueNext, TypeOK
    <2>1. outcome.queued \in Seq(Nat)
      BY <2>0 DEF Outcome
    <2>2. Head(outcome.queued) \in Nat /\ popped # <<>>
      BY <1>0, <2>0, <2>1 DEF OutcomeOfEvent
    <2>3. Current \in Event /\ \E j \in DOMAIN popped : popped[j] = Current
      BY <1>0, <2>2 DEF TypeOK, Current
    <2>4. Current.tick \in Ticks /\ Current.id \in Nat
      BY <2>3 DEF Event
    <2>5. u \in Ticks /\ Current.tick <= u
      BY <2>2, <2>4, AddForward
    <2>6. Schedule(u, Current.id) /\ UNCHANGED popped
      BY <1>2 DEF QueueNext
    <2> HIDE DEF u
    <2> QED BY <1>0, <2>3, <2>4, <2>5, <2>6, ScheduleKeepsCauses
  <1>3. CASE Pop
    <2>1. Pending' \cup Popped' \subseteq Pending \cup Popped /\ Popped \subseteq Popped'
      BY <1>0, <1>3, PopMoves
    <2> QED BY <2>1 DEF CauseBeforeEffect, Earlier
  <1>4. CASE UNCHANGED <<queue, popped>>
    <2>1. Pending' = Pending /\ Popped' = Popped
      BY <1>4 DEF Pending, Popped
    <2> QED BY <2>1 DEF CauseBeforeEffect, Earlier
  <1> QED BY <1>1, <1>2, <1>3, <1>4 DEF Next, Loop, Run, Return, ApplyChange, CountEvent, vars

\* Whatever an event causes comes after it, for every handler.
THEOREM CauseBeforeEffectAlways == Spec => []CauseBeforeEffect
  <1>1. Init => CauseBeforeEffect
    BY DEF Init, CauseBeforeEffect, Pending, Popped
  <1> QED BY <1>1, InitTime, NextTime, NextCauses, PTL DEF Spec

\* The transition a change leaves, and what is so of the trace with it.
NewTransition ==
    [tick |-> Current.tick, sub |-> Current.sub,
     position |-> Head(outcome.changes).position, before |-> world[Head(outcome.changes).position],
     after |-> Head(outcome.changes).after, cause |-> Current.id]

\* A traced change is one more entry of the trace, caused by the current event.
LEMMA Changing ==
  ASSUME TypeOK, OutcomeOfEvent, ApplyChange
  PROVE  /\ Current \in Event /\ Len(popped) \in DOMAIN popped
         /\ NewTransition \in Transition
         /\ Head(outcome.changes) \in Change
         /\ world' = [world EXCEPT ![Head(outcome.changes).position] = Head(outcome.changes).after]
         /\ \/ trace' = trace /\ NewTransition.before = NewTransition.after
            \/ trace' = Append(trace, NewTransition) /\ NewTransition.before # NewTransition.after
         /\ UNCHANGED <<queue, popped>>
  <1>1. UNCHANGED <<queue, popped>> /\ outcome # NoOutcome /\ outcome.changes # <<>>
    BY DEF ApplyChange
  <1>2. outcome \in Outcome
    BY <1>1 DEF TypeOK
  <1>3. Head(outcome.changes) \in Change
    BY <1>1, <1>2 DEF Outcome
  <1>4. Current \in Event /\ Len(popped) \in DOMAIN popped
    BY <1>1 DEF TypeOK, OutcomeOfEvent, Current
  <1>5. NewTransition \in Transition
    BY <1>3, <1>4 DEF NewTransition, Transition, Event, Change, TypeOK
  <1>6. /\ world' = [world EXCEPT ![Head(outcome.changes).position] = Head(outcome.changes).after]
        /\ trace' = IF NewTransition.before = NewTransition.after THEN trace ELSE Append(trace, NewTransition)
    BY DEF ApplyChange, NewTransition
  <1> QED BY <1>1, <1>3, <1>4, <1>5, <1>6

\* Every step keeps the trace in the order of its causes.
LEMMA NextCausal == TimeInv /\ TraceIsCausal /\ [Next]_vars => TraceIsCausal'
  <1> SUFFICES ASSUME TimeInv, TraceIsCausal, [Next]_vars PROVE TraceIsCausal'
    OBVIOUS
  <1>0. TypeOK /\ QueueSorted /\ PoppedSorted /\ PendingInFuture /\ OutcomeOfEvent
    BY DEF TimeInv
  <1>1. CASE UNCHANGED trace /\ Popped \subseteq Popped'
    BY <1>1 DEF TraceIsCausal, Earlier
  <1>2. CASE ApplyChange
    <2>1. /\ Current \in Event /\ Len(popped) \in DOMAIN popped
          /\ NewTransition \in Transition
          /\ trace' = trace \/ trace' = Append(trace, NewTransition)
          /\ UNCHANGED <<queue, popped>>
      BY <1>0, <1>2, Changing
    <2>2. Popped' = Popped /\ Current \in Popped
      BY <2>1 DEF Popped, Current
    <2>3. CASE trace' = Append(trace, NewTransition)
      <3>0. trace \in Seq(Transition)
        BY <1>0 DEF TypeOK
      <3>1. /\ DOMAIN trace = 1..Len(trace) /\ Len(trace) \in Nat
            /\ DOMAIN trace' = 1..(Len(trace) + 1)
            /\ \A i \in DOMAIN trace : trace'[i] = trace[i]
            /\ trace'[Len(trace) + 1] = NewTransition
        BY <2>1, <2>3, <3>0
      <3>2. NewTransition.tick = Current.tick /\ NewTransition.sub = Current.sub /\ NewTransition.cause = Current.id
        BY DEF NewTransition
      <3>3. ASSUME NEW i \in DOMAIN trace PROVE ~Earlier(NewTransition, trace[i])
        <4>1. PICK k \in DOMAIN popped : popped[k].tick = trace[i].tick /\ popped[k].sub = trace[i].sub
          BY DEF TraceIsCausal, Popped
        <4>2. popped[k] = Current \/ Earlier(popped[k], Current)
          BY <1>0, CurrentIsLast
        <4>3. popped[k] \in Event
          BY <1>0 DEF TypeOK
        <4>4. /\ popped[k].tick \in Int /\ popped[k].sub \in Int
              /\ Current.tick \in Int /\ Current.sub \in Int
          BY <2>1, <4>3, EngineAssumption DEF Event, Ticks
        <4> QED BY <3>2, <4>1, <4>2, <4>4 DEF Earlier
      <3>4. ASSUME NEW i \in DOMAIN trace', NEW j \in DOMAIN trace', i < j
            PROVE  ~Earlier(trace'[j], trace'[i])
        <4>1. i \in DOMAIN trace
          BY <3>1, <3>4
        <4>2. CASE j \in DOMAIN trace
          BY <3>1, <3>4, <4>1, <4>2 DEF TraceIsCausal
        <4>3. CASE j = Len(trace) + 1
          BY <3>1, <3>3, <4>1, <4>3
        <4> QED BY <3>1, <4>2, <4>3
      <3>5. ASSUME NEW i \in DOMAIN trace'
            PROVE  \E c \in Popped' : c.id = trace'[i].cause /\ c.tick = trace'[i].tick /\ c.sub = trace'[i].sub
        <4>1. CASE i \in DOMAIN trace
          BY <2>2, <3>1, <4>1 DEF TraceIsCausal
        <4>2. CASE i = Len(trace) + 1
          BY <2>2, <3>1, <3>2, <4>2
        <4> QED BY <3>1, <4>1, <4>2
      <3>6. \A i, j \in DOMAIN trace' : i < j => ~Earlier(trace'[j], trace'[i])
        BY <3>4
      <3> QED BY <3>5, <3>6 DEF TraceIsCausal, Earlier
    <2> QED BY <1>1, <2>1, <2>2, <2>3
  <1>3. CASE Pop
    BY <1>0, <1>1, <1>3, PopMoves DEF Pop
  <1>4. UNCHANGED popped => Popped' = Popped
    BY DEF Popped
  <1> QED BY <1>1, <1>2, <1>3, <1>4 DEF Next, Loop, Run, Return, QueueNext, CountEvent, ScheduleExternal, vars

\* The trace is in time order and names its causes.
THEOREM TraceIsCausalAlways == Spec => []TraceIsCausal
  <1>1. Init => TraceIsCausal
    BY DEF Init, TraceIsCausal
  <1> QED BY <1>1, InitTime, NextTime, NextCausal, PTL DEF Spec

\* Every step keeps the trace in agreement with the world.
LEMMA NextTells == TimeInv /\ TraceTellsWorld /\ [Next]_vars => TraceTellsWorld'
  <1> SUFFICES ASSUME TimeInv, TraceTellsWorld, [Next]_vars PROVE TraceTellsWorld'
    OBVIOUS
  <1>0. TypeOK /\ OutcomeOfEvent
    BY DEF TimeInv
  <1>1. CASE UNCHANGED <<trace, world>>
    BY <1>1 DEF TraceTellsWorld, Untouched, LastAt
  <1>2. CASE ApplyChange
    <2> DEFINE q == Head(outcome.changes).position
               n == Len(trace)
    <2>1. /\ NewTransition \in Transition
          /\ Head(outcome.changes) \in Change
          /\ world' = [world EXCEPT ![q] = Head(outcome.changes).after]
          /\ \/ trace' = trace /\ NewTransition.before = NewTransition.after
             \/ trace' = Append(trace, NewTransition) /\ NewTransition.before # NewTransition.after
      BY <1>0, <1>2, Changing
    <2>2. /\ q \in Positions /\ NewTransition.position = q /\ NewTransition.before = world[q]
          /\ NewTransition.after = Head(outcome.changes).after
      BY <2>1 DEF NewTransition, Change
    <2>3. world \in [Positions -> Blocks] /\ trace \in Seq(Transition) /\ n \in Nat /\ DOMAIN trace = 1..n
      BY <1>0 DEF TypeOK
    <2>4. world'[q] = NewTransition.after /\ \A p \in Positions : p # q => world'[p] = world[p]
      BY <2>1, <2>2, <2>3
    <2>5. CASE trace' = trace /\ NewTransition.before = NewTransition.after
      <3>1. \A p \in Positions : world'[p] = world[p]
        BY <2>2, <2>4, <2>5
      <3> QED BY <2>5, <3>1 DEF TraceTellsWorld, Untouched, LastAt
    <2>6. CASE trace' = Append(trace, NewTransition) /\ NewTransition.before # NewTransition.after
      <3>1. /\ DOMAIN trace' = 1..(n + 1) /\ Len(trace') = n + 1
            /\ \A i \in 1..n : trace'[i] = trace[i]
            /\ trace'[n + 1] = NewTransition
        <4>1. NewTransition \in Transition /\ trace \in Seq(Transition) /\ trace' = Append(trace, NewTransition)
          BY <2>1, <2>3, <2>6
        <4> QED BY <4>1
      <3> HIDE DEF q, n
      <3>2. ASSUME NEW p \in Positions
            PROVE  /\ Untouched(trace', p, Len(trace')) => world'[p] = FirstWorld[p]
                   /\ \A i \in DOMAIN trace' : LastAt(trace', p, Len(trace'), i) => world'[p] = trace'[i].after
        <4>1. CASE p = q
          <5>1. n + 1 \in 1..(n + 1) /\ trace'[n + 1].position = q
            BY <2>2, <2>3, <3>1
          <5>2. ~(Untouched(trace', p, Len(trace')))
            BY <4>1, <5>1, <3>1 DEF Untouched
          <5>3. ASSUME NEW i \in DOMAIN trace', LastAt(trace', p, Len(trace'), i) PROVE i = n + 1
            BY <4>1, <5>1, <5>3, <3>1, <2>3 DEF LastAt
          <5> QED BY <4>1, <5>2, <5>3, <3>1, <2>4
        <4>2. CASE p # q
          <5>1. Untouched(trace', p, Len(trace')) => Untouched(trace, p, n)
            BY <2>3, <3>1 DEF Untouched
          <5>2. ASSUME NEW i \in DOMAIN trace', LastAt(trace', p, Len(trace'), i)
                PROVE  i \in 1..n /\ LastAt(trace, p, n, i)
            <6>1. i # n + 1 /\ i \in 1..(n + 1)
              BY <5>2, <4>2, <3>1, <2>2 DEF LastAt
            <6>2. i \in 1..n
              BY <6>1, <2>3
            <6> QED BY <5>2, <6>2, <3>1, <2>3 DEF LastAt
          <5>3. world'[p] = world[p]
            BY <4>2, <2>4
          <5>4. Untouched(trace, p, n) => world[p] = FirstWorld[p]
            BY DEF TraceTellsWorld, n
          <5>5. \A i \in 1..n : LastAt(trace, p, n, i) => world[p] = trace[i].after
            BY <2>3 DEF TraceTellsWorld, n
          <5> QED BY <5>1, <5>2, <5>3, <5>4, <5>5, <3>1
        <4> QED BY <4>1, <4>2
      <3>3. ASSUME NEW k \in DOMAIN trace', NEW p, p = trace'[k].position
            PROVE  /\ trace'[k].before # trace'[k].after
                   /\ Untouched(trace', p, k - 1) => trace'[k].before = FirstWorld[p]
                   /\ \A i \in 1..(k - 1) : LastAt(trace', p, k - 1, i) => trace'[k].before = trace'[i].after
        <4>1. k \in Int /\ \A i \in 1..(k - 1) : i \in 1..n /\ trace'[i] = trace[i]
          BY <3>1, <2>3
        <4>2. Untouched(trace', p, k - 1) => Untouched(trace, p, k - 1)
          BY <4>1 DEF Untouched
        <4>3. \A i \in 1..(k - 1) : LastAt(trace', p, k - 1, i) => LastAt(trace, p, k - 1, i)
          BY <4>1 DEF LastAt
        <4>4. CASE k \in 1..n
          <5>1. /\ trace[k].before # trace[k].after
                /\ Untouched(trace, p, k - 1) => trace[k].before = FirstWorld[p]
                /\ \A i \in 1..(k - 1) : LastAt(trace, p, k - 1, i) => trace[k].before = trace[i].after
            BY <3>1, <3>3, <4>4, <2>3 DEF TraceTellsWorld
          <5> QED BY <5>1, <3>1, <4>1, <4>2, <4>3, <4>4
        <4>5. CASE k = n + 1
          <5>1. k - 1 = n /\ trace'[k] = NewTransition /\ p = q
            BY <4>5, <3>1, <3>3, <2>2, <2>3
          <5>2. Untouched(trace, q, n) => world[q] = FirstWorld[q]
            BY <2>2 DEF TraceTellsWorld, n
          <5>3. \A i \in 1..n : LastAt(trace, q, n, i) => world[q] = trace[i].after
            BY <2>2, <2>3 DEF TraceTellsWorld, n
          <5> QED BY <5>1, <5>2, <5>3, <4>1, <4>2, <4>3, <2>2, <2>6
        <4> QED BY <4>4, <4>5, <3>1, <2>3
      <3>4. /\ \A p \in Positions :
                /\ Untouched(trace', p, Len(trace')) => world'[p] = FirstWorld[p]
                /\ \A i \in DOMAIN trace' : LastAt(trace', p, Len(trace'), i) => world'[p] = trace'[i].after
            /\ \A k \in DOMAIN trace' :
                /\ trace'[k].before # trace'[k].after
                /\ Untouched(trace', trace'[k].position, k - 1) => trace'[k].before = FirstWorld[trace'[k].position]
                /\ \A i \in 1..(k - 1) : LastAt(trace', trace'[k].position, k - 1, i) => trace'[k].before = trace'[i].after
        <4>1. ASSUME NEW k \in DOMAIN trace'
              PROVE  /\ trace'[k].before # trace'[k].after
                     /\ Untouched(trace', trace'[k].position, k - 1) => trace'[k].before = FirstWorld[trace'[k].position]
                     /\ \A i \in 1..(k - 1) : LastAt(trace', trace'[k].position, k - 1, i) => trace'[k].before = trace'[i].after
          BY <3>3
        <4> QED BY <3>2, <4>1
      <3> QED BY <3>4 DEF TraceTellsWorld
    <2> QED BY <2>1, <2>5, <2>6
  <1> QED BY <1>1, <1>2 DEF Next, Loop, Run, Return, Pop, QueueNext, CountEvent, ScheduleExternal, vars

\* The trace replays to the world, whatever the handlers answer.
THEOREM TraceTellsWorldAlways == Spec => []TraceTellsWorld
  <1>1. Init => TraceTellsWorld
    BY DEF Init, TraceTellsWorld, Untouched, LastAt
  <1> QED BY <1>1, InitTime, NextTime, NextTells, PTL DEF Spec

\* Append, place by place.
LEMMA AppendIs ==
  ASSUME NEW STATE S, NEW STATE s, s \in Seq(S), NEW STATE e, e \in S
  PROVE  Append(s, e) = [i \in 1..(Len(s) + 1) |-> IF i = Len(s) + 1 THEN e ELSE s[i]]
  <1> DEFINE n == Len(s)
             r == [i \in 1..(n + 1) |-> IF i = n + 1 THEN e ELSE s[i]]
  <1>1. n \in Nat /\ \A i \in 1..(n + 1) : i = n + 1 \/ i \in 1..n
    OBVIOUS
  <1>2. \A i \in 1..n : s[i] \in S
    OBVIOUS
  <1>3. Append(s, e) \in Seq(S) /\ Len(Append(s, e)) = n + 1
    OBVIOUS
  <1> DEFINE a == Append(s, e)
  <1>4. a \in [1..(n + 1) -> S]
    <2>1. a \in Seq(S) /\ Len(a) = n + 1
      BY <1>3
    <2> HIDE DEF a, n
    <2> QED BY <2>1
  <1>5. Append(s, e)[n + 1] = e /\ \A i \in 1..n : Append(s, e)[i] = s[i]
    OBVIOUS
  <1> HIDE DEF n
  <1>6. r \in [1..(n + 1) -> S]
    BY <1>1, <1>2
  <1>7. \A i \in 1..(n + 1) : Append(s, e)[i] = r[i]
    BY <1>1, <1>5
  <1>8. Append(s, e) = r
    BY <1>4, <1>6, <1>7
  <1> QED BY <1>8 DEF n

\* The popped tickets are a sequence, as long as that of the popped events.
LEMMA TicketsOfPopped ==
  ASSUME TypeOK
  PROVE  /\ PoppedTickets \in Seq([id : Nat, tick : Ticks])
         /\ Len(PoppedTickets) = Len(popped)
         /\ DOMAIN PoppedTickets = DOMAIN popped
         /\ \A i \in DOMAIN popped : PoppedTickets[i] = Ticket(popped[i])
  <1>1. popped \in Seq(Event) /\ DOMAIN popped = 1..Len(popped) /\ Len(popped) \in Nat
    BY DEF TypeOK
  <1>2. \A i \in DOMAIN popped : popped[i] \in Event
    BY <1>1
  <1>3. \A i \in DOMAIN popped : Ticket(popped[i]) \in [id : Nat, tick : Ticks]
    BY <1>2 DEF Ticket, Event
  <1> DEFINE T == [id : Nat, tick : Ticks]
             n == Len(popped)
  <1>4. PoppedTickets \in [1..n -> T]
    BY <1>1, <1>3 DEF PoppedTickets
  <1>a. n \in Nat
    BY <1>1
  <1> HIDE DEF T, n
  <1>5. PoppedTickets \in Seq(T) /\ Len(PoppedTickets) = n
    BY <1>4, <1>a
  <1> USE DEF T, n
  <1> QED BY <1>5 DEF PoppedTickets

\* Scheduling an event adds it to the abstract pending ones.
LEMMA ScheduleImplements ==
  ASSUME TypeOK, UNCHANGED popped,
         NEW STATE t, t \in Ticks, NEW STATE cause, cause \in Nat \cup {External}, Schedule(t, cause),
         popped # <<>> => Current.tick <= t
  PROVE  Order!Schedule(t)
  <1>1. Tickets' = Tickets \cup {[id |-> nextId, tick |-> t]}
    <2> DEFINE new == NewEvent(t, cause)
    <2>1. Ticket(new) = [id |-> nextId, tick |-> t]
      BY DEF Ticket, NewEvent
    <2> HIDE DEF new
    <2>2. \A u \in Ticks : \A i \in DOMAIN queue'[u] :
            (i \in DOMAIN queue[u] /\ queue'[u][i] = queue[u][i]) \/ queue'[u][i] = new
      <3> SUFFICES ASSUME NEW u \in Ticks, NEW i \in DOMAIN queue'[u]
                   PROVE  (i \in DOMAIN queue[u] /\ queue'[u][i] = queue[u][i]) \/ queue'[u][i] = new
        OBVIOUS
      <3>1. CASE u # t
        BY <3>1, Scheduled
      <3>2. CASE u = t
        BY <3>2, Scheduled DEF new
      <3> QED BY <3>1, <3>2
    <2>3. \A u \in Ticks : \A i \in DOMAIN queue[u] : i \in DOMAIN queue'[u] /\ queue'[u][i] = queue[u][i]
      <3> SUFFICES ASSUME NEW u \in Ticks, NEW i \in DOMAIN queue[u]
                   PROVE  i \in DOMAIN queue'[u] /\ queue'[u][i] = queue[u][i]
        OBVIOUS
      <3>1. CASE u # t
        BY <3>1, Scheduled
      <3>2. CASE u = t
        BY <3>2, Scheduled
      <3> QED BY <3>1, <3>2
    <2>4. \E i \in DOMAIN queue'[t] : queue'[t][i] = new
      <3>1. DOMAIN queue'[t] = 1..(Len(queue[t]) + 1) /\ queue'[t][Len(queue[t]) + 1] = new
        BY Scheduled DEF new
      <3>2. Len(queue[t]) + 1 \in 1..(Len(queue[t]) + 1)
        BY DEF TypeOK
      <3> QED BY <3>1, <3>2
    <2>5. Pending' = Pending \cup {new}
      BY <2>2, <2>3, <2>4 DEF Pending
    <2> QED BY <2>1, <2>5 DEF Tickets
  <1>2. PoppedTickets' = PoppedTickets
    BY DEF PoppedTickets
  <1>3. PoppedTickets = <<>> \/ PoppedTickets[Len(PoppedTickets)].tick <= t
    <2>1. CASE popped = <<>>
      BY <2>1, TicketsOfPopped
    <2>2. CASE popped # <<>>
      <3>1. Len(popped) \in DOMAIN popped /\ Current.tick <= t
        BY <2>2 DEF TypeOK
      <3> QED BY <3>1, TicketsOfPopped DEF Current, Ticket
    <2> QED BY <2>1, <2>2
  <1>4. nextId' = nextId + 1
    BY DEF Schedule
  <1> QED BY <1>1, <1>2, <1>3, <1>4 DEF Order!Schedule

\* Popping an event takes the least of the abstract pending ones.
LEMMA PopImplements ==
  ASSUME TypeOK, QueueSorted, Pop
  PROVE  \E e \in Tickets : Order!Serve(e)
  <1>1. PICK t \in Ticks : /\ IsNextTick(t)
                           /\ popped' = Append(popped, Head(queue[t]))
                           /\ queue' = [queue EXCEPT ![t] = Tail(@)]
    BY DEF Pop
  <1> DEFINE head == queue[t][1]
  <1>2. /\ popped' \in Seq(Event)
        /\ 1 \in DOMAIN queue[t] /\ head \in Event
        /\ \A u \in Ticks : u # t => queue'[u] = queue[u]
        /\ \A i \in DOMAIN queue'[t] : i + 1 \in DOMAIN queue[t] /\ queue'[t][i] = queue[t][i + 1] /\ i >= 1
        /\ \A i \in DOMAIN queue[t] : i = 1 \/ (i - 1 \in DOMAIN queue'[t] /\ queue'[t][i - 1] = queue[t][i])
        /\ \A i \in DOMAIN popped : popped'[i] = popped[i]
        /\ popped'[Len(popped) + 1] = head
        /\ DOMAIN popped = 1..Len(popped) /\ DOMAIN popped' = 1..(Len(popped) + 1)
    BY <1>1, Popping
  <1>3. \A u \in Ticks : \A i \in DOMAIN queue[u] : i \in Int /\ queue[u][i] \in Event
    BY DEF TypeOK
  <1>4. \A u \in Ticks : \A i \in DOMAIN queue[u] :
          (u = t /\ i = 1) \/ Order!Before(Ticket(head), Ticket(queue[u][i]))
    BY <1>1, HeadIsFirst DEF Order!Before, Ticket
  <1> HIDE DEF head
  <1>5. ASSUME NEW e \in Event PROVE ~Order!Before(Ticket(e), Ticket(e))
    <2>1. e.tick \in Int /\ e.id \in Int
      BY EngineAssumption DEF Event, Ticks
    <2> QED BY <2>1 DEF Order!Before, Ticket
  <1>6. Ticket(head) \in Tickets
    BY <1>2 DEF Tickets, Pending, head
  <1>7. \A f \in Tickets \ {Ticket(head)} : Order!Before(Ticket(head), f)
    BY <1>4 DEF Tickets, Pending, head
  <1>8. Tickets' = Tickets \ {Ticket(head)}
    <2>1. \A u \in Ticks : \A i \in DOMAIN queue'[u] :
            \E j \in DOMAIN queue[u] : queue'[u][i] = queue[u][j] /\ ~(u = t /\ j = 1)
      <3> SUFFICES ASSUME NEW u \in Ticks, NEW i \in DOMAIN queue'[u]
                   PROVE  \E j \in DOMAIN queue[u] : queue'[u][i] = queue[u][j] /\ ~(u = t /\ j = 1)
        OBVIOUS
      <3>1. CASE u = t
        <4>1. i + 1 # 1 /\ i + 1 \in DOMAIN queue[t] /\ queue'[t][i] = queue[t][i + 1]
          <5>1. i + 1 \in Int /\ i >= 1 /\ i \in Int
            BY <3>1, <1>2, <1>3 DEF TypeOK, Pop
          <5> QED BY <3>1, <5>1, <1>2
        <4> QED BY <3>1, <4>1
      <3>2. CASE u # t
        BY <3>2, <1>2
      <3> QED BY <3>1, <3>2
    <2>2. \A u \in Ticks : \A i \in DOMAIN queue[u] :
            (u = t /\ i = 1) \/ \E j \in DOMAIN queue'[u] : queue'[u][j] = queue[u][i]
      <3> SUFFICES ASSUME NEW u \in Ticks, NEW i \in DOMAIN queue[u]
                   PROVE  (u = t /\ i = 1) \/ \E j \in DOMAIN queue'[u] : queue'[u][j] = queue[u][i]
        OBVIOUS
      <3>1. CASE u = t
        BY <3>1, <1>2
      <3>2. CASE u # t
        BY <3>2, <1>2
      <3> QED BY <3>1, <3>2
    <2>3. \A u \in Ticks : \A i \in DOMAIN queue'[u] : queue'[u][i] \in Pending /\ Ticket(queue'[u][i]) # Ticket(head)
      <3> SUFFICES ASSUME NEW u \in Ticks, NEW i \in DOMAIN queue'[u]
                   PROVE  queue'[u][i] \in Pending /\ Ticket(queue'[u][i]) # Ticket(head)
        OBVIOUS
      <3>1. PICK j \in DOMAIN queue[u] : queue'[u][i] = queue[u][j] /\ ~(u = t /\ j = 1)
        BY <2>1
      <3>2. queue[u][j] \in Event /\ Order!Before(Ticket(head), Ticket(queue[u][j]))
        BY <1>3, <1>4, <3>1
      <3>3. Ticket(queue[u][j]) # Ticket(head)
        BY <3>2, <1>5
      <3> QED BY <3>1, <3>3 DEF Pending
    <2>4. \A e \in Pending : e = head \/ e \in Pending'
      BY <2>2 DEF Pending, head
    <2>5. \A e \in Pending' : e \in Pending /\ Ticket(e) # Ticket(head)
      BY <2>3 DEF Pending
    <2> QED BY <2>4, <2>5 DEF Tickets
  <1>9. PoppedTickets' = Append(PoppedTickets, Ticket(head))
    <2>1. Ticket(head) \in [id : Nat, tick : Ticks]
      BY <1>2 DEF Ticket, Event
    <2>2. /\ PoppedTickets \in Seq([id : Nat, tick : Ticks]) /\ Len(PoppedTickets) = Len(popped)
          /\ \A i \in DOMAIN popped : PoppedTickets[i] = Ticket(popped[i])
      BY TicketsOfPopped
    <2>3. PoppedTickets' = [i \in 1..(Len(popped) + 1) |-> Ticket(popped'[i])]
      BY <1>2 DEF PoppedTickets, Ticket
    <2>4. Len(popped) \in Nat
      BY DEF TypeOK
    <2> DEFINE n == Len(popped)
    <2>5. popped'[n + 1] = head /\ \A i \in 1..n : popped'[i] = popped[i] /\ PoppedTickets[i] = Ticket(popped[i])
      BY <1>2, <2>2
    <2>6. n = Len(PoppedTickets) /\ PoppedTickets' = [i \in 1..(n + 1) |-> Ticket(popped'[i])]
      BY <2>2, <2>3
    <2> HIDE DEF n
    <2>7. \A i \in 1..(n + 1) : i = n + 1 \/ i \in 1..n
      BY <2>4 DEF n
    <2>8. \A i \in 1..(n + 1) : Ticket(popped'[i]) = IF i = n + 1 THEN Ticket(head) ELSE PoppedTickets[i]
      BY <2>5, <2>7
    <2>9. PoppedTickets' = [i \in 1..(n + 1) |-> IF i = n + 1 THEN Ticket(head) ELSE PoppedTickets[i]]
      BY <2>6, <2>8
    <2> DEFINE T == [id : Nat, tick : Ticks]
               pt == PoppedTickets
               last == Ticket(head)
    <2>10. pt \in Seq(T) /\ last \in T
      BY <2>1, <2>2
    <2> HIDE DEF T, pt, last
    <2>11. Append(pt, last) = [i \in 1..(Len(pt) + 1) |-> IF i = Len(pt) + 1 THEN last ELSE pt[i]]
      BY <2>10, AppendIs
    <2>12. Append(pt, last) = [i \in 1..(n + 1) |-> IF i = n + 1 THEN last ELSE pt[i]]
      BY <2>6, <2>11 DEF pt
    <2> QED BY <2>9, <2>12 DEF pt, last
  <1>10. UNCHANGED nextId
    BY DEF Pop
  <1> QED BY <1>6, <1>7, <1>8, <1>9, <1>10 DEF Order!Serve

\* Every step of the engine is a step of the abstract order or a stutter.
LEMMA NextImplements == TimeInv /\ [Next]_vars => [Order!Next]_(Order!order)
  <1> SUFFICES ASSUME TimeInv, [Next]_vars PROVE [Order!Next]_(Order!order)
    OBVIOUS
  <1>0. TypeOK /\ QueueSorted /\ PoppedSorted /\ PendingInFuture /\ OutcomeOfEvent
    BY DEF TimeInv
  <1>1. ASSUME NEW t \in Ticks, ScheduleExternal(t) PROVE Order!Next
    <2> DEFINE u == IF t < CurrentTick THEN CurrentTick ELSE t
    <2>1. u \in Ticks /\ (popped # <<>> => Current.tick <= u)
      <3>1. CASE popped = <<>>
        BY <3>1, EngineAssumption DEF CurrentTick, Ticks
      <3>2. CASE popped # <<>>
        <4>1. Current \in Event
          BY <3>2, <1>0 DEF TypeOK, Current
        <4>2. Current.tick \in Ticks
          BY <4>1 DEF Event
        <4> QED BY <3>2, <4>2, EngineAssumption DEF CurrentTick, Ticks
      <3> QED BY <3>1, <3>2
    <2>2. Schedule(u, External) /\ UNCHANGED popped
      BY <1>1 DEF ScheduleExternal
    <2> HIDE DEF u
    <2>3. Order!Schedule(u)
      BY <1>0, <2>1, <2>2, ScheduleImplements
    <2> QED BY <2>1, <2>3 DEF Order!Next
  <1>2. CASE QueueNext
    <2> DEFINE u == SaturatingAdd(Current.tick, Head(outcome.queued))
    <2>0. outcome \in Outcome /\ outcome # NoOutcome /\ outcome.queued # <<>>
      BY <1>0, <1>2 DEF QueueNext, TypeOK
    <2>1. outcome.queued \in Seq(Nat)
      BY <2>0 DEF Outcome
    <2>2. Head(outcome.queued) \in Nat /\ popped # <<>>
      BY <1>0, <2>0, <2>1 DEF OutcomeOfEvent
    <2>3. Current \in Event
      BY <1>0, <2>2 DEF TypeOK, Current
    <2>4. Current.tick \in Ticks /\ Current.id \in Nat
      BY <2>3 DEF Event
    <2>5. u \in Ticks /\ Current.tick <= u
      BY <2>2, <2>4, AddForward
    <2>6. Schedule(u, Current.id) /\ UNCHANGED popped
      BY <1>2 DEF QueueNext
    <2> HIDE DEF u
    <2>7. Order!Schedule(u)
      BY <1>0, <2>4, <2>5, <2>6, ScheduleImplements
    <2> QED BY <2>5, <2>7 DEF Order!Next
  <1>3. CASE Pop
    BY <1>0, <1>3, PopImplements DEF Order!Next
  <1>4. CASE UNCHANGED <<queue, popped, nextId>>
    BY <1>4 DEF Order!order, Tickets, Pending, PoppedTickets
  <1> QED BY <1>1, <1>2, <1>3, <1>4 DEF Next, Loop, Run, Return, ApplyChange, CountEvent, vars

\* The two-level queue, its counters and the loop implement the order of events.
THEOREM ImplementsOrderAlways == Spec => ImplementsOrder
  <1>1. Init => Order!Init
    <2> SUFFICES ASSUME Init PROVE Order!Init
      OBVIOUS
    <2>0. popped = <<>> /\ nextId = 0 /\ \A t \in Ticks : queue[t] = <<>>
      BY DEF Init
    <2>1. TypeOK /\ popped = <<>> /\ nextId = 0 /\ \A t \in Ticks : queue[t] = <<>>
      BY <2>0, InitTime DEF TimeInv
    <2>2. Tickets = {}
      BY <2>1 DEF Tickets, Pending
    <2>3. PoppedTickets = <<>>
      BY <2>1, TicketsOfPopped
    <2> QED BY <2>1, <2>2, <2>3 DEF Order!Init
  <1> QED BY <1>1, InitTime, NextTime, NextImplements, PTL DEF Spec, ImplementsOrder, Order!Spec
=============================================================================
