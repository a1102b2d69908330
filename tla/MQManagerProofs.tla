-------------------------- MODULE MQManagerProofs --------------------------
(***************************************************************************)
(* The invariants of MQManager, for every set of clients and all bounds.   *)
(* The inductive invariant is Inv: the types together with Consistent; the *)
(* lemmas of MQOperationsProofs do the work, one per operation.            *)
(*                                                                         *)
(* Round robin: a client is not served twice while another one waits.      *)
(* ServedWaitBehind is inductive together with Inv: every call keeps the   *)
(* order of those in the schedule, except that getNextMessage puts those   *)
(* it skips, who have everything, and the one it serves at the end.        *)
(*                                                                         *)
(* The manager implements EventFeed: the invariant FeedInv says where the  *)
(* events ever published are, the game on air in currentGameEvents, the    *)
(* later ones in nextGames, in order and complete.                         *)
(***************************************************************************)
EXTENDS MC_MQManager, MQOperationsProofs

\* The manager part of the invariant.
ManagerInv == \E F \in SUBSET Fingerprint : mq \in ManagerOf(F, Nat, EventData) /\ Consistent(mq)

\* Everything else.
HistoryInv ==
    /\ calls \in Nat
    /\ published \in Seq(Nat)
    /\ datagram \in Datagram
    /\ passedOver \in [Fingerprint -> SUBSET Fingerprint]

Inv == ManagerInv /\ HistoryInv

LEMMA InitInv == Init => Inv
<1> SUFFICES ASSUME Init PROVE Inv
  OBVIOUS
<1>1. ManagerInv
  <2>1. PICK id \in InitialGameIds : mq = NewMQManager(id)
    BY DEF Init
  <2>2. id \in Nat
    BY InitialGameIdsAssumption
  <2>3. mq \in ManagerOf({}, Nat, EventData) /\ Consistent(mq)
    BY <2>1, <2>2, NewManagerConsistent
  <2> QED  BY <2>3 DEF ManagerInv
<1>2. HistoryInv
  BY DEF Init, HistoryInv, Datagram
<1> QED  BY <1>1, <1>2 DEF Inv

\* What a step does to passedOver keeps its type.
LEMMA PassOverType ==
    ASSUME NEW served \in SUBSET Fingerprint, PassOver(served),
           passedOver \in [Fingerprint -> SUBSET Fingerprint]
    PROVE  passedOver' \in [Fingerprint -> SUBSET Fingerprint]
<1> DEFINE now(f) == CASE f \notin Pending' \/ f \in served -> {}
                       [] f \in Pending' \ served /\ f \in Pending -> passedOver[f] \cup served
                       [] OTHER -> served
<1>1. ASSUME NEW f \in Fingerprint PROVE now(f) \in SUBSET Fingerprint
  <2> HIDE DEF Pending
  <2> QED  OBVIOUS
<1>2. passedOver' = [f \in Fingerprint |-> now(f)]
  BY DEF PassOver
<1> HIDE DEF now
<1> QED  BY <1>1, <1>2

LEMMA NextInv == Inv /\ [Next]_vars => Inv'
<1> SUFFICES ASSUME Inv, [Next]_vars PROVE Inv'
  OBVIOUS
<1>0. PICK F \in SUBSET Fingerprint : mq \in ManagerOf(F, Nat, EventData) /\ Consistent(mq)
  BY DEF Inv, ManagerInv
<1>a. Registered = F
  BY <1>0 DEF Registered, ManagerOf
<1> USE DEF EventData
<1>1. CASE ScheduleNewGame
  <2> DEFINE g == Len(published) + 1
  <2>1. g \in Nat /\ <<g, 1>> \in EventData
    BY DEF Inv, HistoryInv
  <2>2. mq' \in ManagerOf(F, Nat, EventData) /\ Consistent(mq')
    BY <1>0, <1>1, <2>1, ScheduleConsistent DEF ScheduleNewGame
  <2>3. HistoryInv'
    <3>1. PassOver({}) /\ passedOver \in [Fingerprint -> SUBSET Fingerprint]
      BY <1>1 DEF ScheduleNewGame, Inv, HistoryInv
    <3>2. passedOver' \in [Fingerprint -> SUBSET Fingerprint]
      BY <3>1, PassOverType
    <3> QED BY <1>1, <3>2 DEF ScheduleNewGame, Inv, HistoryInv
  <2> QED  BY <2>2, <2>3 DEF Inv, ManagerInv
<1>2. CASE ScheduleEvent
  <2> DEFINE g == Len(published)
  <2>1. /\ g \in Nat /\ g \in 1 .. Len(published) /\ published[g] \in Nat
        /\ <<g, published[g] + 1>> \in EventData
    BY <1>2 DEF Inv, HistoryInv, ScheduleEvent
  <2>2. mq' \in ManagerOf(F, Nat, EventData) /\ Consistent(mq')
    BY <1>0, <1>2, <2>1, ScheduleConsistent DEF ScheduleEvent
  <2>3. published' \in Seq(Nat)
    BY <1>2, <2>1 DEF ScheduleEvent, Inv, HistoryInv
  <2>4. HistoryInv'
    BY <1>2, <2>3, PassOverType DEF ScheduleEvent, Inv, HistoryInv
  <2> QED  BY <2>2, <2>4 DEF Inv, ManagerInv
<1>3. CASE \E f \in Fingerprint, n \in 0 .. MaxEvents : ClientAck(f, n)
  <2>1. PICK f \in Fingerprint, n \in 0 .. MaxEvents : ClientAck(f, n)
    BY <1>3
  <2>2. f \in F /\ n \in Nat /\ mq' = Ack(mq, f, n)
    BY <1>a, <2>1, BoundsAssumption DEF ClientAck
  <2>3. mq' \in ManagerOf(F, Nat, EventData) /\ Consistent(mq')
    BY <1>0, <2>2, AckConsistent
  <2>4. HistoryInv'
    BY <2>1, PassOverType DEF ClientAck, BoundedCall, Inv, HistoryInv
  <2> QED  BY <2>3, <2>4 DEF Inv, ManagerInv
<1>4. CASE \E f \in Fingerprint, n \in 0 .. MaxEvents : Register(f, n)
  <2>1. PICK f \in Fingerprint, n \in 0 .. MaxEvents : Register(f, n)
    BY <1>4
  <2>2. n \in Nat /\ mq' = AddQueue(mq, f, n)
    BY <2>1, BoundsAssumption DEF Register
  <2>3. mq' \in ManagerOf(F \cup {f}, Nat, EventData) /\ Consistent(mq')
    BY <1>0, <2>2, AddQueueConsistent
  <2>4. HistoryInv'
    BY <2>1, PassOverType DEF Register, BoundedCall, Inv, HistoryInv
  <2> QED  BY <2>3, <2>4, F \cup {f} \in SUBSET Fingerprint DEF Inv, ManagerInv
<1>5. CASE \E f \in Fingerprint : Drop(f)
  <2>1. PICK f \in Fingerprint : Drop(f)
    BY <1>5
  <2>2. mq' \in ManagerOf(F \ {f}, Nat, EventData) /\ Consistent(mq')
    BY <1>0, <2>1, DropQueueConsistent DEF Drop
  <2>3. HistoryInv'
    BY <2>1, PassOverType DEF Drop, BoundedCall, Inv, HistoryInv
  <2> QED  BY <2>2, <2>3, F \ {f} \in SUBSET Fingerprint DEF Inv, ManagerInv
<1>6. CASE SendSucceeds
  <2>1. PICK m \in NextMessages(mq) :
          /\ mq' = Ack(AfterGetNextMessage(mq), m.to, m.ack)
          /\ datagram' = m
          /\ PassOver({m.to})
    BY <1>6 DEF SendSucceeds
  <2>2. ~IsEmpty(mq) /\ F # {}
    BY <1>6, <1>a DEF SendSucceeds, CanSend
  <2>3. /\ AfterGetNextMessage(mq) \in ManagerOf(F, Nat, EventData)
        /\ Consistent(AfterGetNextMessage(mq))
        /\ m.to \in F /\ m.gameId \in Nat
        /\ m.events \in Seq(NumberedEvent(EventData)) /\ m.ack \in Nat
    BY <1>0, <2>1, <2>2, SendConsistent
  <2>4. mq' \in ManagerOf(F, Nat, EventData) /\ Consistent(mq')
    BY <2>1, <2>3, AckConsistent
  <2>5. datagram' \in Datagram
    BY <2>1, <2>3 DEF Datagram, NextMessages
  <2>6. HistoryInv'
    BY <1>6, <2>1, <2>3, <2>5, PassOverType DEF SendSucceeds, Inv, HistoryInv
  <2> QED  BY <2>4, <2>6 DEF Inv, ManagerInv
<1>7. CASE SendFails
  <2>1. PICK m \in NextMessages(mq) :
          /\ mq' = AfterGetNextMessage(mq)
          /\ datagram' = m
          /\ PassOver({m.to})
    BY <1>7 DEF SendFails
  <2>2. ~IsEmpty(mq) /\ F # {}
    BY <1>7, <1>a DEF SendFails, CanSend
  <2>3. /\ mq' \in ManagerOf(F, Nat, EventData)
        /\ Consistent(mq')
        /\ m.to \in F /\ m.gameId \in Nat
        /\ m.events \in Seq(NumberedEvent(EventData)) /\ m.ack \in Nat
    BY <1>0, <2>1, <2>2, SendConsistent
  <2>4. datagram' \in Datagram
    BY <2>1, <2>3 DEF Datagram, NextMessages
  <2>5. HistoryInv'
    BY <1>7, <2>1, <2>3, <2>4, PassOverType DEF SendFails, BoundedCall, Inv, HistoryInv
  <2> QED  BY <2>3, <2>5 DEF Inv, ManagerInv
<1>8. CASE UNCHANGED vars
  BY <1>8 DEF vars, Inv, ManagerInv, HistoryInv
<1> QED  BY <1>1, <1>2, <1>3, <1>4, <1>5, <1>6, <1>7, <1>8 DEF Next

LEMMA Invariance == Spec => []Inv
BY InitInv, NextInv, PTL DEF Spec

\* Whatever is called, the manager's fields keep their types and only registered
\* clients are in the schedule.
THEOREM TypeCorrect == Spec => []TypeOK
<1>1. Inv => TypeOK
  BY DEF Inv, ManagerInv, HistoryInv, TypeOK, IsManager
<1> QED  BY <1>1, Invariance, PTL

\* dropQueue and addQueue keep queues and clientsToServeSchedule in step: every
\* registered client has its turn, exactly one; and the iterator getNextMessage makes
\* from a queue is within currentGameEvents.
THEOREM ScheduleCorrect == Spec => []QueuesConsistent
<1>1. Inv => QueuesConsistent
  BY DEF Inv, ManagerInv, QueuesConsistent
<1> QED  BY <1>1, Invariance, PTL

\* The while(true) of getNextMessage ends.
THEOREM GetNextMessageTerminates == Spec => []GetNextMessageEnds
<1>1. Inv => GetNextMessageEnds
  <2> SUFFICES ASSUME Inv, CanSend PROVE TurnOf(AdvanceGame(mq)) # 0
    BY DEF GetNextMessageEnds
  <2>1. PICK F \in SUBSET Fingerprint : mq \in ManagerOf(F, Nat, EventData) /\ Consistent(mq)
    BY DEF Inv, ManagerInv
  <2>2. ~IsEmpty(mq) /\ F # {}
    BY <2>1 DEF CanSend, Registered, ManagerOf
  <2> QED  BY <2>1, <2>2, SendConsistent
<1> QED  BY <1>1, Invariance, PTL

-----------------------------------------------------------------------------
(* The order in a schedule *)

\* f is before g in s, if both are there.
Before(s, f, g) == \A i, j \in 1 .. Len(s) : s[i] = f /\ s[j] = g => i < j

\* A newcomer at the end is behind everybody.
LEMMA AppendKeepsOrder ==
  ASSUME NEW F, NEW s \in Seq(F), NEW x, NEW f, NEW g, f # x, Before(s, f, g)
  PROVE  Before(Append(s, x), f, g)
<1>1. /\ Len(s) \in Nat /\ Len(Append(s, x)) = Len(s) + 1
      /\ \A k \in 1 .. Len(s) : Append(s, x)[k] = s[k]
      /\ Append(s, x)[Len(s) + 1] = x
  <2>1. s \in Seq(F \cup {x})
    OBVIOUS
  <2> QED BY <2>1, AppendProperties
<1> DEFINE r == Append(s, x)  n == Len(s)
<1> HIDE DEF r, n
<1>2. n \in Nat /\ Len(r) = n + 1 /\ (\A k \in 1 .. n : r[k] = s[k]) /\ r[n + 1] = x
  BY <1>1 DEF r, n
<1>3. ASSUME NEW i \in 1 .. n + 1, NEW j \in 1 .. n + 1, r[i] = f, r[j] = g
      PROVE  i < j
  <2>1. i \in 1 .. n /\ s[i] = f
    BY <1>2, <1>3
  <2>2. CASE j = n + 1
    BY <1>2, <2>1, <2>2
  <2>3. CASE j # n + 1
    <3>1. j \in 1 .. n /\ s[j] = g
      BY <1>2, <1>3, <2>3
    <3> QED BY <2>1, <3>1 DEF Before, n
  <2> QED BY <2>2, <2>3
<1> QED BY <1>2, <1>3 DEF Before, r

\* The others close up.
LEMMA RemoveKeepsOrder ==
  ASSUME NEW F, NEW s \in Seq(F), NEW x \in F, Enumerates(s, F), NEW f, NEW g, Before(s, f, g)
  PROVE  Before(RemoveFirst(s, x), f, g)
<1>1. PICK p \in 1 .. Len(s) : s[p] = x /\ ClosesGap(F, RemoveFirst(s, x), s, p)
  BY RemoveFirstProperties
<1> DEFINE r == RemoveFirst(s, x)  n == Len(s)
<1>2. /\ n \in Nat /\ p \in 1 .. n /\ Len(r) = n - 1
      /\ \A k \in 1 .. n - 1 : r[k] = IF k < p THEN s[k] ELSE s[k + 1]
  BY <1>1 DEF ClosesGap
<1>3. \A i, j \in 1 .. n : s[i] = f /\ s[j] = g => i < j
  BY DEF Before
<1> HIDE DEF r, n
<1>4. ASSUME NEW i \in 1 .. n - 1, NEW j \in 1 .. n - 1, r[i] = f, r[j] = g
      PROVE  i < j
  <2> DEFINE at(k) == IF k < p THEN k ELSE k + 1
  <2>1. at(i) \in 1 .. n /\ at(j) \in 1 .. n /\ s[at(i)] = f /\ s[at(j)] = g
    BY <1>2, <1>4
  <2>2. at(i) < at(j)
    BY <1>3, <2>1
  <2> QED BY <1>2, <2>2
<1> QED BY <1>2, <1>4 DEF Before, r

\* The first i of s go to the end; who was behind them stays before them and keeps its
\* place among the rest.
LEMMA RotateKeepsOrder ==
  ASSUME NEW F, NEW s \in Seq(F), NEW i \in 1 .. Len(s), Enumerates(s, F), NEW f, NEW g,
         \A k \in 1 .. i : s[k] # f,
         Before(s, f, g) \/ g = s[i]
  PROVE  Before(Rotate(s, i), f, g)
<1> DEFINE r == Rotate(s, i)  n == Len(s)
<1>1. /\ n \in Nat /\ i \in 1 .. n /\ Len(r) = n
      /\ \A k \in 1 .. n : r[k] = IF k <= n - i THEN s[k + i] ELSE s[k - (n - i)]
  <2>1. i \in 0 .. Len(s) /\ Len(s) \in Nat
    OBVIOUS
  <2>2. /\ Len(Rotate(s, i)) = Len(s)
        /\ \A k \in 1 .. Len(s) :
             Rotate(s, i)[k] = IF k <= Len(s) - i THEN s[k + i] ELSE s[k - (Len(s) - i)]
    BY <2>1, RotateProperties
  <2> QED BY <2>1, <2>2
<1>2. \A j, k \in 1 .. n : s[j] = s[k] => j = k
  BY EnumeratesMeans
<1>3. (\A j, k \in 1 .. n : s[j] = f /\ s[k] = g => j < k) \/ g = s[i]
  BY DEF Before
<1> HIDE DEF r, n
<1>4. ASSUME NEW j \in 1 .. n, NEW k \in 1 .. n, r[j] = f, r[k] = g
      PROVE  j < k
  <2>1. j <= n - i /\ j + i \in 1 .. n /\ s[j + i] = f
    <3>1. CASE j <= n - i
      BY <1>1, <1>4, <3>1
    <3>2. CASE ~(j <= n - i)
      <4>1. j - (n - i) \in 1 .. i /\ r[j] = s[j - (n - i)]
        BY <1>1, <3>2
      <4> QED BY <1>4, <4>1
    <3> QED BY <3>1, <3>2
  <2>2. CASE k <= n - i
    <3>1. k + i \in 1 .. n /\ s[k + i] = g
      BY <1>1, <1>4, <2>2
    <3>2. g # s[i]
      BY <1>1, <1>2, <3>1
    <3>3. j + i < k + i
      BY <1>3, <2>1, <3>1, <3>2
    <3> QED BY <1>1, <3>3
  <2>3. CASE ~(k <= n - i)
    BY <1>1, <2>1, <2>3
  <2> QED BY <2>2, <2>3
<1> QED BY <1>1, <1>4 DEF Before, r

-----------------------------------------------------------------------------
(* The lists of who was served *)

\* A client that waits after a step, with somebody in its list: it waited before or the
\* other was served in the step.
LEMMA PassOverMeans ==
  ASSUME NEW served, PassOver(served),
         NEW f \in Fingerprint, f \in Pending', NEW g \in passedOver'[f]
  PROVE  /\ f \notin served
         /\ g \in served \/ (f \in Pending /\ g \in passedOver[f])
<1> DEFINE waited == f \in Pending  waits == f \in Pending'
<1>1. passedOver'[f] = CASE ~waits \/ f \in served -> {}
                         [] waits /\ f \notin served /\ waited -> passedOver[f] \cup served
                         [] OTHER -> served
  BY DEF PassOver
<1>2. waits
  OBVIOUS
<1> HIDE DEF waits, waited
<1>3. f \notin served /\ (g \in served \/ (waited /\ g \in passedOver[f]))
  BY <1>1, <1>2
<1> QED BY <1>3 DEF waited

-----------------------------------------------------------------------------
(* What the operations do to the schedule *)

LEMMA ScheduleKeepsTurns ==
  ASSUME NEW F, NEW m \in ManagerOf(F, Nat, EventData), NEW id, NEW event
  PROVE  Schedule(m, id, event).clientsToServeSchedule = m.clientsToServeSchedule
<1> DEFINE waiting == SelectInSeq(m.nextGames, LAMBDA g : g.id = id)
<1> HIDE DEF waiting
<1>1. Schedule(m, id, event) =
        CASE id = m.currentlyBroadcastedGameId ->
               [m EXCEPT !.currentGameEvents = Append(@, [no |-> Len(@), data |-> event])]
          [] id # m.currentlyBroadcastedGameId /\ waiting # 0 ->
               [m EXCEPT !.nextGames[waiting].events = Append(@, event)]
          [] OTHER -> [m EXCEPT !.nextGames = Append(@, [id |-> id, events |-> <<event>>])]
  BY DEF Schedule, waiting
<1>2. CASE id = m.currentlyBroadcastedGameId
  BY <1>1, <1>2 DEF ManagerOf
<1>3. CASE id # m.currentlyBroadcastedGameId /\ waiting # 0
  BY <1>1, <1>3 DEF ManagerOf
<1>4. CASE id # m.currentlyBroadcastedGameId /\ waiting = 0
  BY <1>1, <1>4 DEF ManagerOf
<1> QED BY <1>2, <1>3, <1>4

LEMMA AckKeepsTurns ==
  ASSUME NEW F, NEW m \in ManagerOf(F, Nat, EventData), NEW f, NEW n
  PROVE  Ack(m, f, n).clientsToServeSchedule = m.clientsToServeSchedule
BY DEF Ack, ManagerOf

\* getNextMessage serves the first client that waits, or, after a change of game,
\* when nobody waited, the first one.
LEMMA SendTurns ==
  ASSUME NEW F, NEW m \in ManagerOf(F, Nat, EventData), Consistent(m), ~IsEmpty(m), F # {}
  PROVE  \E t \in 1 .. Len(m.clientsToServeSchedule) :
           /\ AfterGetNextMessage(m).clientsToServeSchedule = Rotate(m.clientsToServeSchedule, t)
           /\ Recipient(m) = m.clientsToServeSchedule[t]
           /\ HasPendingMessages(m) =>
                \A i \in 1 .. t - 1 : ~IsPending(m, m.clientsToServeSchedule[i])
<1> DEFINE a == AdvanceGame(m)  t == TurnOf(a)
<1>1. a \in ManagerOf(F, Nat, EventData) /\ Consistent(a)
  BY AdvanceGameConsistent
<1>2. a.clientsToServeSchedule = m.clientsToServeSchedule
  BY DEF AdvanceGame
<1>3. HasPendingMessages(m) => a = m
  BY DEF AdvanceGame
<1>4. TurnOf(a) # 0
  BY SendConsistent
<1>5. AfterGetNextMessage(m) = [a EXCEPT !.clientsToServeSchedule = Rotate(@, t)]
  BY DEF AfterGetNextMessage
<1>6. Recipient(m) = a.clientsToServeSchedule[t]
  BY DEF Recipient
<1> HIDE DEF a
<1>7. HasPendingMessages(a)
  <2>1. \E i \in 1 .. Len(a.clientsToServeSchedule) : IsPending(a, a.clientsToServeSchedule[i])
    BY <1>4 DEF TurnOf, SelectInSeq
  <2>2. a.clientsToServeSchedule \in Seq(F) /\ DOMAIN a.queues = F
    BY <1>1 DEF ManagerOf
  <2> QED BY <2>1, <2>2 DEF HasPendingMessages
<1>8. /\ t \in 1 .. Len(a.clientsToServeSchedule)
      /\ \A i \in 1 .. t - 1 : ~IsPending(a, a.clientsToServeSchedule[i])
  BY <1>1, <1>7, TurnFound
<1>9. AfterGetNextMessage(m).clientsToServeSchedule = Rotate(a.clientsToServeSchedule, t)
  <2> HIDE DEF t
  <2> QED BY <1>1, <1>5 DEF ManagerOf
<1> HIDE DEF t
<1> QED BY <1>2, <1>3, <1>6, <1>8, <1>9

-----------------------------------------------------------------------------
(* The steps *)

\* ServedWaitBehind of two clients
LEMMA WaitsBefore ==
  ASSUME Inv, ServedWaitBehind, NEW f \in Pending, NEW g \in passedOver[f]
  PROVE  Before(mq.clientsToServeSchedule, f, g)
<1>1. DOMAIN mq.clientsToServeSchedule = 1 .. Len(mq.clientsToServeSchedule)
  BY DEF Inv, ManagerInv, ManagerOf
<1> HIDE DEF Pending
<1> QED BY <1>1 DEF ServedWaitBehind, Before

\* A send puts the client it serves behind all who wait, and their order is kept.
LEMMA SendKeepsOrder ==
  ASSUME Inv, ServedWaitBehind, CanSend, PassOver({Recipient(mq)}),
         mq'.clientsToServeSchedule = AfterGetNextMessage(mq).clientsToServeSchedule,
         NEW f \in Fingerprint, f \in Pending', NEW g \in passedOver'[f]
  PROVE  Before(mq'.clientsToServeSchedule, f, g)
<1> DEFINE s == mq.clientsToServeSchedule
<1>1. PICK F \in SUBSET Fingerprint : mq \in ManagerOf(F, Nat, EventData) /\ Consistent(mq)
  BY DEF Inv, ManagerInv
<1>2. F = Registered /\ s \in Seq(F) /\ Enumerates(s, F)
  BY <1>1 DEF Registered, ManagerOf, Consistent
<1>3. PICK t \in 1 .. Len(s) :
        /\ AfterGetNextMessage(mq).clientsToServeSchedule = Rotate(s, t)
        /\ Recipient(mq) = s[t]
        /\ HasPendingMessages(mq) => \A i \in 1 .. t - 1 : ~IsPending(mq, s[i])
  BY <1>1, <1>2, SendTurns DEF CanSend
<1>4. f # s[t] /\ (g = s[t] \/ (f \in Pending /\ g \in passedOver[f]))
  <2> HIDE DEF s, Pending
  <2> QED BY <1>3, PassOverMeans
<1>5. Before(s, f, g) \/ g = s[t]
  BY <1>4, WaitsBefore
<1>6. CASE f \in Pending
  <2>1. HasPendingMessages(mq) /\ IsPending(mq, f)
    BY <1>6 DEF Pending, Registered, HasPendingMessages
  <2>2. \A k \in 1 .. t : s[k] # f
    <3>1. ASSUME NEW k \in 1 .. t, s[k] = f PROVE FALSE
      <4>1. k \in 1 .. t - 1
        BY <1>3, <1>4, <3>1
      <4> QED BY <1>3, <2>1, <3>1, <4>1
    <3> QED BY <3>1
  <2> HIDE DEF s
  <2> QED BY <1>2, <1>3, <1>5, <2>2, RotateKeepsOrder
<1>7. CASE f \notin Pending
  <2>1. g = s[t]
    BY <1>4, <1>7
  <2>2. Before(Rotate(s, t), f, s[t])
    <3>1. /\ Len(Rotate(s, t)) = Len(s) /\ Len(s) \in Nat
          /\ \A k \in 1 .. Len(s) :
               Rotate(s, t)[k] = IF k <= Len(s) - t THEN s[k + t] ELSE s[k - (Len(s) - t)]
      <4>1. t \in 0 .. Len(s)
        BY <1>2
      <4> QED BY <1>2, <4>1, RotateProperties
    <3>2. \A j, k \in 1 .. Len(s) : s[j] = s[k] => j = k
      BY <1>2, EnumeratesMeans
    <3> DEFINE r == Rotate(s, t)  n == Len(s)
    <3> HIDE DEF r, s, n
    <3>3. ASSUME NEW i \in 1 .. n, NEW j \in 1 .. n, r[i] = f, r[j] = s[t] PROVE i < j
      <4>0. n \in Nat /\ t \in 1 .. n /\ \A k \in 1 .. n : r[k] = IF k <= n - t THEN s[k + t] ELSE s[k - (n - t)]
        BY <3>1, <1>3 DEF r, n
      <4>1. j = n
        <5> DEFINE at == IF j <= n - t THEN j + t ELSE j - (n - t)
        <5>1. at \in 1 .. n /\ s[at] = s[t]
          BY <4>0, <3>3
        <5>2. at = t
          BY <4>0, <5>1, <3>2 DEF n
        <5> QED BY <4>0, <5>2
      <4>2. i # n
        BY <1>4, <3>3, <4>1
      <4> QED BY <4>0, <4>1, <4>2
    <3> QED BY <3>1, <3>3 DEF Before, r, n
  <2> QED BY <1>3, <2>1, <2>2
<1> QED BY <1>6, <1>7

LEMMA OrderKept == Inv /\ ServedWaitBehind /\ [Next]_vars => ServedWaitBehind'
<1> SUFFICES ASSUME Inv, ServedWaitBehind, [Next]_vars PROVE ServedWaitBehind'
  OBVIOUS
<1> DEFINE s == mq.clientsToServeSchedule
<1>0. PICK F \in SUBSET Fingerprint : mq \in ManagerOf(F, Nat, EventData) /\ Consistent(mq)
  BY DEF Inv, ManagerInv
<1>a. F = Registered /\ s \in Seq(F) /\ Enumerates(s, F)
  BY <1>0 DEF Registered, ManagerOf, Consistent
<1>b. Inv'
  BY NextInv
<1>c. Pending' \subseteq Fingerprint /\ DOMAIN s' = 1 .. Len(s')
  BY <1>b DEF Inv, ManagerInv, ManagerOf, Pending, Registered
<1> SUFFICES ASSUME NEW f \in Fingerprint, f \in Pending', NEW g \in passedOver'[f]
             PROVE  Before(s', f, g)
  <2> HIDE DEF Pending
  <2> QED BY <1>c DEF ServedWaitBehind, Before
<1>d. ASSUME PassOver({}) PROVE f \in Pending /\ Before(s, f, g)
  <2>1. f \in Pending /\ g \in passedOver[f]
    <3> HIDE DEF Pending
    <3> QED BY <1>d, PassOverMeans
  <2> QED BY <2>1, WaitsBefore
<1> HIDE DEF s
<1>1. CASE ScheduleNewGame
  <2>1. s' = s
    BY <1>0, <1>1, ScheduleKeepsTurns DEF ScheduleNewGame, s
  <2> QED BY <1>1, <1>d, <2>1 DEF ScheduleNewGame
<1>2. CASE ScheduleEvent
  <2>1. s' = s
    BY <1>0, <1>2, ScheduleKeepsTurns DEF ScheduleEvent, s
  <2> QED BY <1>2, <1>d, <2>1 DEF ScheduleEvent
<1>3. ASSUME NEW x \in Fingerprint, NEW n \in 0 .. MaxEvents, ClientAck(x, n)
      PROVE  Before(s', f, g)
  <2>1. s' = s
    BY <1>0, <1>3, AckKeepsTurns DEF ClientAck, s
  <2> QED BY <1>3, <1>d, <2>1 DEF ClientAck
<1>4. ASSUME NEW x \in Fingerprint, NEW n \in 0 .. MaxEvents, Register(x, n)
      PROVE  Before(s', f, g)
  <2>1. f \in Pending /\ Before(s, f, g)
    BY <1>4, <1>d DEF Register
  <2>2. CASE x \in F
    BY <1>0, <1>4, <2>1, <2>2 DEF Register, AddQueue, ManagerOf, s
  <2>3. CASE x \notin F
    <3>1. s' = Append(s, x)
      BY <1>0, <1>4, <2>3 DEF Register, AddQueue, ManagerOf, s
    <3>2. f # x
      BY <1>a, <2>1, <2>3 DEF Pending
    <3> QED BY <1>a, <2>1, <3>1, <3>2, AppendKeepsOrder
  <2> QED BY <2>2, <2>3
<1>5. ASSUME NEW x \in Fingerprint, Drop(x) PROVE Before(s', f, g)
  <2>1. Before(s, f, g)
    BY <1>5, <1>d DEF Drop
  <2>2. s' = RemoveFirst(s, x)
    BY <1>0, <1>5 DEF Drop, DropQueue, ManagerOf, s
  <2>3. CASE x \in F
    BY <1>a, <2>1, <2>2, <2>3, RemoveKeepsOrder
  <2>4. CASE x \notin F
    <3>1. RemoveFirst(s, x) = s
      BY <1>a, <2>4 DEF RemoveFirst
    <3> QED BY <2>1, <2>2, <3>1
  <2> QED BY <2>3, <2>4
<1>6. CASE SendSucceeds
  <2>1. PICK m \in NextMessages(mq) :
          mq' = Ack(AfterGetNextMessage(mq), m.to, m.ack) /\ PassOver({m.to})
    BY <1>6 DEF SendSucceeds
  <2>2. m.to = Recipient(mq)
    BY <2>1 DEF NextMessages
  <2>3. CanSend
    BY <1>6 DEF SendSucceeds
  <2>4. AfterGetNextMessage(mq) \in ManagerOf(F, Nat, EventData)
    BY <1>0, <1>a, <2>3, SendConsistent DEF CanSend
  <2>5. mq'.clientsToServeSchedule = AfterGetNextMessage(mq).clientsToServeSchedule
    BY <2>1, <2>4, AckKeepsTurns
  <2> QED BY <2>1, <2>2, <2>3, <2>5, SendKeepsOrder DEF s
<1>7. CASE SendFails
  <2>1. PICK m \in NextMessages(mq) : mq' = AfterGetNextMessage(mq) /\ PassOver({m.to})
    BY <1>7 DEF SendFails
  <2>2. m.to = Recipient(mq)
    BY <2>1 DEF NextMessages
  <2>3. CanSend
    BY <1>7 DEF SendFails
  <2> QED BY <2>1, <2>2, <2>3, SendKeepsOrder DEF s
<1>8. CASE UNCHANGED vars
  <2>1. s' = s /\ f \in Pending /\ g \in passedOver[f]
    BY <1>8 DEF vars, s, Pending, Registered
  <2> QED BY <2>1, WaitsBefore DEF s
<1> QED BY <1>1, <1>2, <1>3, <1>4, <1>5, <1>6, <1>7, <1>8 DEF Next

-----------------------------------------------------------------------------

\* A client that is behind stays in front of everybody served since, until its turn.
THEOREM OrderCorrect == Spec => []ServedWaitBehind
<1>1. Init => ServedWaitBehind
  BY DEF Init, ServedWaitBehind, Pending, Registered, NewMQManager, EmptyMap
<1> QED BY <1>1, Invariance, OrderKept, PTL DEF Spec

\* getNextMessage, whether its datagram can be sent or not, never serves a client twice
\* while another one that is behind waits.
THEOREM NobodyOvertakes == Spec => NoOvertaking
<1>1. ASSUME Inv, ServedWaitBehind, SendSucceeds \/ SendFails,
             NEW f \in Pending \ {datagram'.to}
      PROVE  datagram'.to \notin passedOver[f]
  <2> DEFINE s == mq.clientsToServeSchedule
  <2>1. datagram'.to = Recipient(mq) /\ CanSend
    <3>1. datagram' \in NextMessages(mq) /\ CanSend
      BY <1>1 DEF SendSucceeds, SendFails
    <3>2. \A m \in NextMessages(mq) : m.to = Recipient(mq)
      BY DEF NextMessages
    <3> QED BY <3>1, <3>2
  <2>2. PICK F \in SUBSET Fingerprint : mq \in ManagerOf(F, Nat, EventData) /\ Consistent(mq)
    BY <1>1 DEF Inv, ManagerInv
  <2>3. F = Registered /\ s \in Seq(F) /\ Enumerates(s, F)
    BY <2>2 DEF Registered, ManagerOf, Consistent
  <2>4. PICK t \in 1 .. Len(s) :
          /\ Recipient(mq) = s[t]
          /\ HasPendingMessages(mq) => \A i \in 1 .. t - 1 : ~IsPending(mq, s[i])
    BY <2>1, <2>2, <2>3, SendTurns DEF CanSend
  <2>5. HasPendingMessages(mq) /\ IsPending(mq, f) /\ f \in F
    BY <1>1, <2>3 DEF Pending, Registered, HasPendingMessages
  <2>6. PICK i \in 1 .. Len(s) : s[i] = f
    BY <2>3, <2>5, EnumeratesMeans
  <2>7. t < i
    <3>1. i # t
      BY <1>1, <2>1, <2>4, <2>6
    <3>2. i \notin 1 .. t - 1
      BY <2>4, <2>5, <2>6
    <3>3. i \in Nat /\ t \in Nat
      BY <2>3
    <3> QED BY <3>1, <3>2, <3>3
  <2>8. ASSUME s[t] \in passedOver[f] PROVE FALSE
    <3>1. Before(s, f, s[t])
      BY <1>1, <2>8, WaitsBefore
    <3> QED BY <2>3, <2>6, <2>7, <3>1 DEF Before
  <2> QED BY <2>1, <2>4, <2>8
<1>2. Inv /\ ServedWaitBehind /\ [Next]_vars =>
        [SendSucceeds \/ SendFails =>
            \A f \in Pending \ {datagram'.to} : datagram'.to \notin passedOver[f]]_vars
  BY <1>1
<1> QED BY <1>2, Invariance, OrderCorrect, PTL DEF Spec, NoOvertaking

-----------------------------------------------------------------------------
(* The refinement *)

\* The identifier of the broadcast game is uninitialised at first.  If it happens to be that of a
\* game to come, other than the first, that game goes on air before those that wait.
NotYetOnAir == InitialGameIds \cap (2 .. MaxGames) = {}

\* What the events of MC_MQManager say
Says == [g \in Nat |-> [i \in Nat |-> <<g, i>>]]

LEMMA SaysIs == \A g, i \in Nat : Says[g][i] = <<g, i>>
BY DEF Says

\* The events of a datagram, as getNextMessage cuts them and as EventFeed says them
LEMMA FeedSlice ==
  ASSUME NEW g \in Nat, NEW n \in Nat, NEW p \in Nat, NEW upTo \in Nat, p < upTo, upTo <= n
  PROVE  SubSeq(NumberedGame(Says, g, n), p + 1, upTo) = Feed!Slice(g, p, upTo)
<1>1. \A k \in 1 .. upTo - p : Says[g][p + k] = <<g, p + k>>
  BY SaysIs
<1>2. SliceOf(Says, g, p, upTo) = Feed!Slice(g, p, upTo)
  <2>1. \A k \in 1 .. upTo - p :
           [no |-> p + k - 1, data |-> Says[g][p + k]] = [no |-> p + k - 1, data |-> <<g, p + k>>]
    BY <1>1, Zenon
  <2>2. SliceOf(Says, g, p, upTo) = [k \in 1 .. upTo - p |-> [no |-> p + k - 1, data |-> <<g, p + k>>]]
    BY <2>1, Zenon DEF SliceOf
  <2> QED BY <2>2, Zenon DEF Feed!Slice
<1>3. SubSeq(NumberedGame(Says, g, n), p + 1, upTo) = SliceOf(Says, g, p, upTo)
  BY SliceIs, ZenonT(60)
<1> QED BY <1>2, <1>3

\* The game on air, as MC_MQManager sees it
OnAirOf(m) == IF m.currentGameEvents = <<>> THEN 0 ELSE m.currentlyBroadcastedGameId

LEMMA OnAirIs ==
  ASSUME NEW m, NEW p \in Counts, NEW a, IsFeed(m, a, p, Says, MaxGames)
  PROVE  OnAirOf(m) = a
<1>1. CASE a = 0
  <2>1. m.currentGameEvents = NumberedGame(Says, 0, 0)
    BY <1>1 DEF IsFeed, CountOf
  <2>2. NumberedGame(Says, 0, 0) = <<>>
    BY DEF NumberedGame
  <2> QED BY <1>1, <2>1, <2>2 DEF OnAirOf
<1>2. CASE a # 0
  <2>1. a \in 1 .. Len(p) /\ p[a] \in Nat \ {0}
    BY <1>2 DEF IsFeed, Counts
  <2>2. m.currentGameEvents = NumberedGame(Says, a, p[a]) /\ m.currentlyBroadcastedGameId = a
    BY <1>2 DEF IsFeed, CountOf
  <2>3. m.currentGameEvents # <<>>
    <3>1. Len(NumberedGame(Says, a, p[a])) = p[a]
      BY <2>1, NumberedGameIs
    <3> QED BY <2>1, <2>2, <3>1
  <2> QED BY <2>2, <2>3 DEF OnAirOf
<1> QED BY <1>1, <1>2

-----------------------------------------------------------------------------
(* The steps *)

FeedInv ==
    /\ published \in Counts /\ Len(published) <= MaxGames
    /\ IsFeed(mq, OnAirOf(mq), published, Says, MaxGames)

\* What the invariants say of the manager, in the words of EventFeed
LEMMA FeedMeans ==
  ASSUME Inv, FeedInv
  PROVE  \E F \in SUBSET Fingerprint :
           /\ mq \in ManagerOf(F, Nat, EventData) /\ Consistent(mq)
           /\ DOMAIN mq.queues = F /\ mq.queues \in [F -> Nat]
           /\ Len(mq.currentGameEvents) = Feed!EventsOf(OnAir)
           /\ Feed!EventsOf(OnAir) \in Nat
           /\ Feed!EverybodyThere <=> ~HasPendingMessages(mq)
<1>1. PICK F \in SUBSET Fingerprint : mq \in ManagerOf(F, Nat, EventData) /\ Consistent(mq)
  BY DEF Inv, ManagerInv
<1>2. DOMAIN mq.queues = F /\ mq.queues \in [F -> Nat]
  BY <1>1 DEF ManagerOf
<1>3. OnAir = OnAirOf(mq)
  BY DEF OnAir, OnAirOf
<1>4. OnAir \in 0 .. Len(published) /\ mq.currentGameEvents = NumberedGame(Says, OnAir, CountOf(published, OnAir))
  BY <1>3 DEF FeedInv, IsFeed
<1>5. Feed!EventsOf(OnAir) = CountOf(published, OnAir)
  BY DEF Feed!EventsOf, CountOf
<1>6. CountOf(published, OnAir) \in Nat
  BY <1>4 DEF FeedInv, Counts, CountOf
<1>7. Len(mq.currentGameEvents) = CountOf(published, OnAir)
  BY <1>4, <1>6, NumberedGameIs
<1>8. Feed!EverybodyThere <=> ~HasPendingMessages(mq)
  <2>1. \A f \in F : mq.queues[f] \in Nat /\ mq.queues[f] <= Len(mq.currentGameEvents)
    BY <1>1, <1>2 DEF Consistent, QueuesInRange
  <2>2. Feed!EverybodyThere <=> \A f \in F : mq.queues[f] = Len(mq.currentGameEvents)
    BY <1>2, <1>5, <1>7 DEF Feed!EverybodyThere
  <2>3. ~HasPendingMessages(mq) <=> \A f \in F : ~(mq.queues[f] < Len(mq.currentGameEvents))
    BY <1>2 DEF HasPendingMessages, IsPending
  <2> QED BY <1>6, <1>7, <2>1, <2>2, <2>3
<1> QED BY <1>1, <1>2, <1>5, <1>6, <1>7, <1>8

\* An event is scheduled.
LEMMA PublishRefines ==
  ASSUME Inv, FeedInv, ScheduleNewGame \/ ScheduleEvent
  PROVE  FeedInv' /\ Feed!Publish
<1> DEFINE a == OnAirOf(mq)
<1>1. PICK F \in SUBSET Fingerprint : mq \in ManagerOf(F, Nat, EventData)
  BY DEF Inv, ManagerInv
<1>2. published \in Counts /\ Len(published) <= MaxGames /\ IsFeed(mq, a, published, Says, MaxGames)
  BY DEF FeedInv
<1>3. OnAir = a /\ OnAir' = OnAirOf(mq')
  BY DEF OnAir, OnAirOf
<1> HIDE DEF a
<1>4. CASE ScheduleNewGame
  <2> DEFINE g == Len(published) + 1
  <2>1. mq' = Schedule(mq, g, <<g, 1>>) /\ published' = Append(published, 1) /\ g <= MaxGames
    BY <1>4 DEF ScheduleNewGame
  <2>2. PICK b \in {a, IF a = 0 THEN 1 ELSE a} : IsFeed(mq', b, published', Says, MaxGames)
    <3>1. Len(published) \in Nat /\ MaxGames \in Nat
      BY <1>2, BoundsAssumption DEF Counts
    <3>2. Says[g][1] = <<g, 1>>
      BY <3>1, SaysIs
    <3> HIDE DEF g
    <3>3. /\ g = Len(published) + 1 /\ Len(published) + 1 <= MaxGames
          /\ mq' = Schedule(mq, g, Says[g][1]) /\ published' = Append(published, 1)
          /\ Says[g][1] \in EventData
      BY <2>1, <3>1, <3>2 DEF g, EventData
    <3>4. \/ IsFeed(Schedule(mq, g, Says[g][1]), a, Append(published, 1), Says, MaxGames)
          \/ a = 0 /\ IsFeed(Schedule(mq, g, Says[g][1]), 1, Append(published, 1), Says, MaxGames)
      BY ONLY <1>1, <1>2, <3>1, <3>3, ScheduleNewFeed
    <3> QED BY ONLY <3>3, <3>4
  <2>3. published' \in Counts /\ Len(published') <= MaxGames
    BY <1>2, <2>1 DEF Counts
  <2>4. OnAirOf(mq') = b
    BY <2>2, <2>3, OnAirIs
  <2>5. mq'.queues = mq.queues
    BY <1>1, <2>1, ScheduleKeepsQueues
  <2>6. datagram' = datagram
    BY <1>4 DEF ScheduleNewGame
  <2>7. FeedInv'
    BY <2>2, <2>3, <2>4 DEF FeedInv, OnAirOf
  <2> QED BY <1>3, <2>1, <2>2, <2>4, <2>5, <2>6, <2>7 DEF Feed!Publish
<1>5. CASE ScheduleEvent
  <2> DEFINE g == Len(published)
  <2>1. /\ mq' = Schedule(mq, g, <<g, published[g] + 1>>)
        /\ published' = [published EXCEPT ![g] = @ + 1] /\ g # 0
    BY <1>5 DEF ScheduleEvent
  <2>2. IsFeed(mq', a, published', Says, MaxGames)
    <3>1. g \in Nat /\ published[g] + 1 \in Nat
      BY <1>2, <2>1 DEF Counts
    <3>2. Says[g][published[g] + 1] = <<g, published[g] + 1>>
      BY <3>1, SaysIs
    <3> HIDE DEF g
    <3>3. /\ g = Len(published) /\ Len(published) # 0
          /\ mq' = Schedule(mq, g, Says[g][published[g] + 1])
          /\ published' = [published EXCEPT ![g] = @ + 1]
      BY <2>1, <3>2 DEF g
    <3> QED BY ONLY <1>1, <1>2, <3>3, ScheduleFeed
  <2>3. published' \in Counts /\ Len(published') <= MaxGames
    BY <1>2, <2>1 DEF Counts
  <2>4. OnAirOf(mq') = a
    BY <2>2, <2>3, OnAirIs
  <2>5. mq'.queues = mq.queues
    BY <1>1, <2>1, ScheduleKeepsQueues
  <2>6. datagram' = datagram /\ published # <<>>
    BY <1>5, <2>1 DEF ScheduleEvent
  <2>7. FeedInv'
    BY <2>2, <2>3, <2>4 DEF FeedInv, OnAirOf
  <2> QED BY <1>3, <2>1, <2>4, <2>5, <2>6, <2>7 DEF Feed!Publish
<1> QED BY <1>4, <1>5

\* A step that touches neither games nor events keeps the feed.
LEMMA KeepsFeedInv ==
  ASSUME FeedInv, UNCHANGED published,
         mq'.currentGameEvents = mq.currentGameEvents, mq'.nextGames = mq.nextGames,
         mq'.currentlyBroadcastedGameId = mq.currentlyBroadcastedGameId
  PROVE  FeedInv' /\ OnAir' = OnAir
<1>1. OnAirOf(mq') = OnAirOf(mq)
  BY DEF OnAirOf
<1>2. IsFeed(mq', OnAirOf(mq'), published, Says, MaxGames)
  BY <1>1, SameFeed DEF FeedInv
<1>3. OnAir' = OnAir
  BY DEF OnAir
<1> QED BY <1>2, <1>3 DEF FeedInv, OnAirOf

\* A client acknowledges.
LEMMA AckRefines ==
  ASSUME Inv, FeedInv, NEW f \in Fingerprint, NEW n \in Nat, ClientAck(f, n)
  PROVE  FeedInv' /\ Feed!Reposition(f)
<1>1. PICK F \in SUBSET Fingerprint :
        /\ mq \in ManagerOf(F, Nat, EventData) /\ Consistent(mq)
        /\ DOMAIN mq.queues = F /\ mq.queues \in [F -> Nat]
        /\ Len(mq.currentGameEvents) = Feed!EventsOf(OnAir)
        /\ Feed!EventsOf(OnAir) \in Nat
  BY FeedMeans
<1> DEFINE max == Feed!EventsOf(OnAir)  cursor == Least(Len(mq.currentGameEvents), n)
<1>2. f \in F /\ mq' = Ack(mq, f, n) /\ UNCHANGED <<published, datagram>>
  BY <1>1 DEF ClientAck, Registered
<1>3. cursor \in 0 .. max /\ mq.queues[f] \in 0 .. max
  BY <1>1, <1>2 DEF Least, Consistent, QueuesInRange
<1> HIDE DEF max, cursor
<1>4. /\ mq'.currentGameEvents = mq.currentGameEvents /\ mq'.nextGames = mq.nextGames
      /\ mq'.currentlyBroadcastedGameId = mq.currentlyBroadcastedGameId
      /\ mq'.queues \in {mq.queues, [mq.queues EXCEPT ![f] = cursor]}
  BY <1>1, <1>2 DEF Ack, ManagerOf, cursor
<1>5. DOMAIN mq'.queues = F /\ F = DOMAIN mq.queues \cup {f}
  BY <1>1, <1>2, <1>4
<1>6. \A d \in F : IF d = f THEN mq'.queues[d] \in 0 .. max ELSE mq'.queues[d] = mq.queues[d]
  BY <1>1, <1>2, <1>3, <1>4
<1>7. FeedInv' /\ OnAir' = OnAir
  BY <1>2, <1>4, KeepsFeedInv
<1> QED BY <1>2, <1>5, <1>6, <1>7 DEF Feed!Reposition, max

\* A client is registered.
LEMMA RegisterRefines ==
  ASSUME Inv, FeedInv, NEW f \in Fingerprint, NEW n \in Nat, Register(f, n)
  PROVE  FeedInv' /\ Feed!Reposition(f)
<1>1. PICK F \in SUBSET Fingerprint :
        /\ mq \in ManagerOf(F, Nat, EventData) /\ Consistent(mq)
        /\ DOMAIN mq.queues = F /\ mq.queues \in [F -> Nat]
        /\ Len(mq.currentGameEvents) = Feed!EventsOf(OnAir)
        /\ Feed!EventsOf(OnAir) \in Nat
  BY FeedMeans
<1> DEFINE max == Feed!EventsOf(OnAir)  cursor == Least(Len(mq.currentGameEvents), n)
           q == [x \in F \cup {f} |-> IF x = f THEN cursor ELSE mq.queues[x]]
<1>2. mq' = AddQueue(mq, f, n) /\ UNCHANGED <<published, datagram>>
  BY DEF Register
<1>3. cursor \in 0 .. max /\ \A d \in F : mq.queues[d] \in 0 .. max
  BY <1>1 DEF Least, Consistent, QueuesInRange
<1>4. /\ mq'.currentGameEvents = mq.currentGameEvents /\ mq'.nextGames = mq.nextGames
      /\ mq'.currentlyBroadcastedGameId = mq.currentlyBroadcastedGameId
      /\ mq'.queues = IF f \in F THEN mq.queues ELSE q
  BY <1>1, <1>2 DEF AddQueue, With, ManagerOf
<1> HIDE DEF max, cursor
<1>5. DOMAIN mq'.queues = F \cup {f}
  BY <1>1, <1>4
<1>6. \A d \in F \cup {f} : IF d = f THEN mq'.queues[d] \in 0 .. max ELSE mq'.queues[d] = mq.queues[d]
  BY <1>1, <1>3, <1>4
<1>7. FeedInv' /\ OnAir' = OnAir
  BY <1>2, <1>4, KeepsFeedInv
<1> QED BY <1>1, <1>2, <1>5, <1>6, <1>7 DEF Feed!Reposition, max

\* A client is dropped.
LEMMA DropRefines ==
  ASSUME Inv, FeedInv, NEW f \in Fingerprint, Drop(f)
  PROVE  FeedInv' /\ Feed!Reposition(f)
<1>1. PICK F \in SUBSET Fingerprint :
        /\ mq \in ManagerOf(F, Nat, EventData)
        /\ DOMAIN mq.queues = F /\ mq.queues \in [F -> Nat]
  BY FeedMeans
<1>2. mq' = DropQueue(mq, f) /\ UNCHANGED <<published, datagram>>
  BY DEF Drop
<1>3. /\ mq'.currentGameEvents = mq.currentGameEvents /\ mq'.nextGames = mq.nextGames
      /\ mq'.currentlyBroadcastedGameId = mq.currentlyBroadcastedGameId
      /\ mq'.queues = [x \in F \ {f} |-> mq.queues[x]]
  BY <1>1, <1>2 DEF DropQueue, Without, ManagerOf
<1>4. FeedInv' /\ OnAir' = OnAir
  BY <1>2, <1>3, KeepsFeedInv
<1> QED BY <1>1, <1>2, <1>3, <1>4 DEF Feed!Reposition

\* A datagram is handed out, and its recipient's queue moves to its end or stays.
LEMMA SendRefines ==
  ASSUME Inv, FeedInv, CanSend, UNCHANGED published,
         NEW m \in NextMessages(mq), datagram' = m,
         mq'.currentGameEvents = AdvanceGame(mq).currentGameEvents,
         mq'.nextGames = AdvanceGame(mq).nextGames,
         mq'.currentlyBroadcastedGameId = AdvanceGame(mq).currentlyBroadcastedGameId,
         NEW x \in {AdvanceGame(mq).queues[m.to], m.ack},
         mq'.queues = [AdvanceGame(mq).queues EXCEPT ![m.to] = x]
  PROVE  FeedInv' /\ \E c \in DOMAIN mq.queues : Feed!Deliver(c)
<1>1. PICK F \in SUBSET Fingerprint :
        /\ mq \in ManagerOf(F, Nat, EventData) /\ Consistent(mq)
        /\ DOMAIN mq.queues = F /\ mq.queues \in [F -> Nat]
        /\ Len(mq.currentGameEvents) = Feed!EventsOf(OnAir)
        /\ Feed!EventsOf(OnAir) \in Nat
        /\ Feed!EverybodyThere <=> ~HasPendingMessages(mq)
  BY FeedMeans
<1> DEFINE a == OnAirOf(mq)  b == IF HasPendingMessages(mq) THEN a ELSE a + 1
           n == AdvanceGame(mq)  f == Recipient(mq)  len == published[b]
           place(d) == IF HasPendingMessages(mq) THEN mq.queues[d] ELSE 0
<1>2. ~IsEmpty(mq) /\ F # {} /\ published \in Counts /\ IsFeed(mq, a, published, Says, MaxGames)
  BY <1>1 DEF CanSend, Registered, FeedInv
<1>3. /\ IsFeed(n, b, published, Says, MaxGames) /\ b \in 1 .. Len(published)
      /\ n.currentlyBroadcastedGameId = b
      /\ n.queues = [d \in F |-> place(d)]
  BY <1>1, <1>2, AdvanceFeed
<1>4. f \in F
  <2>1. \A k \in NextMessages(mq) : k.to \in F
    BY <1>1, <1>2, SendConsistent
  <2>2. m.to = f
    BY DEF NextMessages
  <2> QED BY <2>1, <2>2
<1>5. Feed!NextOnAir = b /\ OnAir = a /\ \A d : Feed!Place(d) = place(d)
  BY <1>1 DEF Feed!NextOnAir, Feed!Place, OnAir, OnAirOf
<1> HIDE DEF a, b, n, f, place
<1>6. b # 0 /\ len \in Nat /\ n.currentGameEvents = NumberedGame(Says, b, len)
  BY <1>2, <1>3 DEF IsFeed, CountOf, Counts
<1>7. Len(n.currentGameEvents) = len /\ Feed!EventsOf(b) = len
  BY <1>6, NumberedGameIs DEF Feed!EventsOf
<1>8. PICK upTo \in place(f) + 1 .. len :
        m = [to |-> f, gameId |-> b,
             events |-> SubSeq(n.currentGameEvents, place(f) + 1, upTo), ack |-> upTo]
  <2>1. n.queues[f] = place(f)
    BY <1>3, <1>4
  <2>2. PICK upTo \in n.queues[f] + 1 .. Len(n.currentGameEvents) :
          m = [to |-> f, gameId |-> n.currentlyBroadcastedGameId,
               events |-> SubSeq(n.currentGameEvents, n.queues[f] + 1, upTo), ack |-> upTo]
    BY DEF NextMessages, n, f
  <2> QED BY <1>3, <1>7, <2>1, <2>2
<1>9. place(f) \in Nat /\ upTo \in Nat /\ upTo <= len /\ place(f) < upTo
  BY <1>1, <1>4, <1>6, <1>8 DEF place
<1>10. SubSeq(n.currentGameEvents, place(f) + 1, upTo) = Feed!Slice(b, place(f), upTo)
  <2>1. b \in Nat
    BY <1>3
  <2> DEFINE p == place(f)
  <2>2. p \in Nat /\ len \in Nat /\ upTo \in Nat /\ p < upTo /\ upTo <= len
    BY <1>6, <1>9
  <2> HIDE DEF len, p
  <2>3. SubSeq(NumberedGame(Says, b, len), p + 1, upTo) = Feed!Slice(b, p, upTo)
    BY ONLY <2>1, <2>2, FeedSlice
  <2> QED BY <1>6, <2>3 DEF p
<1>11. FeedInv' /\ OnAir' = b
  <2>1. IsFeed(mq', b, published, Says, MaxGames)
    BY <1>3, SameFeed DEF n
  <2>2. OnAirOf(mq') = b
    BY <1>2, <2>1, OnAirIs
  <2>3. OnAir' = OnAirOf(mq')
    BY DEF OnAir, OnAirOf
  <2> QED BY <1>2, <2>1, <2>2, <2>3 DEF FeedInv, OnAirOf
<1>12. datagram' = [to |-> f, gameId |-> b, ack |-> upTo, events |-> Feed!Slice(b, place(f), upTo)]
  BY <1>8, <1>10
<1>13. mq'.queues = [d \in F |-> IF d = f THEN x ELSE place(d)] /\ x \in {place(f), upTo}
  BY <1>3, <1>4, <1>8 DEF n
<1>14. Feed!Deliver(f)
  <2>1. b \in DOMAIN published
    BY <1>2, <1>3 DEF Counts
  <2>2. mq'.queues = [d \in DOMAIN mq.queues |-> IF d = f THEN x ELSE Feed!Place(d)]
    <3> DEFINE place2(d) == Feed!Place(d)
    <3>1. \A d : place2(d) = place(d)
      BY <1>5
    <3> HIDE DEF place2
    <3>2. mq'.queues = [d \in DOMAIN mq.queues |-> IF d = f THEN x ELSE place2(d)]
      BY <1>1, <1>13, <3>1
    <3> QED BY <3>2 DEF place2
  <2>3. Feed!Place(f) = place(f)
    BY <1>5
  <2> HIDE DEF len
  <2>4. upTo \in Feed!Place(f) + 1 .. Feed!EventsOf(Feed!NextOnAir)
    BY <1>5, <1>7, <2>3
  <2>5. datagram' = [to |-> f, gameId |-> Feed!NextOnAir, ack |-> upTo,
                     events |-> Feed!Slice(Feed!NextOnAir, Feed!Place(f), upTo)]
    BY <1>5, <1>12, <2>3
  <2>6. x \in {Feed!Place(f), upTo}
    BY <1>13, <2>3
  <2>7. Feed!NextOnAir \in DOMAIN published /\ OnAir' = Feed!NextOnAir
    BY <1>5, <1>11, <2>1
  <2> QED BY ONLY <2>2, <2>4, <2>5, <2>6, <2>7, UNCHANGED published DEF Feed!Deliver
<1> QED BY <1>1, <1>4, <1>11, <1>14

LEMMA FeedStep == Inv /\ FeedInv /\ [Next]_vars => FeedInv' /\ [Feed!FeedNext]_(Feed!feedVars)
<1> SUFFICES ASSUME Inv, FeedInv, [Next]_vars
             PROVE  FeedInv' /\ (Feed!FeedNext \/ UNCHANGED Feed!feedVars)
  OBVIOUS
<1>1. CASE ScheduleNewGame \/ ScheduleEvent
  BY <1>1, PublishRefines DEF Feed!FeedNext
<1>2. ASSUME NEW f \in Fingerprint, NEW n \in 0 .. MaxEvents, ClientAck(f, n) \/ Register(f, n)
      PROVE  FeedInv' /\ Feed!FeedNext
  <2>1. n \in Nat
    BY BoundsAssumption
  <2> QED BY <1>2, <2>1, AckRefines, RegisterRefines DEF Feed!FeedNext
<1>3. ASSUME NEW f \in Fingerprint, Drop(f) PROVE FeedInv' /\ Feed!FeedNext
  BY <1>3, DropRefines DEF Feed!FeedNext
<1>4. CASE SendSucceeds \/ SendFails
  <2> DEFINE a == AdvanceGame(mq)  n == AfterGetNextMessage(mq)
  <2>1. PICK m \in NextMessages(mq) : datagram' = m /\ mq' \in {n, Ack(n, m.to, m.ack)}
    BY <1>4 DEF SendSucceeds, SendFails
  <2>2. CanSend /\ UNCHANGED published
    BY <1>4 DEF SendSucceeds, SendFails
  <2>3. PICK F \in SUBSET Fingerprint :
          mq \in ManagerOf(F, Nat, EventData) /\ Consistent(mq) /\ DOMAIN mq.queues = F
    BY FeedMeans
  <2>4. a \in ManagerOf(F, Nat, EventData) /\ Consistent(a)
    BY <2>3, AdvanceGameConsistent
  <2>5. n \in ManagerOf(F, Nat, EventData) /\ m.to \in F
    BY <2>1, <2>2, <2>3, SendConsistent DEF CanSend, Registered
  <2>6. /\ n.currentGameEvents = a.currentGameEvents /\ n.nextGames = a.nextGames
        /\ n.currentlyBroadcastedGameId = a.currentlyBroadcastedGameId /\ n.queues = a.queues
    <3>1. n = [a EXCEPT !.clientsToServeSchedule = Rotate(@, TurnOf(a))]
      BY DEF AfterGetNextMessage
    <3> HIDE DEF a, n
    <3> QED BY <2>4, <3>1 DEF ManagerOf
  <2>7. m.ack \in 0 .. Len(a.currentGameEvents)
    <3>1. PICK upTo \in a.queues[Recipient(mq)] + 1 .. Len(a.currentGameEvents) : m.ack = upTo
      BY <2>1 DEF NextMessages
    <3>2. m.to = Recipient(mq)
      BY <2>1 DEF NextMessages
    <3> HIDE DEF a
    <3>3. a.queues[m.to] \in Nat
      BY <2>4, <2>5 DEF ManagerOf
    <3> QED BY <3>1, <3>2, <3>3
  <2> HIDE DEF a, n
  <2>8. /\ mq'.currentGameEvents = a.currentGameEvents /\ mq'.nextGames = a.nextGames
        /\ mq'.currentlyBroadcastedGameId = a.currentlyBroadcastedGameId
        /\ mq'.queues \in {a.queues, [a.queues EXCEPT ![m.to] = m.ack]}
    <3>1. CASE mq' = n
      BY <2>6, <3>1
    <3>2. CASE mq' = Ack(n, m.to, m.ack)
      <4>1. Least(Len(n.currentGameEvents), m.ack) = m.ack
        <5>1. Len(a.currentGameEvents) \in Nat
          BY <2>4 DEF ManagerOf
        <5> QED BY <2>6, <2>7, <5>1 DEF Least
      <4> QED BY <2>5, <2>6, <3>2, <4>1 DEF Ack, ManagerOf
    <3> QED BY <2>1, <3>1, <3>2
  <2>9. a.queues = [a.queues EXCEPT ![m.to] = a.queues[m.to]]
    BY <2>4, <2>5 DEF ManagerOf
  <2>10. PICK x \in {a.queues[m.to], m.ack} : mq'.queues = [a.queues EXCEPT ![m.to] = x]
    BY <2>8, <2>9
  <2>11. FeedInv' /\ \E c \in DOMAIN mq.queues : Feed!Deliver(c)
    BY <2>1, <2>2, <2>8, <2>10, SendRefines DEF a
  <2> QED BY <2>11 DEF Feed!FeedNext
<1>5. CASE UNCHANGED vars
  <2>1. FeedInv' /\ OnAir' = OnAir
    BY <1>5, KeepsFeedInv DEF vars
  <2> QED BY <1>5, <2>1 DEF vars, Feed!feedVars
<1> QED BY <1>1, <1>2, <1>3, <1>4, <1>5 DEF Next

LEMMA FeedInit == NotYetOnAir /\ Init => FeedInv /\ Feed!FeedInit
<1> SUFFICES ASSUME NotYetOnAir, Init PROVE FeedInv /\ Feed!FeedInit
  OBVIOUS
<1>1. PICK id \in InitialGameIds : mq = NewMQManager(id)
  BY DEF Init
<1>2. published = <<>> /\ datagram.events = <<>>
  BY DEF Init, NoDatagram
<1>3. /\ mq.currentGameEvents = <<>> /\ mq.nextGames = <<>> /\ DOMAIN mq.queues = {}
      /\ mq.currentlyBroadcastedGameId = id
  BY <1>1 DEF NewMQManager, EmptyMap
<1>4. NumberedGame(Says, 0, 0) = <<>>
  BY DEF NumberedGame
<1>5. id \notin 2 .. MaxGames
  BY DEF NotYetOnAir
<1>6. IsFeed(mq, 0, published, Says, MaxGames)
  BY <1>2, <1>3, <1>4, <1>5 DEF IsFeed, CountOf
<1>7. OnAirOf(mq) = 0 /\ OnAir = 0
  BY <1>3 DEF OnAirOf, OnAir
<1>8. published \in Counts /\ Len(published) <= MaxGames
  BY <1>2, BoundsAssumption DEF Counts
<1> QED BY <1>2, <1>3, <1>6, <1>7, <1>8 DEF FeedInv, Feed!FeedInit

\* Games go out one after another and every client is given each event of each in order,
\* whoever comes, goes, acknowledges or misses a datagram: the manager implements EventFeed,
\* unless the uninitialised identifier is that of a later game.
THEOREM FeedKept == NotYetOnAir /\ Spec => KeepsFeed
BY FeedInit, FeedStep, Invariance, InitInv, NextInv, PTL DEF Spec, KeepsFeed, Feed!FeedSpec
=============================================================================
