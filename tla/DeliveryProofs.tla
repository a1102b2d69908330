--------------------------- MODULE DeliveryProofs ---------------------------
(***************************************************************************)
(* End to end: however datagrams and acknowledgements are lost, repeated   *)
(* and reordered, whoever expires and whichever client is started again,   *)
(* the interface of every client is told of its game what was played, from *)
(* the first event on.  For any number of clients, games and faults.       *)
(*                                                                         *)
(* The inductive invariant Inv follows an event on its way: it is in the   *)
(* queues as it was played (Queued), in a datagram with its own number     *)
(* (IsPlayed), and under that number in the client (ClientInv), which has  *)
(* no event of a worm without the names of its game (NamesKnown).          *)
(***************************************************************************)
EXTENDS Delivery, MQOperationsProofs

\* What the events of Delivery say
Says == [g \in Nat |-> [i \in Nat |-> EventOf(g, i - 1)]]
Data == {EventOf(g, n) : g \in Nat, n \in Nat}

LEMMA SaysIs ==
  ASSUME NEW g \in Nat, NEW n \in Nat
  PROVE  Says[g][n + 1] = EventOf(g, n) /\ EventOf(g, n) \in Data
<1>1. n + 1 \in Nat /\ n + 1 - 1 = n
  OBVIOUS
<1>2. Says[g][n + 1] = EventOf(g, n + 1 - 1)
  BY <1>1 DEF Says
<1> QED BY <1>1, <1>2 DEF Data

-----------------------------------------------------------------------------
(* The server *)

\* The manager m has the clients of F registered and holds the games of p.
Queued(m, F, p) ==
    /\ m \in ManagerOf(F, Nat, Data) /\ Consistent(m)
    /\ \E a : IsFeed(m, a, p, Says, MaxGames)

QueuesInv ==
    /\ published \in Counts /\ Len(published) <= MaxGames
    /\ \A g \in DOMAIN published : published[g] <= GameLength
    /\ Queued(mq, DOMAIN watchers, published)
    /\ DOMAIN watchers \subseteq Fingerprint

\* An event of a datagram, and a datagram, of the games of p
IsPlayedEvent(e, g, p) ==
    e.no \in Nat /\ e.no < p[g] /\ e = [no |-> e.no, data |-> EventOf(g, e.no)]

IsPlayed(d, p) ==
    /\ d.gameId \in DOMAIN p /\ d.events # <<>>
    /\ \A e \in ToSet(d.events) : IsPlayedEvent(e, d.gameId, p)

\* What the clients do to the queues leaves the games alone.
LEMMA QueuedAck ==
  ASSUME NEW m, NEW F, NEW p, Queued(m, F, p), NEW f \in F, NEW n \in Nat
  PROVE  Queued(Ack(m, f, n), F, p)
<1>1. Ack(m, f, n) \in ManagerOf(F, Nat, Data) /\ Consistent(Ack(m, f, n))
  BY AckConsistent DEF Queued
<1>2. m \in ManagerOf(F, Nat, Data)
  BY DEF Queued
<1>3. /\ Ack(m, f, n).currentGameEvents = m.currentGameEvents
      /\ Ack(m, f, n).nextGames = m.nextGames
      /\ Ack(m, f, n).currentlyBroadcastedGameId = m.currentlyBroadcastedGameId
  BY <1>2 DEF Ack, ManagerOf
<1> QED BY <1>1, <1>3, SameFeed DEF Queued

LEMMA QueuedAdd ==
  ASSUME NEW m, NEW F, NEW p, Queued(m, F, p), NEW f, NEW n \in Nat
  PROVE  Queued(AddQueue(m, f, n), F \cup {f}, p)
<1>1. AddQueue(m, f, n) \in ManagerOf(F \cup {f}, Nat, Data) /\ Consistent(AddQueue(m, f, n))
  BY AddQueueConsistent DEF Queued
<1>2. m \in ManagerOf(F, Nat, Data)
  BY DEF Queued
<1>3. /\ AddQueue(m, f, n).currentGameEvents = m.currentGameEvents
      /\ AddQueue(m, f, n).nextGames = m.nextGames
      /\ AddQueue(m, f, n).currentlyBroadcastedGameId = m.currentlyBroadcastedGameId
  BY <1>2 DEF AddQueue, ManagerOf
<1> QED BY <1>1, <1>3, SameFeed DEF Queued

LEMMA QueuedDrop ==
  ASSUME NEW m, NEW F, NEW p, Queued(m, F, p), NEW f
  PROVE  Queued(DropQueue(m, f), F \ {f}, p)
<1>1. DropQueue(m, f) \in ManagerOf(F \ {f}, Nat, Data) /\ Consistent(DropQueue(m, f))
  BY DropQueueConsistent DEF Queued
<1>2. m \in ManagerOf(F, Nat, Data)
  BY DEF Queued
<1>3. /\ DropQueue(m, f).currentGameEvents = m.currentGameEvents
      /\ DropQueue(m, f).nextGames = m.nextGames
      /\ DropQueue(m, f).currentlyBroadcastedGameId = m.currentlyBroadcastedGameId
  BY <1>2 DEF DropQueue, ManagerOf
<1> QED BY <1>1, <1>3, SameFeed DEF Queued

\* getNextMessage may put the next game on air; its datagram is of the one on air then.
LEMMA QueuedSend ==
  ASSUME NEW m, NEW F, NEW p \in Counts, Queued(m, F, p), ~IsEmpty(m), F # {}
  PROVE  /\ Queued(AfterGetNextMessage(m), F, p)
         /\ \A d \in NextMessages(m) : d.to \in F /\ d.ack \in Nat /\ IsPlayed(d, p)
<1> DEFINE n == AdvanceGame(m)  f == Recipient(m)
<1>1. m \in ManagerOf(F, Nat, Data) /\ Consistent(m)
  BY DEF Queued
<1>2. PICK a : IsFeed(m, a, p, Says, MaxGames)
  BY DEF Queued
<1> DEFINE b == IF HasPendingMessages(m) THEN a ELSE a + 1
<1>3. IsFeed(n, b, p, Says, MaxGames) /\ b \in 1 .. Len(p) /\ n.currentlyBroadcastedGameId = b
  <2>1. b = IF HasPendingMessages(m) THEN a ELSE a + 1
    OBVIOUS
  <2> HIDE DEF b
  <2>2. ~IsEmpty(m) /\ m \in ManagerOf(F, Nat, Data)
    BY <1>1
  <2>3. IsFeed(AdvanceGame(m), b, p, Says, MaxGames)
    BY ONLY p \in Counts, <1>2, <2>1, <2>2, AdvanceFeed
  <2>4. b \in 1 .. Len(p)
    BY ONLY p \in Counts, <1>2, <2>1, <2>2, <2>3, AdvanceFeed
  <2> QED BY <2>3, <2>4 DEF IsFeed
<1>4. /\ AfterGetNextMessage(m) \in ManagerOf(F, Nat, Data) /\ Consistent(AfterGetNextMessage(m))
      /\ \A d \in NextMessages(m) : d.to \in F /\ d.ack \in Nat
  BY <1>1, SendConsistent
<1>5. n \in ManagerOf(F, Nat, Data)
  BY <1>1, AdvanceGameConsistent
<1>6. AfterGetNextMessage(m) = [n EXCEPT !.clientsToServeSchedule = Rotate(@, TurnOf(n))]
  BY DEF AfterGetNextMessage
<1> HIDE DEF n, b, f
<1>7. Queued(AfterGetNextMessage(m), F, p)
  <2>1. /\ AfterGetNextMessage(m).currentGameEvents = n.currentGameEvents
        /\ AfterGetNextMessage(m).nextGames = n.nextGames
        /\ AfterGetNextMessage(m).currentlyBroadcastedGameId = n.currentlyBroadcastedGameId
    BY <1>5, <1>6 DEF ManagerOf
  <2> QED BY <1>3, <1>4, <2>1, SameFeed DEF Queued
<1>8. ASSUME NEW d \in NextMessages(m) PROVE IsPlayed(d, p)
  <2> DEFINE q == n.queues[f]
  <2>1. PICK upTo \in q + 1 .. Len(n.currentGameEvents) :
          d = [to |-> f, gameId |-> n.currentlyBroadcastedGameId,
               events |-> SubSeq(n.currentGameEvents, q + 1, upTo), ack |-> upTo]
    BY DEF NextMessages, n, f
  <2>2. p[b] \in Nat /\ b # 0 /\ b \in DOMAIN p
    BY <1>3 DEF Counts
  <2>3. n.currentGameEvents = NumberedGame(Says, b, p[b]) /\ Len(n.currentGameEvents) = p[b]
    BY <1>3, <2>2, NumberedGameIs DEF IsFeed, CountOf
  <2>4. q \in Nat
    <3>1. d.to = f
      BY <2>1
    <3> QED BY <1>4, <1>5, <3>1 DEF ManagerOf
  <2> HIDE DEF q
  <2>5. upTo \in Nat /\ q < upTo /\ upTo <= p[b]
    BY <2>1, <2>2, <2>3, <2>4
  <2>6. SubSeq(NumberedGame(Says, b, p[b]), q + 1, upTo) = SliceOf(Says, b, q, upTo)
    BY ONLY <2>2, <2>4, <2>5, SliceIs
  <2>7. d.gameId = b /\ d.events = SliceOf(Says, b, q, upTo)
    BY <1>3, <2>1, <2>3, <2>6
  <2>8. ASSUME NEW e \in ToSet(d.events) PROVE IsPlayedEvent(e, b, p)
    <3>1. PICK k \in 1 .. upTo - q : e = [no |-> q + k - 1, data |-> Says[b][q + k]]
      BY <2>4, <2>5, <2>7, <2>8 DEF SliceOf, ToSet
    <3>2. q + k - 1 \in Nat /\ (q + k - 1) + 1 = q + k /\ q + k - 1 < p[b] /\ b \in Nat
      BY <1>3, <2>2, <2>4, <2>5
    <3>3. Says[b][q + k] = EventOf(b, q + k - 1)
      <4> DEFINE j == q + k - 1
      <4>1. Says[b][j + 1] = EventOf(b, j)
        BY <3>2, SaysIs
      <4> QED BY <3>2, <4>1
    <3> QED BY <3>1, <3>2, <3>3 DEF IsPlayedEvent
  <2>9. d.events # <<>>
    <3>1. 1 \in DOMAIN d.events
      BY <2>4, <2>5, <2>7 DEF SliceOf
    <3> QED BY <3>1
  <2> QED BY <2>2, <2>7, <2>8, <2>9 DEF IsPlayed
<1> QED BY <1>4, <1>7, <1>8
\* More has been played.
Longer(p, q) == \A g \in DOMAIN p : g \in DOMAIN q /\ p[g] <= q[g]

\* An event is published.
LEMMA PublishInv ==
  ASSUME QueuesInv, Publish
  PROVE  QueuesInv' /\ Longer(published, published')
<1> DEFINE p == published  n == Len(published)  F == DOMAIN watchers
<1>1. p \in Counts /\ n <= MaxGames /\ n \in Nat /\ MaxGames \in Nat
  BY DeliveryAssumption DEF QueuesInv, Counts
<1>2. mq \in ManagerOf(F, Nat, Data) /\ Consistent(mq)
  BY DEF QueuesInv, Queued
<1>3. PICK a : IsFeed(mq, a, p, Says, MaxGames)
  BY DEF QueuesInv, Queued
<1>4. CASE n # 0 /\ p[n] < GameLength
  <2>1. mq' = Schedule(mq, n, EventOf(n, p[n])) /\ published' = [p EXCEPT ![n] = @ + 1]
    BY <1>4 DEF Publish
  <2>2. p[n] \in Nat \ {0}
    BY <1>1, <1>4 DEF Counts
  <2>3. Says[n][p[n] + 1] = EventOf(n, p[n]) /\ EventOf(n, p[n]) \in Data
    BY <1>1, <2>2, SaysIs
  <2>4. mq' \in ManagerOf(F, Nat, Data) /\ Consistent(mq')
    BY <1>1, <1>2, <2>1, <2>3, ScheduleConsistent
  <2>5. IsFeed(mq', a, published', Says, MaxGames)
    <3> HIDE DEF n, p, F
    <3>1. n = Len(p) /\ Len(p) # 0
      BY <1>4 DEF n, p
    <3>2. IsFeed(Schedule(mq, n, Says[n][p[n] + 1]), a, [p EXCEPT ![n] = @ + 1], Says, MaxGames)
      BY ONLY <1>1, <1>2, <1>3, <3>1, ScheduleFeed
    <3> QED BY <2>1, <2>3, <3>2
  <2>6. /\ published' \in Counts /\ Len(published') = n
        /\ \A g \in DOMAIN published' : published'[g] = IF g = n THEN p[n] + 1 ELSE p[g]
        /\ DOMAIN published' = DOMAIN p
    <3> DEFINE q == published'
    <3>1. q = [p EXCEPT ![n] = @ + 1] /\ p \in Seq(Nat \ {0}) /\ p[n] + 1 \in Nat \ {0}
      BY <1>1, <2>1, <2>2 DEF Counts
    <3>2. n = Len(p) /\ DOMAIN p = 1 .. n
      BY <3>1
    <3> HIDE DEF q, n, p
    <3>3. q = [i \in 1 .. n |-> IF i = n THEN p[n] + 1 ELSE p[i]]
      BY <3>1, <3>2
    <3>4. \A i \in 1 .. n : q[i] \in Nat \ {0}
      BY <3>1, <3>2, <3>3
    <3>5. q \in Seq(Nat \ {0}) /\ Len(q) = n
      <4>1. q = [i \in 1 .. n |-> q[i]]
        BY <3>3
      <4> QED BY <1>1, <3>4, <4>1, IsASeq
    <3> QED BY <3>2, <3>3, <3>5 DEF q, Counts
  <2>7. \A g \in DOMAIN p : p[g] \in Nat /\ p[g] <= GameLength
    BY <1>1 DEF QueuesInv, Counts
  <2>8. \A g \in DOMAIN published' : published'[g] <= GameLength /\ p[g] <= published'[g]
    BY <1>4, <2>2, <2>6, <2>7, DeliveryAssumption
  <2>9. watchers' = watchers
    BY DEF Publish
  <2> QED BY <1>1, <2>4, <2>5, <2>6, <2>8, <2>9 DEF QueuesInv, Queued, Longer
<1>5. CASE ~(n # 0 /\ p[n] < GameLength)
  <2> DEFINE g == n + 1
  <2>1. n < MaxGames /\ mq' = Schedule(mq, g, EventOf(g, 0)) /\ published' = Append(p, 1)
    BY <1>5 DEF Publish
  <2>2. Says[g][1] = EventOf(g, 0) /\ EventOf(g, 0) \in Data /\ g \in Nat
    <3>1. g \in Nat /\ 0 + 1 = 1
      BY <1>1
    <3> HIDE DEF g
    <3>2. Says[g][0 + 1] = EventOf(g, 0) /\ EventOf(g, 0) \in Data
      BY <3>1, SaysIs
    <3> QED BY <3>1, <3>2
  <2>3. mq' \in ManagerOf(F, Nat, Data) /\ Consistent(mq')
    BY <1>2, <2>1, <2>2, ScheduleConsistent
  <2>4. \E b : IsFeed(mq', b, published', Says, MaxGames)
    <3> HIDE DEF p, F
    <3>1. g = Len(p) + 1 /\ Len(p) + 1 <= MaxGames /\ Says[g][1] \in Data
      BY <1>1, <2>1, <2>2 DEF p
    <3> HIDE DEF g
    <3>2. \/ IsFeed(Schedule(mq, g, Says[g][1]), a, Append(p, 1), Says, MaxGames)
          \/ a = 0 /\ IsFeed(Schedule(mq, g, Says[g][1]), 1, Append(p, 1), Says, MaxGames)
      BY ONLY <1>1, <1>2, <1>3, <3>1, ScheduleNewFeed
    <3> QED BY <2>1, <2>2, <3>2
  <2>5. /\ published' \in Counts /\ Len(published') = n + 1
        /\ \A k \in DOMAIN published' : published'[k] = IF k = n + 1 THEN 1 ELSE p[k]
        /\ DOMAIN p \subseteq DOMAIN published' /\ n + 1 \notin DOMAIN p
        /\ \A k \in DOMAIN published' : k # n + 1 => k \in DOMAIN p
    BY <1>1, <2>1 DEF Counts
  <2>6. \A k \in DOMAIN p : p[k] \in Nat /\ p[k] <= GameLength
    BY <1>1 DEF QueuesInv, Counts
  <2>7. \A k \in DOMAIN published' : published'[k] <= GameLength
    BY <2>5, <2>6, DeliveryAssumption
  <2>8. Longer(p, published')
    <3>1. \A k \in DOMAIN p : k # n + 1 /\ k \in DOMAIN published' /\ published'[k] = p[k]
      BY <2>5
    <3> QED BY <2>6, <3>1 DEF Longer
  <2>9. watchers' = watchers
    BY DEF Publish
  <2> QED BY <1>1, <2>1, <2>3, <2>4, <2>5, <2>7, <2>8, <2>9 DEF QueuesInv, Queued
<1> QED BY <1>4, <1>5
-----------------------------------------------------------------------------
(* The clients *)

\* A line as it is told, and a client of any kind
Line == [game : Nat, names : Nat, event : NumberedEvent(Data)]

IsClient(c) ==
    /\ c = [gameId |-> c.gameId, seenGameIds |-> c.seenGameIds, playersInGame |-> c.playersInGame,
            playerNames |-> c.playerNames, events |-> c.events,
            nextWantedEventNo |-> c.nextWantedEventNo, nextEventToSendNo |-> c.nextEventToSendNo]
    /\ c.nextWantedEventNo \in Nat /\ c.playerNames \in Nat

\* The events known of the game g were played, and are known under their numbers.
ArePlayed(events, g, p) ==
    \A n \in DOMAIN events : IsPlayedEvent(events[n], g, p) /\ events[n].no = n

\* The client knows nothing but its game, and has counted no further than that.
HoldsItsGame(c, p) ==
    /\ c.gameId \in DOMAIN p /\ c.gameId \in c.seenGameIds
    /\ c.nextEventToSendNo = c.nextWantedEventNo /\ c.nextWantedEventNo <= p[c.gameId]
    /\ ArePlayed(c.events, c.gameId, p)

\* t is what was told of the game g up to its n-th event.
IsTold(t, g, n) ==
    /\ t \in Seq(Line) /\ Len(t) = n
    /\ \A i \in 1 .. n : t[i].game = g /\ t[i].event = [no |-> i - 1, data |-> EventOf(g, i - 1)]

\* A client that knows the players knows the names of its game, and without them it has no
\* event of a worm.
OfWorm(event) == event.data.type \in {"PIXEL", "PLAYER_ELIMINATED"}

NamesKnown(c) ==
    /\ c.playersInGame => c.playerNames = c.gameId
    /\ \A n \in DOMAIN c.events : OfWorm(c.events[n]) => c.playersInGame

\* The names in what was told are those of the game c is at, except in a NEW_GAME that came
\* late.
IsNamed(line, c) ==
    \/ line.event.data.type = "GAME_OVER"
    \/ line.names = c.gameId
    \/ line.event.data.type = "NEW_GAME" /\ ~c.playersInGame

AreNamed(t, c) == \A i \in DOMAIN t : IsNamed(t[i], c)

ClientInv(c, t, p) ==
    /\ IsClient(c) /\ NamesKnown(c) /\ AreNamed(t, c)
    /\ \/ c.gameId = NoGame /\ t = <<>>
       \/ HoldsItsGame(c, p) /\ IsTold(t, c.gameId, c.nextWantedEventNo)

\* A client remains what it is when more is played.
LEMMA LongerHolds ==
  ASSUME NEW p \in Counts, NEW q \in Counts, Longer(p, q), NEW c, NEW t, ClientInv(c, t, p)
  PROVE  ClientInv(c, t, q)
<1>1. CASE c.gameId = NoGame /\ t = <<>>
  BY <1>1 DEF ClientInv
<1>2. CASE HoldsItsGame(c, p) /\ IsTold(t, c.gameId, c.nextWantedEventNo)
  <2> DEFINE g == c.gameId
  <2>1. g \in DOMAIN p /\ g \in DOMAIN q /\ p[g] \in Nat /\ q[g] \in Nat /\ p[g] <= q[g]
    BY <1>2 DEF HoldsItsGame, Longer, Counts
  <2>2. ArePlayed(c.events, g, q)
    BY <1>2, <2>1 DEF HoldsItsGame, ArePlayed, IsPlayedEvent
  <2>3. c.nextWantedEventNo <= q[g]
    BY <1>2, <2>1 DEF HoldsItsGame, ClientInv, IsClient
  <2> QED BY <1>2, <2>1, <2>2, <2>3 DEF ClientInv, HoldsItsGame
<1> QED BY <1>1, <1>2 DEF ClientInv

\* So does a datagram.
LEMMA LongerPlayed ==
  ASSUME NEW p \in Counts, NEW q \in Counts, Longer(p, q), NEW d, IsPlayed(d, p)
  PROVE  IsPlayed(d, q)
<1> DEFINE g == d.gameId
<1>1. g \in DOMAIN p /\ g \in DOMAIN q /\ p[g] \in Nat /\ q[g] \in Nat /\ p[g] <= q[g]
  BY DEF IsPlayed, Longer, Counts
<1> QED BY <1>1 DEF IsPlayed, IsPlayedEvent

\* What a datagram adds was played.
LEMMA AddEventsPlayed ==
  ASSUME NEW p, NEW g, NEW known, NEW new,
         ArePlayed(known, g, p), \A e \in new : IsPlayedEvent(e, g, p)
  PROVE  ArePlayed(AddEvents(known, new), g, p)
<1> DEFINE all == AddEvents(known, new)
<1>1. DOMAIN all = DOMAIN known \cup {e.no : e \in new}
  BY DEF AddEvents
<1>2. ASSUME NEW n \in DOMAIN all PROVE IsPlayedEvent(all[n], g, p) /\ all[n].no = n
  <2>1. CASE n \in DOMAIN known
    BY <1>1, <2>1 DEF AddEvents, ArePlayed
  <2>2. CASE n \notin DOMAIN known
    <3>1. PICK y \in new : y.no = n
      BY <1>1, <2>2
    <3> DEFINE x == CHOOSE e \in new : e.no = n
    <3>2. x \in new /\ x.no = n
      BY <3>1
    <3>3. all[n] = x
      BY <1>1, <2>2 DEF AddEvents
    <3> HIDE DEF x, all
    <3> QED BY <3>2, <3>3
  <2> QED BY <2>1, <2>2
<1> QED BY <1>2 DEF ArePlayed

LEMMA ReadCurrentGameHolds ==
  ASSUME NEW p, NEW c, IsClient(c), HoldsItsGame(c, p), NEW d, IsPlayed(d, p), d.gameId = c.gameId,
         NEW r, r = ReadCurrentGame(c, d)
  PROVE  /\ IsClient(r) /\ HoldsItsGame(r, p)
         /\ r.gameId = c.gameId /\ r.seenGameIds = c.seenGameIds
         /\ r.nextWantedEventNo = c.nextWantedEventNo
<1> DEFINE all == AddEvents(c.events, ToSet(d.events))
<1>1. ArePlayed(all, c.gameId, p)
  BY AddEventsPlayed DEF HoldsItsGame, IsPlayed
<1>2. r = [c EXCEPT !.events = all]
  BY DEF ReadCurrentGame
<1> HIDE DEF all
<1>3. /\ r.gameId = c.gameId /\ r.seenGameIds = c.seenGameIds
      /\ r.playersInGame = c.playersInGame /\ r.playerNames = c.playerNames /\ r.events = all
      /\ r.nextWantedEventNo = c.nextWantedEventNo /\ r.nextEventToSendNo = c.nextEventToSendNo
      /\ r = [gameId |-> r.gameId, seenGameIds |-> r.seenGameIds,
              playersInGame |-> r.playersInGame, playerNames |-> r.playerNames,
              events |-> r.events, nextWantedEventNo |-> r.nextWantedEventNo,
              nextEventToSendNo |-> r.nextEventToSendNo]
  BY <1>2 DEF IsClient
<1> QED BY <1>1, <1>3 DEF IsClient, HoldsItsGame

LEMMA ReadNewGameHolds ==
  ASSUME NEW p \in Counts, NEW c, IsClient(c), NEW d, IsPlayed(d, p), NEW r, r = ReadNewGame(c, d)
  PROVE  /\ IsClient(r) /\ HoldsItsGame(r, p)
         /\ r.gameId = d.gameId /\ r.seenGameIds = c.seenGameIds \cup {d.gameId}
         /\ r.nextWantedEventNo = 0
<1> DEFINE known == \E e \in ToSet(d.events) : e.data.type = "NEW_GAME"
           g == d.gameId  new == ToSet(d.events)
<1>1. g \in DOMAIN p /\ g \in Nat /\ p[g] \in Nat /\ \A e \in new : IsPlayedEvent(e, g, p)
  BY DEF IsPlayed, Counts
<1>2. r = [gameId            |-> g,
           seenGameIds       |-> c.seenGameIds \cup {g},
           playersInGame     |-> known,
           playerNames       |-> IF known THEN g ELSE c.playerNames,
           events            |-> IF known THEN AddEvents(NoEvents, new) ELSE NoEvents,
           nextWantedEventNo |-> 0,
           nextEventToSendNo |-> 0]
  BY DEF ReadNewGame
<1>3. ArePlayed(NoEvents, g, p)
  BY DEF NoEvents, ArePlayed
<1>4. ArePlayed(AddEvents(NoEvents, new), g, p)
  BY <1>1, <1>3, AddEventsPlayed
<1> HIDE DEF g, new, known
<1>5. /\ r.gameId = g /\ r.seenGameIds = c.seenGameIds \cup {g} /\ g \in r.seenGameIds /\ r.playerNames = (IF known THEN g ELSE c.playerNames)
      /\ r.events = (IF known THEN AddEvents(NoEvents, new) ELSE NoEvents)
      /\ r.nextWantedEventNo = 0 /\ r.nextEventToSendNo = 0
      /\ r = [gameId |-> r.gameId, seenGameIds |-> r.seenGameIds,
              playersInGame |-> r.playersInGame, playerNames |-> r.playerNames,
              events |-> r.events, nextWantedEventNo |-> r.nextWantedEventNo,
              nextEventToSendNo |-> r.nextEventToSendNo]
  BY <1>2
<1>6. ArePlayed(r.events, g, p) /\ r.playerNames \in Nat
  BY <1>1, <1>3, <1>4, <1>5 DEF IsClient
<1> QED BY <1>1, <1>5, <1>6 DEF IsClient, HoldsItsGame, g

LEMMA ReadCurrentGameNames ==
  ASSUME NEW c, IsClient(c), NamesKnown(c), NEW d, d.gameId = c.gameId, ~IsSenseless(c, d),
         NEW r, r = ReadCurrentGame(c, d)
  PROVE  NamesKnown(r) /\ r.playersInGame = c.playersInGame /\ r.gameId = c.gameId
<1> DEFINE new == ToSet(d.events)  all == AddEvents(c.events, new)
<1>1. r = [c EXCEPT !.events = all]
  BY DEF ReadCurrentGame
<1>2. ASSUME NEW n \in DOMAIN all
      PROVE  (n \in DOMAIN c.events /\ all[n] = c.events[n]) \/ all[n] \in new
  <2>1. DOMAIN all = DOMAIN c.events \cup {e.no : e \in new}
    BY DEF AddEvents
  <2>2. CASE n \in DOMAIN c.events
    BY <2>1, <2>2 DEF AddEvents
  <2>3. CASE n \notin DOMAIN c.events
    <3>1. PICK y \in new : y.no = n
      BY <2>1, <2>3
    <3> DEFINE x == CHOOSE e \in new : e.no = n
    <3>2. x \in new
      BY <3>1
    <3>3. all[n] = x
      BY <2>1, <2>3 DEF AddEvents
    <3> HIDE DEF x, all, new
    <3> QED BY <3>2, <3>3
  <2> QED BY <2>2, <2>3
<1>3. \A e \in new : OfWorm(e) => c.playersInGame
  BY DEF IsSenseless, IsValid, OfWorm
<1> HIDE DEF all, new
<1>4. /\ r.gameId = c.gameId /\ r.playersInGame = c.playersInGame
      /\ r.playerNames = c.playerNames /\ r.events = all
  BY <1>1 DEF IsClient
<1>5. ASSUME NEW n \in DOMAIN all, OfWorm(all[n]) PROVE c.playersInGame
  BY <1>2, <1>3, <1>5 DEF NamesKnown
<1> QED BY <1>4, <1>5 DEF NamesKnown

LEMMA ReadNewGameNames ==
  ASSUME NEW c, NEW d, NEW r, r = ReadNewGame(c, d)
  PROVE  NamesKnown(r)
<1> DEFINE known == \E e \in ToSet(d.events) : e.data.type = "NEW_GAME"
<1>1. known \in BOOLEAN /\ DOMAIN NoEvents = {}
  BY DEF NoEvents
<1>2. /\ r.gameId = d.gameId /\ r.playersInGame = known
      /\ r.playerNames = (IF known THEN d.gameId ELSE c.playerNames)
      /\ ~known => r.events = NoEvents
  BY DEF ReadNewGame
<1> HIDE DEF known
<1> QED BY <1>1, <1>2 DEF NamesKnown

\* The lines written after a datagram continue what was told.
LEMMA DrainTells ==
  ASSUME NEW p \in Counts, NEW c, IsClient(c), HoldsItsGame(c, p),
         NamesKnown(c), NEW t, IsTold(t, c.gameId, c.nextWantedEventNo), AreNamed(t, c)
  PROVE  /\ ClientInv(Drain(c), t \o Told(c), p)
         /\ Drain(c).gameId = c.gameId /\ Drain(c).seenGameIds = c.seenGameIds
         /\ Drain(c).nextWantedEventNo >= c.nextWantedEventNo
<1> DEFINE g == c.gameId  from == c.nextWantedEventNo  upTo == FirstMissing(c.events, from)
           k == upTo - from  new == Told(c)  r == Drain(c)
<1>1. /\ g \in Nat /\ p[g] \in Nat /\ from \in Nat /\ from <= p[g] /\ c.nextEventToSendNo = from
      /\ ArePlayed(c.events, g, p)
  BY DEF HoldsItsGame, IsClient, Counts
<1>2. \A n \in DOMAIN c.events : /\ n \in 0 .. p[g] - 1
                                 /\ c.events[n] = [no |-> n, data |-> EventOf(g, n)]
  <2> SUFFICES ASSUME NEW n \in DOMAIN c.events
               PROVE  n \in 0 .. p[g] - 1 /\ c.events[n] = [no |-> n, data |-> EventOf(g, n)]
    OBVIOUS
  <2>1. IsPlayedEvent(c.events[n], g, p) /\ c.events[n].no = n
    BY <1>1 DEF ArePlayed
  <2> DEFINE e == c.events[n]
  <2>2. e.no \in Nat /\ e.no < p[g] /\ e = [no |-> e.no, data |-> EventOf(g, e.no)] /\ e.no = n
    BY <2>1 DEF IsPlayedEvent
  <2> HIDE DEF e, g
  <2>3. n \in 0 .. p[g] - 1
    BY <1>1, <2>2
  <2>4. e = [no |-> n, data |-> EventOf(g, n)]
    BY ONLY <2>2
  <2> QED BY <2>3, <2>4 DEF e
<1>3. /\ upTo \in Nat /\ upTo >= from
      /\ \A n \in from .. upTo - 1 : n \in DOMAIN c.events
  <2>1. IsFiniteSet(0 .. p[g] - 1)
    <3>1. 0 \in Int /\ p[g] - 1 \in Int
      BY <1>1
    <3> QED BY <3>1, FS_Interval
  <2>2. IsFiniteSet(DOMAIN c.events)
    <3>1. DOMAIN c.events \subseteq 0 .. p[g] - 1
      BY <1>2
    <3> QED BY <2>1, <3>1, FS_Subset
  <2>3. upTo = Min((from .. from + Cardinality(DOMAIN c.events)) \ DOMAIN c.events)
    BY DEF FirstMissing
  <2> HIDE DEF upTo, from
  <2> QED BY ONLY <1>1, <2>2, <2>3, LeastGap
<1>4. r = [c EXCEPT !.nextWantedEventNo = upTo, !.nextEventToSendNo = upTo]
  BY DEF Drain
<1>5. new = [i \in 1 .. k |-> [game |-> g, names |-> c.playerNames, event |-> c.events[from + i - 1]]]
  BY <1>1 DEF Told
<1> HIDE DEF upTo, r, new
<1>6. upTo <= p[g]
  <2>1. CASE upTo = from
    BY <1>1, <2>1
  <2>2. CASE upTo # from
    <3>1. upTo - 1 \in from .. upTo - 1
      BY <1>1, <1>3, <2>2
    <3>2. upTo - 1 \in 0 .. p[g] - 1
      BY <1>2, <1>3, <3>1
    <3> QED BY <1>1, <1>3, <3>2
  <2> QED BY <2>1, <2>2
<1>7. /\ r.gameId = g /\ r.seenGameIds = c.seenGameIds
      /\ r.playersInGame = c.playersInGame /\ r.playerNames = c.playerNames /\ r.events = c.events
      /\ r.nextWantedEventNo = upTo /\ r.nextEventToSendNo = upTo
      /\ r = [gameId |-> r.gameId, seenGameIds |-> r.seenGameIds,
              playersInGame |-> r.playersInGame, playerNames |-> r.playerNames,
              events |-> r.events, nextWantedEventNo |-> r.nextWantedEventNo,
              nextEventToSendNo |-> r.nextEventToSendNo]
  BY <1>4 DEF IsClient
<1>8. IsClient(r) /\ HoldsItsGame(r, p)
  BY <1>1, <1>3, <1>6, <1>7 DEF IsClient, HoldsItsGame
<1>9. /\ k \in Nat /\ from + k = upTo
      /\ \A i \in 1 .. k : new[i] = [game |-> g, names |-> c.playerNames,
                                     event |-> [no |-> from + i - 1, data |-> EventOf(g, from + i - 1)]]
  <2>1. ASSUME NEW i \in 1 .. k
        PROVE  c.events[from + i - 1] = [no |-> from + i - 1, data |-> EventOf(g, from + i - 1)]
    <3>1. from + i - 1 \in from .. upTo - 1
      BY <1>1, <1>3
    <3> QED BY <1>2, <1>3, <3>1
  <2>2. k \in Nat /\ from + k = upTo
    BY <1>1, <1>3
  <2>3. ASSUME NEW i \in 1 .. k
        PROVE  new[i] = [game |-> g, names |-> c.playerNames,
                         event |-> [no |-> from + i - 1, data |-> EventOf(g, from + i - 1)]]
    <3>1. new[i] = [game |-> g, names |-> c.playerNames, event |-> c.events[from + i - 1]]
      BY <1>5
    <3> QED BY <2>1, <3>1
  <2> QED BY <2>2, <2>3
<1>10. new \in Seq(Line) /\ Len(new) = k
  <2>1. ASSUME NEW i \in 1 .. k PROVE new[i] \in Line
    <3>1. from + i - 1 \in Nat
      BY <1>1, <1>9
    <3>2. EventOf(g, from + i - 1) \in Data
      BY <1>1, <3>1, SaysIs
    <3> DEFINE e == [no |-> from + i - 1, data |-> EventOf(g, from + i - 1)]
    <3>3. e \in NumberedEvent(Data)
      BY <3>1, <3>2 DEF NumberedEvent
    <3>4. new[i] = [game |-> g, names |-> c.playerNames, event |-> e]
      BY <1>9
    <3>5. c.playerNames \in Nat
      BY DEF IsClient
    <3> HIDE DEF e, g
    <3> QED BY <1>1, <3>3, <3>4, <3>5 DEF Line
  <2>2. new = [i \in 1 .. k |-> new[i]]
    BY <1>5
  <2> HIDE DEF k
  <2> QED BY <1>9, <2>1, <2>2, IsASeq
<1>11. t \in Seq(Line) /\ Len(t) = from
  BY DEF IsTold
<1>12. /\ t \o new \in Seq(Line) /\ Len(t \o new) = upTo
       /\ \A i \in 1 .. upTo : (t \o new)[i] = IF i <= from THEN t[i] ELSE new[i - from]
  <2>1. /\ t \o new \in Seq(Line)
        /\ Len(t \o new) = Len(t) + Len(new)
        /\ \A i \in 1 .. Len(t) + Len(new) :
              (t \o new)[i] = IF i <= Len(t) THEN t[i] ELSE new[i - Len(t)]
    BY <1>10, <1>11, ConcatProperties
  <2> HIDE DEF k, from
  <2> QED BY <1>9, <1>10, <1>11, <2>1
<1>13. ASSUME NEW i \in 1 .. upTo
       PROVE  /\ (t \o new)[i].game = g
              /\ (t \o new)[i].event = [no |-> i - 1, data |-> EventOf(g, i - 1)]
  <2>1. CASE i <= from
    BY <1>1, <1>3, <1>12, <2>1 DEF IsTold
  <2>2. CASE ~(i <= from)
    <3>1. i - from \in 1 .. k /\ from + (i - from) - 1 = i - 1
      BY <1>1, <1>3, <2>2
    <3>2. (t \o new)[i] = new[i - from]
      BY <1>12, <2>2
    <3>3. new[i - from] = [game |-> g, names |-> c.playerNames,
                           event |-> [no |-> i - 1, data |-> EventOf(g, i - 1)]]
      BY <1>9, <3>1
    <3> QED BY <3>2, <3>3
  <2> QED BY <2>1, <2>2
<1>14. IsTold(t \o new, g, upTo)
  BY <1>12, <1>13 DEF IsTold
<1>15. NamesKnown(r)
  BY <1>7 DEF NamesKnown, g
<1>16. ASSUME NEW i \in 1 .. upTo PROVE IsNamed((t \o new)[i], r)
  <2>1. CASE i <= from
    <3>1. i \in DOMAIN t /\ (t \o new)[i] = t[i]
      BY <1>1, <1>11, <1>12, <2>1
    <3> QED BY <1>7, <3>1 DEF AreNamed, IsNamed, g
  <2>2. CASE ~(i <= from)
    <3> DEFINE e == c.events[i - 1]
    <3>1. i - from \in 1 .. k /\ from + (i - from) - 1 = i - 1 /\ i - 1 \in from .. upTo - 1
      BY <1>1, <1>3, <2>2
    <3>2. (t \o new)[i] = [game |-> g, names |-> c.playerNames, event |-> e]
      <4>1. new[i - from] = [game |-> g, names |-> c.playerNames, event |-> e]
        BY <1>5, <3>1
      <4> QED BY <1>12, <2>2, <4>1
    <3>3. i - 1 \in DOMAIN c.events /\ e = [no |-> i - 1, data |-> EventOf(g, i - 1)]
      BY <1>2, <1>3, <3>1
    <3>4. e.data.type \in {"NEW_GAME", "PIXEL", "PLAYER_ELIMINATED", "GAME_OVER"}
      BY <3>3 DEF EventOf
    <3>5. OfWorm(e) => c.playersInGame
      BY <3>3 DEF NamesKnown
    <3>6. c.playersInGame => c.playerNames = g
      BY DEF NamesKnown, g
    <3> HIDE DEF e, g
    <3> QED BY <1>7, <3>2, <3>4, <3>5, <3>6 DEF IsNamed, OfWorm
  <2> QED BY <2>1, <2>2
<1>17. AreNamed(t \o new, r)
  BY <1>12, <1>16 DEF AreNamed
<1> QED BY <1>3, <1>7, <1>8, <1>14, <1>15, <1>17 DEF ClientInv, r, new
-----------------------------------------------------------------------------
(* The steps *)

NetworkInv ==
    /\ \A m \in inbound : m.from \in Fingerprint /\ m.nextExpected \in Nat
    /\ \A d \in outbound : d.to \in Fingerprint /\ IsPlayed(d, published)

ClientsInv ==
    /\ DOMAIN clients = Fingerprint /\ DOMAIN told = Fingerprint
    /\ sessions \in [Fingerprint -> Nat] /\ exited \subseteq Fingerprint
    /\ \A f \in Fingerprint : ClientInv(clients[f], told[f], published)

Inv == QueuesInv /\ NetworkInv /\ ClientsInv

LEMMA NewClientIs ==
  ASSUME NEW n \in Uninitialised, NEW p
  PROVE  ClientInv(NewClient(n), <<>>, p)
<1>1. n \in Nat
  BY DeliveryAssumption
<1> QED BY <1>1 DEF ClientInv, IsClient, NewClient, NoGame, NamesKnown, AreNamed, NoEvents

LEMMA InitInv == Init => Inv
<1> SUFFICES ASSUME Init PROVE Inv
  OBVIOUS
<1>1. QueuesInv
  <2>1. published = <<>> /\ published \in Counts /\ Len(published) = 0 /\ MaxGames \in Nat
    BY DeliveryAssumption DEF Init, Counts
  <2>2. DOMAIN watchers = {} /\ NoGame \in Nat /\ mq = NewMQManager(NoGame)
    BY DEF Init, EmptyMap, NoGame
  <2>3. mq \in ManagerOf({}, Nat, Data) /\ Consistent(mq)
    BY <2>2, NewManagerConsistent
  <2>4. IsFeed(mq, 0, published, Says, MaxGames)
    <3>1. NumberedGame(Says, 0, 0) = <<>>
      BY DEF NumberedGame
    <3> QED BY <2>1, <2>2, <3>1 DEF IsFeed, CountOf, NewMQManager, NoGame
  <2> QED BY <2>1, <2>2, <2>3, <2>4 DEF QueuesInv, Queued
<1>2. NetworkInv
  BY DEF Init, NetworkInv
<1>3. ClientsInv
  <2>1. ASSUME NEW f \in Fingerprint PROVE ClientInv(clients[f], told[f], published)
    <3>1. PICK n \in Uninitialised : clients[f] = NewClient(n)
      BY DEF Init
    <3>2. told[f] = <<>>
      BY DEF Init
    <3> QED BY <3>1, <3>2, NewClientIs
  <2> QED BY <2>1 DEF Init, ClientsInv
<1> QED BY <1>1, <1>2, <1>3 DEF Inv

\* What the server does with a message
LEMMA HandleMessageInv ==
  ASSUME Inv, NEW m \in inbound, HandleMessage(m), UNCHANGED published
  PROVE  QueuesInv'
<1> DEFINE F == DOMAIN watchers
<1>1. m.from \in Fingerprint /\ m.nextExpected \in Nat
  BY DEF Inv, NetworkInv
<1>2. Queued(mq, F, published) /\ F \subseteq Fingerprint
  BY DEF Inv, QueuesInv
<1>3. ASSUME Queued(mq', DOMAIN watchers', published), DOMAIN watchers' \subseteq Fingerprint
      PROVE  QueuesInv'
  BY <1>3 DEF Inv, QueuesInv
<1>4. CASE m.from \notin F
  <2>1. DOMAIN watchers' = F \cup {m.from} /\ mq' = AddQueue(mq, m.from, m.nextExpected)
    BY <1>4 DEF HandleMessage
  <2>2. Queued(mq', F \cup {m.from}, published)
    BY <1>1, <1>2, <2>1, QueuedAdd
  <2> QED BY <1>1, <1>2, <1>3, <2>1, <2>2
<1>5. CASE m.from \in F
  <2>1. CASE watchers' = watchers /\ mq' = Ack(mq, m.from, m.nextExpected)
    <3>1. Queued(mq', F, published)
      BY <1>1, <1>2, <1>5, <2>1, QueuedAck
    <3> QED BY <1>2, <1>3, <2>1, <3>1
  <2>2. CASE /\ watchers' = [watchers EXCEPT ![m.from] = m.sessionId]
             /\ mq' = AddQueue(DropQueue(mq, m.from), m.from, m.nextExpected)
    <3>1. Queued(DropQueue(mq, m.from), F \ {m.from}, published)
      BY <1>2, QueuedDrop
    <3>2. Queued(mq', (F \ {m.from}) \cup {m.from}, published)
      BY <1>1, <2>2, <3>1, QueuedAdd
    <3>3. (F \ {m.from}) \cup {m.from} = F /\ DOMAIN watchers' = F
      BY <1>5, <2>2
    <3> QED BY <1>2, <1>3, <3>2, <3>3
  <2>3. CASE UNCHANGED serverVars
    BY <1>2, <1>3, <2>3 DEF serverVars
  <2> QED BY <1>5, <2>1, <2>2, <2>3 DEF HandleMessage
<1> QED BY <1>4, <1>5

\* What a client does with a datagram
LEMMA ReadsInv ==
  ASSUME Inv, NEW d \in outbound, Reads(d), UNCHANGED published
  PROVE  ClientsInv'
<1> DEFINE f == d.to  c == clients[f]
<1>1. f \in Fingerprint /\ IsPlayed(d, published) /\ published \in Counts
  BY DEF Inv, NetworkInv, QueuesInv
<1>2. ClientInv(c, told[f], published)
  BY <1>1 DEF Inv, ClientsInv
<1>3. d.gameId # NoGame
  BY <1>1 DEF IsPlayed, Counts, NoGame
<1>4. ASSUME NEW r, Shows(f, r), IsClient(r), HoldsItsGame(r, published), NamesKnown(r),
             NEW t, IsTold(t, r.gameId, r.nextWantedEventNo), AreNamed(t, r),
             t = IF r.gameId = c.gameId THEN told[f] ELSE <<>>
      PROVE  ClientsInv'
  <2>1. ClientInv(Drain(r), t \o Told(r), published)
    BY <1>1, <1>4, DrainTells
  <2>2. /\ clients' = [clients EXCEPT ![f] = Drain(r)]
        /\ told' = [told EXCEPT ![f] = t \o Told(r)]
        /\ UNCHANGED <<sessions, exited>>
    BY <1>1, <1>4 DEF Shows, Inv, ClientsInv
  <2> HIDE DEF f
  <2> QED BY <2>1, <2>2 DEF Inv, ClientsInv
<1>5. CASE d.gameId = c.gameId /\ ~IsSenseless(c, d) /\ Shows(f, ReadCurrentGame(c, d))
  <2>1. IsClient(c) /\ HoldsItsGame(c, published) /\ IsTold(told[f], c.gameId, c.nextWantedEventNo)
        /\ NamesKnown(c) /\ AreNamed(told[f], c)
    BY <1>2, <1>3, <1>5 DEF ClientInv
  <2> DEFINE r == ReadCurrentGame(c, d)
  <2>2. /\ IsClient(r) /\ HoldsItsGame(r, published)
        /\ r.gameId = c.gameId /\ r.nextWantedEventNo = c.nextWantedEventNo
    BY <1>1, <1>5, <2>1, ReadCurrentGameHolds
  <2>3. NamesKnown(r) /\ r.playersInGame = c.playersInGame
    BY <1>5, <2>1, ReadCurrentGameNames
  <2> HIDE DEF r, f, c
  <2>4. AreNamed(told[f], r)
    BY <2>1, <2>2, <2>3 DEF AreNamed, IsNamed
  <2> QED BY <1>4, <1>5, <2>1, <2>2, <2>3, <2>4 DEF r
<1>6. CASE exited' = exited \cup {f} /\ UNCHANGED <<clients, sessions, told>>
  BY <1>1, <1>6 DEF Inv, ClientsInv
<1>7. CASE d.gameId \notin c.seenGameIds /\ Shows(f, ReadNewGame(c, d))
  <2> DEFINE r == ReadNewGame(c, d)
  <2>1. /\ IsClient(r) /\ HoldsItsGame(r, published)
        /\ r.gameId = d.gameId /\ r.nextWantedEventNo = 0
    BY <1>1, <1>2, ReadNewGameHolds DEF ClientInv
  <2>2. r.gameId # c.gameId
    BY <1>2, <1>3, <1>7, <2>1 DEF ClientInv, HoldsItsGame
  <2>3. IsTold(<<>>, r.gameId, 0) /\ AreNamed(<<>>, r)
    BY DEF IsTold, AreNamed
  <2>4. NamesKnown(r)
    BY ReadNewGameNames
  <2> HIDE DEF r, f, c
  <2> QED BY <1>4, <1>7, <2>1, <2>2, <2>3, <2>4 DEF r
<1>8. CASE UNCHANGED clientVars
  BY <1>8 DEF clientVars, Inv, ClientsInv
<1> QED BY <1>5, <1>6, <1>7, <1>8 DEF Reads
LEMMA NextInv == Inv /\ [Next]_vars => Inv'
<1> SUFFICES ASSUME Inv, [Next]_vars PROVE Inv'
  OBVIOUS
<1> USE DEF Inv
<1>a. ASSUME QueuesInv', UNCHANGED <<published, clientVars>> PROVE ClientsInv'
  BY <1>a DEF ClientsInv, clientVars
<1>b. ASSUME UNCHANGED <<serverVars, published>> PROVE QueuesInv'
  BY <1>b DEF QueuesInv, serverVars
<1>c. ASSUME UNCHANGED published, inbound' \subseteq inbound, outbound' \subseteq outbound
      PROVE  NetworkInv'
  BY <1>c DEF NetworkInv
<1>1. CASE Publish
  <2>1. QueuesInv' /\ Longer(published, published')
    BY <1>1, PublishInv
  <2>2. published \in Counts /\ published' \in Counts
    BY <2>1 DEF QueuesInv
  <2>3. NetworkInv'
    <3>1. inbound' = inbound /\ outbound' = outbound
      BY <1>1 DEF Publish
    <3> QED BY <2>1, <2>2, <3>1, LongerPlayed DEF NetworkInv
  <2>4. ClientsInv'
    <3>1. UNCHANGED clientVars
      BY <1>1 DEF Publish
    <3>2. \A f \in Fingerprint : ClientInv(clients[f], told[f], published')
      BY <2>1, <2>2, LongerHolds DEF ClientsInv
    <3> QED BY <3>1, <3>2 DEF ClientsInv, clientVars
  <2> QED BY <2>1, <2>3, <2>4
<1>2. ASSUME NEW m \in inbound, ServerReceives(m) \/ ServerReceivesAgain(m) PROVE Inv'
  <2>1. /\ HandleMessage(m) /\ UNCHANGED <<clientVars, published, outbound>>
        /\ inbound' \subseteq inbound
    BY <1>2 DEF ServerReceives, ServerReceivesAgain
  <2> QED BY <2>1, <1>a, <1>c, HandleMessageInv
<1>3. ASSUME NEW f \in Fingerprint, WatcherExpires(f) PROVE Inv'
  <2>1. /\ watchers' = Without(watchers, {f}) /\ mq' = DropQueue(mq, f)
        /\ UNCHANGED <<clientVars, published, inbound, outbound>>
    BY <1>3 DEF WatcherExpires
  <2>2. DOMAIN watchers' = DOMAIN watchers \ {f}
    BY <2>1 DEF Without
  <2>3. Queued(mq', DOMAIN watchers \ {f}, published)
    BY <2>1, QueuedDrop DEF QueuesInv
  <2>4. QueuesInv'
    BY <2>1, <2>2, <2>3 DEF QueuesInv
  <2> QED BY <2>1, <2>4, <1>a, <1>c
<1>4. ASSUME CanSend
      PROVE  /\ Queued(AfterGetNextMessage(mq), DOMAIN watchers, published)
             /\ \A d \in NextMessages(mq) :
                   d.to \in DOMAIN watchers /\ d.ack \in Nat /\ IsPlayed(d, published)
  <2>1. DOMAIN mq.queues = DOMAIN watchers
    BY DEF QueuesInv, Queued, ManagerOf
  <2> QED BY <1>4, <2>1, QueuedSend DEF CanSend, QueuesInv
<1>5. CASE ServerSends
  <2>1. CanSend /\ UNCHANGED <<watchers, clientVars, published, inbound>>
    BY <1>5 DEF ServerSends
  <2>2. PICK m \in NextMessages(mq) :
          /\ mq' = Ack(AfterGetNextMessage(mq), m.to, m.ack)
          /\ outbound' = outbound \cup
               {[to |-> f, gameId |-> m.gameId, events |-> m.events] : f \in {m.to} \ exited}
    BY <1>5 DEF ServerSends
  <2>3. m.to \in DOMAIN watchers /\ m.ack \in Nat /\ IsPlayed(m, published)
    BY <1>4, <2>1
  <2>4. QueuesInv'
    <3>1. Queued(mq', DOMAIN watchers, published)
      BY <1>4, <2>1, <2>2, <2>3, QueuedAck
    <3> QED BY <2>1, <3>1 DEF QueuesInv
  <2>5. NetworkInv'
    <3>1. ASSUME NEW d \in outbound' PROVE d.to \in Fingerprint /\ IsPlayed(d, published)
      <4>1. CASE d \in outbound
        BY <4>1 DEF NetworkInv
      <4>2. CASE d = [to |-> m.to, gameId |-> m.gameId, events |-> m.events]
        BY <2>3, <4>2 DEF IsPlayed, QueuesInv
      <4> QED BY <2>2, <4>1, <4>2
    <3> QED BY <2>1, <3>1 DEF NetworkInv
  <2> QED BY <2>1, <2>4, <2>5, <1>a
<1>6. CASE SendFails
  <2>1. /\ CanSend /\ mq' = AfterGetNextMessage(mq)
        /\ UNCHANGED <<watchers, clientVars, published, inbound, outbound>>
    BY <1>6 DEF SendFails
  <2>2. QueuesInv'
    BY <1>4, <2>1 DEF QueuesInv
  <2> QED BY <2>1, <2>2, <1>a, <1>c
<1>7. ASSUME NEW f \in Fingerprint, ClientSends(f) PROVE Inv'
  <2>1. /\ UNCHANGED <<serverVars, clientVars, published, outbound>>
        /\ inbound' = inbound \cup {[from |-> f, sessionId |-> sessions[f],
                                     nextExpected |-> clients[f].nextWantedEventNo]}
    BY <1>7 DEF ClientSends
  <2>2. clients[f].nextWantedEventNo \in Nat
    BY DEF ClientsInv, ClientInv, IsClient
  <2>3. NetworkInv'
    BY <2>1, <2>2 DEF NetworkInv
  <2> QED BY <2>1, <2>3, <1>a, <1>b
<1>8. ASSUME NEW d \in outbound, ClientReceives(d) \/ ClientReceivesAgain(d) PROVE Inv'
  <2>1. /\ Reads(d) /\ UNCHANGED <<serverVars, published, inbound>>
        /\ outbound' \subseteq outbound
    BY <1>8 DEF ClientReceives, ClientReceivesAgain
  <2> QED BY <2>1, <1>b, <1>c, ReadsInv
<1>9. ASSUME NEW f \in Fingerprint, ClientRestarts(f) PROVE Inv'
  <2>1. PICK n \in Uninitialised : clients' = [clients EXCEPT ![f] = NewClient(n)]
    BY <1>9 DEF ClientRestarts
  <2>2. /\ sessions' = [sessions EXCEPT ![f] = @ + 1] /\ exited' = exited \ {f}
        /\ told' = [told EXCEPT ![f] = <<>>]
        /\ UNCHANGED <<serverVars, published, inbound, outbound>>
    BY <1>9 DEF ClientRestarts
  <2>3. ClientInv(NewClient(n), <<>>, published)
    BY NewClientIs
  <2>4. ClientsInv'
    BY <2>1, <2>2, <2>3 DEF ClientsInv
  <2> QED BY <2>2, <2>4, <1>b, <1>c
<1>10. CASE Lose
  <2>1. /\ inbound' \subseteq inbound /\ outbound' \subseteq outbound
        /\ UNCHANGED <<serverVars, clientVars, published>>
    BY <1>10 DEF Lose
  <2> QED BY <2>1, <1>a, <1>b, <1>c
<1>11. CASE UNCHANGED vars
  <2>1. UNCHANGED <<serverVars, clientVars, published, inbound, outbound>>
    BY <1>11 DEF vars
  <2> QED BY <2>1, <1>a, <1>b, <1>c
<1> QED BY <1>1, <1>2, <1>3, <1>5, <1>6, <1>7, <1>8, <1>9, <1>10, <1>11 DEF Next

LEMMA Invariance == Spec => []Inv
BY InitInv, NextInv, PTL DEF Spec

-----------------------------------------------------------------------------

\* The queues stay consistent with the watchers, and the network carries nothing but
\* messages of clients and datagrams of games that were played.
THEOREM TypeCorrect == Spec => []TypeOK
<1>1. ASSUME Inv PROVE TypeOK
  <2>1. Consistent(mq) /\ DOMAIN mq.queues = DOMAIN watchers
    BY <1>1 DEF Inv, QueuesInv, Queued, ManagerOf
  <2>2. published \in Seq(1 .. GameLength)
    <3> DEFINE p == published
    <3>1. p \in Seq(Nat \ {0}) /\ \A g \in DOMAIN p : p[g] <= GameLength
      BY <1>1 DEF Inv, QueuesInv, Counts
    <3> HIDE DEF p
    <3>2. \A g \in 1 .. Len(p) : p[g] \in 1 .. GameLength
      BY <3>1, DeliveryAssumption
    <3> DEFINE S == 1 .. GameLength
    <3> HIDE DEF S
    <3>3. \A g \in 1 .. Len(p) : p[g] \in S
      BY <3>2 DEF S
    <3>4. p \in Seq(S)
      BY <3>1, <3>3
    <3> QED BY <3>4 DEF p, S
  <2>3. \A f \in Fingerprint : clients[f].nextWantedEventNo \in Nat /\ sessions[f] \in Nat
    BY <1>1 DEF Inv, ClientsInv, ClientInv, IsClient
  <2>4. \A m \in inbound : m.from \in Fingerprint /\ m.nextExpected \in Nat
    BY <1>1 DEF Inv, NetworkInv
  <2>5. \A d \in outbound : d.to \in Fingerprint /\ d.gameId \in DOMAIN published /\ d.events # <<>>
    BY <1>1 DEF Inv, NetworkInv, IsPlayed
  <2> QED BY <1>1, <2>1, <2>2, <2>3, <2>4, <2>5 DEF Inv, ClientsInv, TypeOK
<1> QED BY <1>1, Invariance, PTL

\* Whatever the network, sendto, expiries and restarts do, what an interface is told of
\* its client's game are the events of that game, from the first on, in order, each once,
\* and with the names of that game unless NEW_GAME came late.
THEOREM ToldCorrect == Spec => []ToldAsPlayed
<1>1. ASSUME Inv PROVE ToldAsPlayed
  <2> SUFFICES ASSUME NEW f \in Fingerprint, NEW i \in DOMAIN told[f]
               PROVE  /\ told[f][i].game = clients[f].gameId
                      /\ told[f][i].game \in DOMAIN published
                      /\ i <= published[told[f][i].game]
                      /\ told[f][i].event = [no |-> i - 1, data |-> EventOf(told[f][i].game, i - 1)]
                      /\ \/ told[f][i].event.data.type = "GAME_OVER"
                         \/ told[f][i].names = told[f][i].game
                         \/ /\ told[f][i].event.data.type = "NEW_GAME"
                            /\ ~clients[f].playersInGame
    BY DEF ToldAsPlayed
  <2> DEFINE c == clients[f]  t == told[f]
  <2>1. ClientInv(c, t, published) /\ published \in Counts
    BY <1>1 DEF Inv, ClientsInv, QueuesInv
  <2>2. HoldsItsGame(c, published) /\ IsTold(t, c.gameId, c.nextWantedEventNo)
    BY <2>1 DEF ClientInv
  <2>3. i \in 1 .. c.nextWantedEventNo /\ c.nextWantedEventNo \in Nat
    BY <2>1, <2>2 DEF IsTold, ClientInv, IsClient
  <2>4. t[i].game = c.gameId /\ t[i].event = [no |-> i - 1, data |-> EventOf(c.gameId, i - 1)]
    BY <2>2, <2>3 DEF IsTold
  <2>5. c.gameId \in DOMAIN published /\ i <= published[c.gameId]
    BY <2>1, <2>2, <2>3 DEF HoldsItsGame, Counts
  <2>6. IsNamed(t[i], c)
    BY <2>1 DEF ClientInv, AreNamed
  <2> QED BY <2>4, <2>5, <2>6 DEF IsNamed
<1> QED BY <1>1, Invariance, PTL

-----------------------------------------------------------------------------
(* The refinement *)

\* What was told up to the n-th event of a game is its story so far.
LEMMA StoryIs ==
  ASSUME NEW t, NEW g, NEW n, IsTold(t, g, n)
  PROVE  NumbersOf(t) = Watched!Story(g, n) /\ Len(NumbersOf(t)) = n
<1>1. DOMAIN t = 1 .. n /\ n \in Nat
  BY DEF IsTold
<1>2. ASSUME NEW i \in 1 .. n PROVE t[i].game = g /\ t[i].event.no = i - 1
  <2> DEFINE data == EventOf(g, i - 1)
  <2>1. t[i].game = g /\ t[i].event = [no |-> i - 1, data |-> data]
    BY DEF IsTold
  <2> HIDE DEF data
  <2> QED BY <2>1
<1>3. NumbersOf(t) = [i \in 1 .. n |-> [game |-> g, no |-> i - 1]]
  BY <1>1, <1>2 DEF NumbersOf
<1> QED BY <1>1, <1>3 DEF Watched!Story

\* A client that has read a datagram is told of its game no less than before, or of a
\* game it has not followed.
LEMMA ReadsRefines ==
  ASSUME Inv, NEW d \in outbound, Reads(d), UNCHANGED published
  PROVE  \/ Watched!Tell(d.to)
         \/ \E g \in DOMAIN published : Watched!GoOnTo(d.to, g)
         \/ UNCHANGED Watched!broadcastVars
<1> DEFINE f == d.to  c == clients[f]
<1>1. f \in Fingerprint /\ IsPlayed(d, published) /\ published \in Counts
  BY DEF Inv, NetworkInv, QueuesInv
<1>2. ClientInv(c, told[f], published)
  BY <1>1 DEF Inv, ClientsInv
<1>3. d.gameId # NoGame /\ d.gameId \in DOMAIN published /\ published[d.gameId] \in Nat
  BY <1>1 DEF IsPlayed, Counts, NoGame
<1>4. CASE d.gameId = c.gameId /\ ~IsSenseless(c, d) /\ Shows(f, ReadCurrentGame(c, d))
  <2> DEFINE r == ReadCurrentGame(c, d)  e == Drain(r)  g == c.gameId
             n == c.nextWantedEventNo  k == e.nextWantedEventNo  t == told[f] \o Told(r)
  <2>1. IsClient(c) /\ HoldsItsGame(c, published) /\ IsTold(told[f], g, n)
        /\ NamesKnown(c) /\ AreNamed(told[f], c)
    BY <1>2, <1>3, <1>4 DEF ClientInv
  <2>2. /\ IsClient(r) /\ HoldsItsGame(r, published)
        /\ r.gameId = g /\ r.seenGameIds = c.seenGameIds /\ r.nextWantedEventNo = n
    BY <1>1, <1>4, <2>1, ReadCurrentGameHolds
  <2> HIDE DEF n
  <2>13. NamesKnown(r) /\ r.playersInGame = c.playersInGame /\ r.gameId = c.gameId
    BY <1>4, <2>1, ReadCurrentGameNames
  <2> HIDE DEF r, g
  <2>14. AreNamed(told[f], r)
    BY <2>1, <2>13 DEF AreNamed, IsNamed
  <2>3. /\ ClientInv(e, t, published) /\ e.gameId = g /\ e.seenGameIds = c.seenGameIds /\ k >= n
    BY <1>1, <2>1, <2>2, <2>13, <2>14, DrainTells
  <2>4. /\ clients' = [clients EXCEPT ![f] = e] /\ told' = [told EXCEPT ![f] = t]
    BY <1>4, <2>2 DEF Shows, r, g
  <2> HIDE DEF e, t, f
  <2>5. IsTold(t, g, k) /\ HoldsItsGame(e, published)
    BY <1>3, <1>4, <2>3 DEF ClientInv, g
  <2>6. n \in Nat /\ k \in Nat /\ k <= published[g]
    BY <2>1, <2>3, <2>5 DEF ClientInv, IsClient, HoldsItsGame, n
  <2> HIDE DEF c, k
  <2>7. Follows' = Follows /\ Followed' = Followed
    <3>1. DOMAIN clients = Fingerprint
      BY DEF Inv, ClientsInv
    <3>2. \A x \in Fingerprint : clients'[x].gameId = clients[x].gameId /\ clients'[x].seenGameIds = clients[x].seenGameIds
      BY <2>3, <2>4, <3>1 DEF c, g
    <3> QED BY <3>2 DEF Follows, Followed
  <2>8. Shown' = [Shown EXCEPT ![f] = NumbersOf(t)]
    <3>1. DOMAIN told = Fingerprint
      BY DEF Inv, ClientsInv
    <3>2. \A x \in Fingerprint : told'[x] = IF x = f THEN t ELSE told[x]
      BY <2>4, <3>1
    <3> QED BY <1>1, <3>2 DEF Shown
  <2>9. Shown[f] = NumbersOf(told[f]) /\ Follows[f] = g
    BY <1>1 DEF Shown, Follows, g, c
  <2>10. /\ NumbersOf(t) = Watched!Story(g, k)
         /\ NumbersOf(told[f]) = Watched!Story(g, n) /\ Len(NumbersOf(told[f])) = n
    BY <2>1, <2>5, StoryIs
  <2>11. CASE k = n
    <3>1. Shown' = Shown
      <4>1. NumbersOf(t) = Shown[f]
        BY <2>9, <2>10, <2>11
      <4> QED BY <2>8, <4>1 DEF Shown
    <3> QED BY <2>7, <3>1 DEF Watched!broadcastVars
  <2>12. CASE k # n
    <3>1. g # NoGame
      BY <1>3, <1>4 DEF g
    <3>2. k \in Len(Shown[f]) + 1 .. published[Follows[f]]
      <4>1. published[g] \in Nat
        BY <1>3, <1>4 DEF g
      <4>2. k \in n + 1 .. published[g]
        BY <2>3, <2>6, <2>12, <4>1
      <4> QED BY <2>9, <2>10, <4>2
    <3> QED BY <2>7, <2>8, <2>9, <2>10, <3>1, <3>2 DEF Watched!Tell, f
  <2> QED BY <2>11, <2>12
<1>5. CASE d.gameId \notin c.seenGameIds /\ Shows(f, ReadNewGame(c, d))
  <2> DEFINE r == ReadNewGame(c, d)  e == Drain(r)  g == d.gameId
             k == e.nextWantedEventNo  t == <<>> \o Told(r)
  <2>1. /\ IsClient(r) /\ HoldsItsGame(r, published)
        /\ r.gameId = g /\ r.seenGameIds = c.seenGameIds \cup {g} /\ r.nextWantedEventNo = 0
    BY <1>1, <1>2, ReadNewGameHolds DEF ClientInv
  <2>2. g # c.gameId
    BY <1>2, <1>3, <1>5 DEF ClientInv, HoldsItsGame
  <2>3. IsTold(<<>>, g, 0) /\ AreNamed(<<>>, r) /\ NamesKnown(r)
    BY ReadNewGameNames DEF IsTold, AreNamed
  <2> HIDE DEF r, g
  <2>4. ClientInv(e, t, published) /\ e.gameId = g /\ e.seenGameIds = c.seenGameIds \cup {g}
    BY <1>1, <2>1, <2>3, DrainTells
  <2>5. /\ clients' = [clients EXCEPT ![f] = e] /\ told' = [told EXCEPT ![f] = t]
    BY <1>5, <2>1, <2>2 DEF Shows, r
  <2> HIDE DEF e, t, f
  <2>6. IsTold(t, g, k) /\ HoldsItsGame(e, published)
    BY <1>3, <2>4 DEF ClientInv, g
  <2>7. k \in 0 .. published[g]
    BY <1>3, <2>4, <2>6 DEF ClientInv, IsClient, HoldsItsGame, g
  <2> HIDE DEF c, k
  <2>8. /\ Follows' = [Follows EXCEPT ![f] = g]
        /\ Followed' = [Followed EXCEPT ![f] = Followed[f] \cup {g}]
    <3>1. DOMAIN clients = Fingerprint
      BY DEF Inv, ClientsInv
    <3>2. \A x \in Fingerprint :
            /\ clients'[x].gameId = IF x = f THEN g ELSE clients[x].gameId
            /\ clients'[x].seenGameIds = IF x = f THEN c.seenGameIds \cup {g} ELSE clients[x].seenGameIds
      BY <2>4, <2>5, <3>1
    <3> QED BY <1>1, <3>2 DEF Follows, Followed, c
  <2>9. Shown' = [Shown EXCEPT ![f] = NumbersOf(t)]
    <3>1. DOMAIN told = Fingerprint
      BY DEF Inv, ClientsInv
    <3>2. \A x \in Fingerprint : told'[x] = IF x = f THEN t ELSE told[x]
      BY <2>5, <3>1
    <3> QED BY <1>1, <3>2 DEF Shown
  <2>10. NumbersOf(t) = Watched!Story(g, k)
    BY <2>6, StoryIs
  <2>11. g \in DOMAIN published /\ g \notin Followed[f]
    BY <1>1, <1>3, <1>5 DEF Followed, g, c
  <2>12. Watched!GoOnTo(f, g)
    BY <2>7, <2>8, <2>9, <2>10, <2>11 DEF Watched!GoOnTo
  <2> QED BY <2>11, <2>12 DEF f
<1>6. CASE UNCHANGED <<clients, told>>
  BY <1>6 DEF Watched!broadcastVars, Follows, Followed, Shown
<1> QED BY <1>4, <1>5, <1>6 DEF Reads, clientVars

\* However datagrams and acknowledgements go astray, a watcher follows one game at a
\* time, is told the beginning of it, which only grows, and never follows a game again:
\* the server, the network and the clients together implement Broadcast.
THEOREM PromiseKept == Spec => KeepsBroadcast
<1>1. Init => Watched!BroadcastInit
  <2> SUFFICES ASSUME Init PROVE Watched!BroadcastInit
    OBVIOUS
  <2>1. \A f \in Fingerprint : /\ clients[f].gameId = NoGame /\ clients[f].seenGameIds = {}
                               /\ NumbersOf(told[f]) = <<>>
    BY DEF Init, NewClient, NumbersOf
  <2> QED BY <2>1 DEF Init, Watched!BroadcastInit, Follows, Followed, Shown
<1>2. ASSUME Inv, [Next]_vars PROVE [Watched!BroadcastNext]_(Watched!broadcastVars)
  <2>1. CASE Publish
    <3>1. UNCHANGED <<Follows, Followed, Shown>>
      BY <2>1 DEF Publish, clientVars, Follows, Followed, Shown
    <3>2. \/ published' = Append(published, 1)
          \/ published # <<>> /\ published' = [published EXCEPT ![Len(published)] = @ + 1]
      BY <2>1 DEF Publish
    <3> QED BY <3>1, <3>2 DEF Watched!BroadcastNext, Watched!Play
  <2>2. ASSUME NEW d \in outbound, ClientReceives(d) \/ ClientReceivesAgain(d)
        PROVE  [Watched!BroadcastNext]_(Watched!broadcastVars)
    <3>1. Reads(d) /\ UNCHANGED published
      BY <2>2 DEF ClientReceives, ClientReceivesAgain
    <3>2. d.to \in Fingerprint
      BY <1>2 DEF Inv, NetworkInv
    <3> QED BY <1>2, <3>1, <3>2, ReadsRefines DEF Watched!BroadcastNext
  <2>3. ASSUME NEW f \in Fingerprint, ClientRestarts(f) PROVE Watched!StartAgain(f)
    <3>1. PICK n \in Uninitialised : clients' = [clients EXCEPT ![f] = NewClient(n)]
      BY <2>3 DEF ClientRestarts
    <3>2. told' = [told EXCEPT ![f] = <<>>] /\ UNCHANGED published
      BY <2>3 DEF ClientRestarts
    <3>3. DOMAIN clients = Fingerprint /\ DOMAIN told = Fingerprint
      BY <1>2 DEF Inv, ClientsInv
    <3>4. NumbersOf(<<>>) = <<>>
      BY DEF NumbersOf
    <3>5. \A x \in Fingerprint :
            /\ clients'[x].gameId = IF x = f THEN NoGame ELSE clients[x].gameId
            /\ clients'[x].seenGameIds = IF x = f THEN {} ELSE clients[x].seenGameIds
      BY <3>1, <3>3 DEF NewClient
    <3>6. \A x \in Fingerprint : NumbersOf(told'[x]) = IF x = f THEN <<>> ELSE NumbersOf(told[x])
      BY <3>2, <3>3, <3>4
    <3> QED BY <3>2, <3>5, <3>6 DEF Watched!StartAgain, Follows, Followed, Shown
  <2>4. CASE UNCHANGED <<clients, told, published>>
    BY <2>4 DEF Watched!broadcastVars, Follows, Followed, Shown
  <2>5. \/ Publish
        \/ \E d \in outbound : ClientReceives(d) \/ ClientReceivesAgain(d)
        \/ \E f \in Fingerprint : ClientRestarts(f)
        \/ UNCHANGED <<clients, told, published>>
    BY <1>2 DEF Next, vars, clientVars, ServerReceives, ServerReceivesAgain, WatcherExpires, ServerSends,
                SendFails, ClientSends, Lose
  <2> QED BY <2>1, <2>2, <2>3, <2>4, <2>5 DEF Watched!BroadcastNext
<1> QED BY <1>1, <1>2, Invariance, PTL DEF Spec, KeepsBroadcast, Watched!BroadcastSpec
=============================================================================
