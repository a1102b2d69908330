---------------------------- MODULE ClientProofs ----------------------------
(***************************************************************************)
(* What the client tells its user interface, for any games of any length   *)
(* and datagrams in any order: its numbers and the names it writes (Inv),  *)
(* the lines that the socket cuts on their way out (OutputInv) and in      *)
(* (InputInv), and that it implements GuiFeed.                             *)
(***************************************************************************)
EXTENDS MC_Client, DataTheorems, FiniteSetTheorems, SequenceTheorems

-----------------------------------------------------------------------------
(* The loop that raises nextWantedEventNo *)

\* FirstMissing is the least number from "from" on that is not known.
LEMMA FirstMissingFound ==
  ASSUME NEW known, IsFiniteSet(DOMAIN known), NEW from \in Nat
  PROVE  /\ FirstMissing(known, from) \in Nat
         /\ FirstMissing(known, from) >= from
         /\ FirstMissing(known, from) \notin DOMAIN known
         /\ \A n \in from .. FirstMissing(known, from) - 1 : n \in DOMAIN known
BY LeastGap DEF FirstMissing

-----------------------------------------------------------------------------
(* The client's record *)

Numbers == 0 .. LogLength - 1

\* Events of the game g, under their numbers, and events of g in a datagram
EventsOf(g, events) ==
    DOMAIN events \subseteq Numbers /\ \A n \in DOMAIN events : events[n] = Event(g, n)

ComeFrom(g, new) == \A e \in new : e.no \in Numbers /\ e = Event(g, e.no)

OfWorm(event) == event.data.type \in {"PIXEL", "PLAYER_ELIMINATED"}

\* The members of a client that holds nothing but events of its game, and among them a
\* worm's only if it knows the players
HoldsItsGame(c) ==
    /\ c = [gameId |-> c.gameId, seenGameIds |-> c.seenGameIds, playersInGame |-> c.playersInGame,
            playerNames |-> c.playerNames, events |-> c.events,
            nextWantedEventNo |-> c.nextWantedEventNo, nextEventToSendNo |-> c.nextEventToSendNo]
    /\ c.gameId \in Game /\ c.gameId \in c.seenGameIds /\ c.seenGameIds \subseteq Game
    /\ c.playersInGame \in BOOLEAN /\ c.playerNames \in Game \cup {NoGame}
    /\ c.nextWantedEventNo \in Nat /\ c.nextEventToSendNo = c.nextWantedEventNo
    /\ EventsOf(c.gameId, c.events)
    /\ \A n \in 0 .. c.nextWantedEventNo - 1 : n \in DOMAIN c.events
    /\ c.playersInGame => c.playerNames = c.gameId
    /\ \A n \in DOMAIN c.events : OfWorm(c.events[n]) => c.playersInGame

\* A client between two datagrams
ClientInv ==
    \/ /\ \E n \in Uninitialised : client = NewClient(n)
       /\ told = <<>>
    \/ /\ HoldsItsGame(client)
       /\ client.nextWantedEventNo \notin DOMAIN client.events

\* The events of a datagram are events of its game, under their numbers.
LEMMA DatagramEvents ==
  ASSUME NEW d \in Datagram
  PROVE  d.gameId \in Game /\ ComeFrom(d.gameId, ToSet(d.events))
<1>1. PICK g \in Game, from \in 0 .. LogLength, upTo \in 0 .. LogLength :
        d = Part(g, from, upTo)
  BY DEF Datagram
<1>2. d.gameId = g /\ d.events = [i \in 1 .. upTo - from |-> Event(g, from + i - 1)]
  BY <1>1 DEF Part
<1>3. ASSUME NEW e \in ToSet(d.events)
      PROVE  e.no \in Numbers /\ e = Event(g, e.no)
  <2>1. PICK i \in 1 .. upTo - from : e = Event(g, from + i - 1)
    BY <1>2 DEF ToSet
  <2>2. e.no = from + i - 1
    BY <2>1 DEF Event
  <2> QED BY <2>1, <2>2, GamesAssumption DEF Numbers
<1> QED BY <1>2, <1>3 DEF ComeFrom

\* Reading in events keeps those of the game under their numbers.
LEMMA AddEventsHolds ==
  ASSUME NEW g, NEW known, NEW new,
         EventsOf(g, known), ComeFrom(g, new)
  PROVE  /\ EventsOf(g, AddEvents(known, new))
         /\ DOMAIN known \subseteq DOMAIN AddEvents(known, new)
         /\ \A n \in DOMAIN AddEvents(known, new) : n \in DOMAIN known \/ Event(g, n) \in new
<1> DEFINE all == AddEvents(known, new)
<1>1. DOMAIN all = DOMAIN known \cup {e.no : e \in new}
  BY DEF AddEvents
<1>2. ASSUME NEW n \in DOMAIN all
      PROVE  all[n] = Event(g, n) /\ (n \in DOMAIN known \/ Event(g, n) \in new)
  <2>1. CASE n \in DOMAIN known
    BY <1>1, <2>1 DEF AddEvents, EventsOf
  <2>2. CASE n \notin DOMAIN known
    <3>1. PICK y \in new : y.no = n
      BY <1>1, <2>2
    <3> DEFINE x == CHOOSE e \in new : e.no = n
    <3>2. x \in new /\ x.no = n
      BY <3>1
    <3>3. all[n] = x
      BY <1>1, <2>2 DEF AddEvents
    <3> HIDE DEF x, all
    <3> QED BY <3>2, <3>3 DEF ComeFrom
  <2> QED BY <2>1, <2>2
<1>3. DOMAIN all \subseteq Numbers
  BY <1>1 DEF EventsOf, ComeFrom
<1> QED BY <1>1, <1>2, <1>3 DEF EventsOf

LEMMA ReadCurrentGameHolds ==
  ASSUME NEW c, HoldsItsGame(c), NEW d \in Datagram, d.gameId = c.gameId, ~IsSenseless(c, d)
  PROVE  /\ HoldsItsGame(ReadCurrentGame(c, d))
         /\ ReadCurrentGame(c, d).gameId = c.gameId
         /\ ReadCurrentGame(c, d).seenGameIds = c.seenGameIds
         /\ ReadCurrentGame(c, d).playersInGame = c.playersInGame
         /\ ReadCurrentGame(c, d).nextWantedEventNo = c.nextWantedEventNo
<1> DEFINE all == AddEvents(c.events, ToSet(d.events))  r == ReadCurrentGame(c, d)
<1>1. ComeFrom(c.gameId, ToSet(d.events))
  BY DatagramEvents
<1>2. /\ EventsOf(c.gameId, all)
      /\ DOMAIN c.events \subseteq DOMAIN all
      /\ \A n \in DOMAIN all : n \in DOMAIN c.events \/ Event(c.gameId, n) \in ToSet(d.events)
  BY <1>1, AddEventsHolds DEF HoldsItsGame
<1>3. ASSUME NEW n \in DOMAIN all, OfWorm(all[n]) PROVE c.playersInGame
  <2>1. CASE n \in DOMAIN c.events
    BY <1>2, <1>3, <2>1 DEF HoldsItsGame, EventsOf
  <2>2. CASE Event(c.gameId, n) \in ToSet(d.events)
    BY <1>2, <1>3, <2>2 DEF IsSenseless, IsValid, EventsOf, OfWorm
  <2> QED BY <1>2, <2>1, <2>2
<1>4. r = [c EXCEPT !.events = all]
  BY DEF ReadCurrentGame
<1> HIDE DEF all, r
<1>5. /\ r.gameId = c.gameId /\ r.seenGameIds = c.seenGameIds
      /\ r.playersInGame = c.playersInGame /\ r.playerNames = c.playerNames
      /\ r.events = all
      /\ r.nextWantedEventNo = c.nextWantedEventNo /\ r.nextEventToSendNo = c.nextEventToSendNo
      /\ r = [gameId |-> r.gameId, seenGameIds |-> r.seenGameIds,
              playersInGame |-> r.playersInGame, playerNames |-> r.playerNames,
              events |-> r.events, nextWantedEventNo |-> r.nextWantedEventNo,
              nextEventToSendNo |-> r.nextEventToSendNo]
  BY <1>4 DEF HoldsItsGame
<1>6. HoldsItsGame(r)
  <2>1. \A n \in DOMAIN r.events : OfWorm(r.events[n]) => r.playersInGame
    BY <1>3, <1>5
  <2>2. EventsOf(r.gameId, r.events) /\ DOMAIN c.events \subseteq DOMAIN r.events
    BY <1>2, <1>5
  <2> HIDE <1>2, <1>3
  <2> QED BY <1>5, <2>1, <2>2 DEF HoldsItsGame
<1> QED BY <1>5, <1>6 DEF r

LEMMA ReadNewGameHolds ==
  ASSUME NEW c, c.playerNames \in Game \cup {NoGame}, c.seenGameIds \subseteq Game,
         NEW d \in Datagram
  PROVE  /\ HoldsItsGame(ReadNewGame(c, d))
         /\ ReadNewGame(c, d).gameId = d.gameId
         /\ ReadNewGame(c, d).seenGameIds = c.seenGameIds \cup {d.gameId}
         /\ ReadNewGame(c, d).nextWantedEventNo = 0
<1> DEFINE r == ReadNewGame(c, d)  g == d.gameId
           new == ToSet(d.events)
           known == \E e \in new : e.data.type = "NEW_GAME"
<1>1. g \in Game /\ g \in Nat /\ ComeFrom(g, new)
  BY DatagramEvents, GamesAssumption
<1>2. r = [gameId            |-> g,
           seenGameIds       |-> c.seenGameIds \cup {g},
           playersInGame     |-> known,
           playerNames       |-> IF known THEN g ELSE c.playerNames,
           events            |-> IF known THEN AddEvents(NoEvents, new) ELSE NoEvents,
           nextWantedEventNo |-> 0,
           nextEventToSendNo |-> 0]
  BY DEF ReadNewGame
<1>3. EventsOf(g, NoEvents) /\ DOMAIN NoEvents = {}
  BY DEF NoEvents, EventsOf
<1>4. EventsOf(g, AddEvents(NoEvents, new))
  BY <1>1, <1>3, AddEventsHolds
<1>5. known \in BOOLEAN
  OBVIOUS
<1> HIDE DEF r, g, new, known
<1>6. /\ r.gameId = g /\ r.seenGameIds = c.seenGameIds \cup {g}
      /\ r.playersInGame = known /\ r.playerNames = (IF known THEN g ELSE c.playerNames)
      /\ r.events = (IF known THEN AddEvents(NoEvents, new) ELSE NoEvents)
      /\ r.nextWantedEventNo = 0 /\ r.nextEventToSendNo = 0
      /\ r = [gameId |-> r.gameId, seenGameIds |-> r.seenGameIds,
              playersInGame |-> r.playersInGame, playerNames |-> r.playerNames,
              events |-> r.events, nextWantedEventNo |-> r.nextWantedEventNo,
              nextEventToSendNo |-> r.nextEventToSendNo]
  BY <1>2
<1>7. EventsOf(g, r.events) /\ (known \/ DOMAIN r.events = {})
  BY <1>3, <1>4, <1>6
<1>8. HoldsItsGame(r)
  BY <1>1, <1>5, <1>6, <1>7 DEF HoldsItsGame
<1> QED BY <1>6, <1>8 DEF r, g

\* The end of processMessageFromServer
LEMMA DrainHolds ==
  ASSUME NEW c, HoldsItsGame(c)
  PROVE  /\ HoldsItsGame(Drain(c))
         /\ Drain(c).gameId = c.gameId /\ Drain(c).seenGameIds = c.seenGameIds
         /\ Drain(c).playersInGame = c.playersInGame
         /\ Drain(c).nextWantedEventNo = FirstMissing(c.events, c.nextWantedEventNo)
         /\ Drain(c).nextWantedEventNo >= c.nextWantedEventNo
         /\ Drain(c).nextWantedEventNo \notin DOMAIN Drain(c).events
<1> DEFINE upTo == FirstMissing(c.events, c.nextWantedEventNo)  r == Drain(c)
<1>1. IsFiniteSet(DOMAIN c.events)
  <2>1. LogLength \in Nat /\ 0 \in Int /\ LogLength - 1 \in Int
    BY GamesAssumption
  <2>2. IsFiniteSet(Numbers)
    BY <2>1, FS_Interval DEF Numbers
  <2> QED BY <2>2, FS_Subset DEF HoldsItsGame, EventsOf
<1>2. c.nextWantedEventNo \in Nat
  BY DEF HoldsItsGame
<1>3. /\ upTo \in Nat /\ upTo >= c.nextWantedEventNo /\ upTo \notin DOMAIN c.events
      /\ \A n \in c.nextWantedEventNo .. upTo - 1 : n \in DOMAIN c.events
  BY <1>1, <1>2, FirstMissingFound
<1>4. r = [c EXCEPT !.nextWantedEventNo = upTo, !.nextEventToSendNo = upTo]
  BY DEF Drain
<1> HIDE DEF upTo, r
<1>5. /\ r.gameId = c.gameId /\ r.seenGameIds = c.seenGameIds
      /\ r.playersInGame = c.playersInGame /\ r.playerNames = c.playerNames
      /\ r.events = c.events
      /\ r.nextWantedEventNo = upTo /\ r.nextEventToSendNo = upTo
      /\ r = [gameId |-> r.gameId, seenGameIds |-> r.seenGameIds,
              playersInGame |-> r.playersInGame, playerNames |-> r.playerNames,
              events |-> r.events, nextWantedEventNo |-> r.nextWantedEventNo,
              nextEventToSendNo |-> r.nextEventToSendNo]
  BY <1>4 DEF HoldsItsGame
<1>6. \A n \in 0 .. upTo - 1 : n \in DOMAIN c.events
  <2> SUFFICES ASSUME NEW n \in 0 .. upTo - 1 PROVE n \in DOMAIN c.events
    OBVIOUS
  <2>1. CASE n < c.nextWantedEventNo
    BY <1>2, <2>1 DEF HoldsItsGame
  <2>2. CASE n >= c.nextWantedEventNo
    BY <1>2, <1>3, <2>2
  <2> QED BY <1>2, <2>1, <2>2
<1>7. HoldsItsGame(r)
  BY <1>3, <1>5, <1>6 DEF HoldsItsGame
<1> QED BY <1>3, <1>5, <1>7 DEF r, upTo

\* What is told at once: events of one game that follow each other
LEMMA ToldIs ==
  ASSUME NEW c, HoldsItsGame(c), NEW upTo,
         upTo = FirstMissing(c.events, c.nextWantedEventNo)
  PROVE  /\ upTo \in c.nextWantedEventNo .. LogLength \/ upTo = c.nextWantedEventNo
         /\ upTo \in Nat
         /\ Told(c) = [i \in 1 .. upTo - c.nextWantedEventNo |->
                          [game |-> c.gameId, names |-> c.playerNames,
                           event |-> Event(c.gameId, c.nextWantedEventNo + i - 1)]]
         /\ \A i \in 1 .. upTo - c.nextWantedEventNo :
               /\ c.nextWantedEventNo + i - 1 \in Numbers
               /\ OfWorm(Event(c.gameId, c.nextWantedEventNo + i - 1)) =>
                     c.playerNames = c.gameId
<1> DEFINE from == c.nextWantedEventNo
<1>1. from \in Nat /\ c.nextEventToSendNo = from /\ LogLength \in Nat
  BY GamesAssumption DEF HoldsItsGame
<1>2. /\ Drain(c).nextWantedEventNo = upTo /\ Drain(c).nextWantedEventNo \in Nat
      /\ \A n \in 0 .. upTo - 1 : n \in DOMAIN Drain(c).events
      /\ Drain(c).events = c.events /\ upTo >= c.nextWantedEventNo
  <2>1. HoldsItsGame(Drain(c)) /\ Drain(c).nextWantedEventNo = upTo /\ upTo >= c.nextWantedEventNo
    BY DrainHolds
  <2>2. c = [gameId |-> c.gameId, seenGameIds |-> c.seenGameIds, playersInGame |-> c.playersInGame,
             playerNames |-> c.playerNames, events |-> c.events,
             nextWantedEventNo |-> c.nextWantedEventNo, nextEventToSendNo |-> c.nextEventToSendNo]
    BY DEF HoldsItsGame
  <2>3. Drain(c).events = c.events
    BY <2>2 DEF Drain
  <2> QED BY <2>1, <2>3, Zenon DEF HoldsItsGame
<1>3. upTo \in Nat /\ upTo >= from /\ \A n \in 0 .. upTo - 1 :
         n \in DOMAIN c.events /\ n \in Numbers /\ c.events[n] = Event(c.gameId, n)
         /\ (OfWorm(Event(c.gameId, n)) => c.playerNames = c.gameId)
  <2>1. \A n \in DOMAIN c.events :
           n \in Numbers /\ c.events[n] = Event(c.gameId, n)
           /\ (OfWorm(Event(c.gameId, n)) => c.playerNames = c.gameId)
    BY DEF HoldsItsGame, EventsOf
  <2>2. \A n \in 0 .. upTo - 1 : n \in DOMAIN c.events
    BY <1>2, Zenon
  <2>3. upTo \in Nat /\ upTo >= from
    BY <1>1, <1>2, Zenon
  <2> QED BY <2>1, <2>2, <2>3, Zenon
<1> HIDE DEF from
<1>4. \A i \in 1 .. upTo - from : from + i - 1 \in 0 .. upTo - 1
  BY <1>1, <1>3
<1>5. Told(c) = [i \in 1 .. upTo - from |->
                    [game |-> c.gameId, names |-> c.playerNames, event |-> c.events[from + i - 1]]]
  BY <1>1 DEF Told, from
<1>6. Told(c) = [i \in 1 .. upTo - from |->
                    [game |-> c.gameId, names |-> c.playerNames,
                     event |-> Event(c.gameId, from + i - 1)]]
  BY <1>3, <1>4, <1>5
<1>7. upTo \in from .. LogLength \/ upTo = from
  BY <1>1, <1>3 DEF Numbers
<1> QED BY <1>3, <1>4, <1>6, <1>7 DEF from

-----------------------------------------------------------------------------
(* What was told *)

ToldItem ==
    [game : Game, names : Game \cup {NoGame}, event : {Event(g, n) : g \in Game, n \in Numbers}]

\* An entry of "told" about the event n of the game g, whose names were those of "names"
Entry(g, names, n) == [game |-> g, names |-> names, event |-> Event(g, n)]

\* LinesAreNamed, said of the client c
NamedFor(c) ==
    \A i \in DOMAIN told :
        LET t == told[i] IN
        \/ t.event.data.type = "GAME_OVER"
        \/ t.names = t.game
        \/ t.event.data.type = "NEW_GAME" /\ ~(t.game = c.gameId /\ c.playersInGame)

\* How what was told fits to the game of c: all of it up to the wanted event
ToldUpTo(c) ==
    /\ \A i \in DOMAIN told : told[i].game \in c.seenGameIds
    /\ c.nextWantedEventNo = 0 => \A i \in DOMAIN told : told[i].game # c.gameId
    /\ c.nextWantedEventNo # 0 =>
          /\ Len(told) # 0
          /\ told[Len(told)].game = c.gameId
          /\ told[Len(told)].event.no = c.nextWantedEventNo - 1

ToldInv ==
    /\ told \in Seq(ToldItem)
    /\ LinesAreNamed
    /\ client.gameId # NoGame => ToldUpTo(client)

Inv == ClientInv /\ ToldInv

\* A client that holds its game, with what was told before
IsTold(c) == HoldsItsGame(c) /\ ToldUpTo(c) /\ NamedFor(c)

\* k lines are told, of the events of c's game from one number up to another.
Tells(c, from, upTo, k) ==
    /\ k \in Nat /\ Len(told) \in Nat /\ from \in Nat /\ upTo \in Nat
    /\ k # 0 => upTo \in from + 1 .. LogLength
    /\ told' \in Seq(ToldItem) /\ Len(told') = Len(told) + k
    /\ \A i \in 1 .. Len(told) : told'[i] = told[i]
    /\ \A i \in 1 .. k :
          /\ told'[Len(told) + i] = Entry(c.gameId, c.playerNames, from + i - 1)
          /\ OfWorm(Event(c.gameId, from + i - 1)) => c.playerNames = c.gameId

\* What a step that tells does to "told"
LEMMA ShowTells ==
  ASSUME NEW c, HoldsItsGame(c), told \in Seq(ToldItem), Show(c)
  PROVE  /\ Told(c) \in Seq(ToldItem)
         /\ Tells(c, c.nextWantedEventNo, FirstMissing(c.events, c.nextWantedEventNo),
                  FirstMissing(c.events, c.nextWantedEventNo) - c.nextWantedEventNo)
<1> DEFINE from == c.nextWantedEventNo
           upTo == FirstMissing(c.events, from)
           k == upTo - from
           new == Told(c)
<1>1. /\ upTo \in from .. LogLength \/ upTo = from
      /\ upTo \in Nat
      /\ new = [i \in 1 .. k |-> [game |-> c.gameId, names |-> c.playerNames,
                                  event |-> Event(c.gameId, from + i - 1)]]
      /\ \A i \in 1 .. k :
            /\ from + i - 1 \in Numbers
            /\ OfWorm(Event(c.gameId, from + i - 1)) => c.playerNames = c.gameId
  BY ToldIs
<1>2. /\ c.gameId \in Game /\ c.playerNames \in Game \cup {NoGame}
      /\ from \in Nat /\ LogLength \in Nat
  BY GamesAssumption DEF HoldsItsGame
<1>3. told' = told \o new
  BY DEF Show
<1> HIDE DEF new
<1>4. k \in Nat /\ (k # 0 => upTo \in from + 1 .. LogLength)
  BY <1>1, <1>2
<1>5. new = [i \in 1 .. k |-> Entry(c.gameId, c.playerNames, from + i - 1)]
  BY <1>1 DEF Entry
<1>6. \A i \in 1 .. k : Entry(c.gameId, c.playerNames, from + i - 1) \in ToldItem
  BY <1>1, <1>2 DEF Entry, ToldItem
<1>7. new \in Seq(ToldItem) /\ Len(new) = k
  BY <1>4, <1>5, <1>6
<1>8. /\ told' \in Seq(ToldItem) /\ Len(told') = Len(told) + k
      /\ \A i \in 1 .. Len(told) + k :
            told'[i] = IF i <= Len(told) THEN told[i] ELSE new[i - Len(told)]
  <2>1. /\ told \o new \in Seq(ToldItem)
        /\ Len(told \o new) = Len(told) + Len(new)
        /\ \A i \in 1 .. Len(told) + Len(new) :
              (told \o new)[i] = IF i <= Len(told) THEN told[i] ELSE new[i - Len(told)]
    BY <1>7, ConcatProperties
  <2> QED BY <1>3, <1>7, <2>1
<1>9. Len(told) \in Nat
  OBVIOUS
<1>10. \A i \in 1 .. Len(told) : told'[i] = told[i]
  BY <1>4, <1>8, <1>9
<1>11. ASSUME NEW i \in 1 .. k PROVE told'[Len(told) + i] = Entry(c.gameId, c.playerNames, from + i - 1)
  <2>1. Len(told) + i \in 1 .. Len(told) + k /\ ~(Len(told) + i <= Len(told))
        /\ Len(told) + i - Len(told) = i
    BY <1>4, <1>9
  <2>2. told'[Len(told) + i] = new[i]
    BY <1>8, <2>1
  <2> QED BY <1>5, <2>2
<1>12. Told(c) \in Seq(ToldItem)
  BY <1>7 DEF new
<1> HIDE DEF from, upTo, k
<1>13. Tells(c, from, upTo, k)
  BY <1>1, <1>2, <1>4, <1>8, <1>9, <1>10, <1>11 DEF Tells
<1> QED BY <1>12, <1>13 DEF from, upTo, k

LEMMA EventNo == \A g, n : Event(g, n).no = n
BY DEF Event

\* Telling the events before the first missing one keeps the invariant.
LEMMA ShowInv ==
  ASSUME NEW c, IsTold(c), told \in Seq(ToldItem), Show(c)
  PROVE  Inv'
<1> USE DEF IsTold
<1> DEFINE from == c.nextWantedEventNo
           upTo == FirstMissing(c.events, c.nextWantedEventNo)
           k == upTo - from
           n == Len(told)
<1>1. /\ k \in Nat /\ n \in Nat /\ from \in Nat /\ upTo \in Nat
      /\ k # 0 => upTo \in from + 1 .. LogLength
      /\ told' \in Seq(ToldItem) /\ Len(told') = n + k
      /\ \A i \in 1 .. n : told'[i] = told[i]
      /\ \A i \in 1 .. k :
            /\ told'[n + i] = Entry(c.gameId, c.playerNames, from + i - 1)
            /\ OfWorm(Event(c.gameId, from + i - 1)) => c.playerNames = c.gameId
  <2>1. Tells(c, from, upTo, k)
    BY ShowTells
  <2> HIDE DEF from, upTo, k
  <2> QED BY <2>1, Zenon DEF Tells
<1>2. /\ client' = Drain(c)
      /\ HoldsItsGame(client') /\ client'.gameId = c.gameId /\ client'.seenGameIds = c.seenGameIds
      /\ client'.playersInGame = c.playersInGame
      /\ client'.nextWantedEventNo = upTo /\ client'.nextWantedEventNo \notin DOMAIN client'.events
  BY DrainHolds DEF Show
<1>3. ClientInv'
  BY <1>2 DEF ClientInv, HoldsItsGame, EventsOf
<1> HIDE DEF from, upTo, k, n
<1>4. DOMAIN told' = 1 .. n + k /\ DOMAIN told = 1 .. n
  BY <1>1 DEF n
<1>5. \A i \in 1 .. n + k : i \in 1 .. n \/ (i - n \in 1 .. k /\ n + (i - n) = i)
  BY <1>1
<1>6. \A i \in 1 .. n + k :
         \/ i \in 1 .. n /\ told'[i] = told[i]
         \/ \E m \in 1 .. k :
               /\ told'[i] = Entry(c.gameId, c.playerNames, from + m - 1)
               /\ OfWorm(Event(c.gameId, from + m - 1)) => c.playerNames = c.gameId
  <2> DEFINE Known(m) == OfWorm(Event(c.gameId, from + m - 1)) => c.playerNames = c.gameId
  <2>1. /\ \A i \in 1 .. n : told'[i] = told[i]
        /\ \A i \in 1 .. k :
              told'[n + i] = Entry(c.gameId, c.playerNames, from + i - 1) /\ Known(i)
    BY <1>1
  <2> HIDE DEF Known
  <2>2. \A i \in 1 .. n + k :
           \/ i \in 1 .. n /\ told'[i] = told[i]
           \/ \E m \in 1 .. k :
                 told'[i] = Entry(c.gameId, c.playerNames, from + m - 1) /\ Known(m)
    BY <1>5, <2>1, ZenonT(60)
  <2> QED BY <2>2 DEF Known
<1>7. LinesAreNamed'
  <2> DEFINE Named(t) ==
        \/ t.event.data.type = "GAME_OVER"
        \/ t.names = t.game
        \/ t.event.data.type = "NEW_GAME" /\ ~(t.game = c.gameId /\ c.playersInGame)
  <2>1. ASSUME NEW i \in 1 .. n PROVE Named(told[i])
    BY <1>4 DEF NamedFor
  <2>2. ASSUME NEW m \in 1 .. k, OfWorm(Event(c.gameId, from + m - 1)) => c.playerNames = c.gameId
        PROVE  Named(Entry(c.gameId, c.playerNames, from + m - 1))
    <3> DEFINE type == Event(c.gameId, from + m - 1).data.type
    <3>1. type \in {"NEW_GAME", "PIXEL", "PLAYER_ELIMINATED", "GAME_OVER"}
      BY DEF Event
    <3>2. c.playersInGame => c.playerNames = c.gameId
      BY DEF HoldsItsGame
    <3> QED BY <2>2, <3>1, <3>2 DEF Entry, OfWorm
  <2> HIDE DEF Named
  <2>3. ASSUME NEW i \in 1 .. n + k PROVE Named(told'[i])
    BY <1>6, <2>1, <2>2, Zenon
  <2> QED BY <1>2, <1>4, <2>3 DEF LinesAreNamed, Named
<1>8. \A i \in DOMAIN told' : told'[i].game \in c.seenGameIds
  BY <1>4, <1>6 DEF Entry, ToldUpTo, HoldsItsGame
<1>9. CASE k = 0
  <2>1. upTo = from /\ Len(told') = n /\ DOMAIN told' = 1 .. n
    BY <1>1, <1>4, <1>9 DEF k
  <2>2. ToldUpTo(client)'
    BY <1>1, <1>2, <1>4, <1>8, <2>1 DEF ToldUpTo, from, n
  <2> QED BY <1>1, <1>3, <1>7, <2>2 DEF Inv, ToldInv
<1>10. CASE k # 0
  <2>1. k \in 1 .. k /\ upTo # 0 /\ from + k - 1 = upTo - 1 /\ n + k # 0
    BY <1>1, <1>10 DEF k
  <2>2. told'[n + k] = Entry(c.gameId, c.playerNames, upTo - 1)
    BY <1>1, <2>1
  <2>3. /\ Len(told') # 0 /\ told'[Len(told')].game = c.gameId
        /\ told'[Len(told')].event.no = upTo - 1
    BY <1>1, <2>1, <2>2, EventNo DEF Entry
  <2>4. ToldUpTo(client)'
    BY <1>2, <1>8, <2>1, <2>3 DEF ToldUpTo
  <2> QED BY <1>1, <1>3, <1>7, <2>4 DEF Inv, ToldInv
<1> QED BY <1>9, <1>10

LEMMA InitInv == Init => Inv
<1> SUFFICES ASSUME Init PROVE Inv
  OBVIOUS
<1>1. ClientInv /\ told = <<>>
  BY DEF Init, ClientInv
<1>2. client.gameId = NoGame
  BY DEF Init, NewClient
<1>3. told \in Seq(ToldItem) /\ LinesAreNamed
  BY <1>1 DEF LinesAreNamed
<1> QED BY <1>1, <1>2, <1>3 DEF Inv, ToldInv

\* The client a datagram is read into: what it holds, and what was told before
LEMMA ReadInv ==
  ASSUME Inv, NEW d \in Datagram
  PROVE  /\ /\ d.gameId = client.gameId
            /\ ~IsSenseless(client, d)
            => IsTold(ReadCurrentGame(client, d))
         /\ d.gameId \notin client.seenGameIds => IsTold(ReadNewGame(client, d))
<1>1. d.gameId \in Game /\ d.gameId # NoGame
  BY DatagramEvents, GamesAssumption
<1>2. client.playerNames \in Game \cup {NoGame} /\ client.seenGameIds \subseteq Game
  BY DEF Inv, ClientInv, HoldsItsGame, NewClient
<1>3. ASSUME d.gameId = client.gameId, ~IsSenseless(client, d)
      PROVE  IsTold(ReadCurrentGame(client, d))
  <2>1. HoldsItsGame(client) /\ ToldUpTo(client)
    BY <1>1, <1>3 DEF Inv, ClientInv, ToldInv, NewClient
  <2>2. /\ HoldsItsGame(ReadCurrentGame(client, d))
        /\ ReadCurrentGame(client, d).gameId = client.gameId
        /\ ReadCurrentGame(client, d).seenGameIds = client.seenGameIds
        /\ ReadCurrentGame(client, d).playersInGame = client.playersInGame
        /\ ReadCurrentGame(client, d).nextWantedEventNo = client.nextWantedEventNo
    BY <1>3, <2>1, ReadCurrentGameHolds
  <2>3. NamedFor(client)
    BY DEF Inv, ToldInv, LinesAreNamed, NamedFor
  <2>4. NamedFor(ReadCurrentGame(client, d))
    BY <2>2, <2>3 DEF NamedFor
  <2> QED BY <2>1, <2>2, <2>4 DEF ToldUpTo, IsTold
<1>4. ASSUME d.gameId \notin client.seenGameIds
      PROVE  IsTold(ReadNewGame(client, d))
  <2>1. /\ HoldsItsGame(ReadNewGame(client, d))
        /\ ReadNewGame(client, d).gameId = d.gameId
        /\ ReadNewGame(client, d).seenGameIds = client.seenGameIds \cup {d.gameId}
        /\ ReadNewGame(client, d).nextWantedEventNo = 0
    BY <1>2, ReadNewGameHolds
  <2>2. \A i \in DOMAIN told : told[i].game \in client.seenGameIds
    <3>1. CASE told = <<>>
      BY <3>1
    <3>2. CASE HoldsItsGame(client)
      <4>1. client.gameId # NoGame
        BY <3>2, GamesAssumption DEF HoldsItsGame
      <4> QED BY <4>1 DEF Inv, ToldInv, ToldUpTo
    <3> QED BY <3>1, <3>2 DEF Inv, ClientInv
  <2>3. NamedFor(client)
    BY DEF Inv, ToldInv, LinesAreNamed, NamedFor
  <2>4. NamedFor(ReadNewGame(client, d))
    BY <1>4, <2>1, <2>2, <2>3 DEF NamedFor
  <2> QED BY <1>4, <2>1, <2>2, <2>4 DEF ToldUpTo, IsTold
<1> QED BY <1>3, <1>4

LEMMA NextInv == Inv /\ [Next]_vars => Inv'
<1> SUFFICES ASSUME Inv, [Next]_vars PROVE Inv'
  OBVIOUS
<1>0. told \in Seq(ToldItem)
  BY DEF Inv, ToldInv
<1>1. ASSUME NEW d \in Datagram, ReceiveOfCurrentGame(d) PROVE Inv' \/ UNCHANGED <<client, told>>
  <2>1. CASE IsSenseless(client, d)
    BY <1>1, <2>1 DEF ReceiveOfCurrentGame, Exit
  <2>2. CASE ~IsSenseless(client, d)
    <3>1. d.gameId = client.gameId /\ Show(ReadCurrentGame(client, d))
      BY <1>1, <2>2 DEF ReceiveOfCurrentGame
    <3> QED BY <1>0, <2>2, <3>1, ReadInv, ShowInv
  <2> QED BY <2>1, <2>2
<1>2. ASSUME NEW d \in Datagram, ReceiveOfNewGame(d) PROVE Inv'
  <2>1. d.gameId \notin client.seenGameIds /\ Show(ReadNewGame(client, d))
    BY <1>2 DEF ReceiveOfNewGame
  <2> QED BY <1>0, <2>1, ReadInv, ShowInv
<1>3. UNCHANGED <<client, told>> => Inv'
  BY DEF Inv, ClientInv, ToldInv, LinesAreNamed, ToldUpTo
<1>4. \/ \E d \in Datagram : ReceiveOfCurrentGame(d) \/ ReceiveOfNewGame(d)
      \/ UNCHANGED <<client, told>>
  BY DEF Next, ReceiveOfSeenGame, FlushOutgoing, ReadFromGui, ReadUpdate, EnqueueMessageToServer,
         SendMessageToServer, Exit, vars
<1> QED BY <1>1, <1>2, <1>3, <1>4

LEMMA Invariance == Spec => []Inv
BY InitInv, NextInv, PTL DEF Spec

\* Whatever datagrams come, early, late or twice, the client asks for the first event of
\* its game that it lacks, and has told those before.
THEOREM NumbersCorrect == Spec => []AsksForFirstMissing
<1>1. Inv => AsksForFirstMissing
  BY DEF Inv, ClientInv, AsksForFirstMissing, HoldsItsGame, NewClient
<1> QED BY <1>1, Invariance, PTL

\* Whenever the line of a worm is written, the names at hand are those of its game; so are
\* those in the line of NEW_GAME, unless NEW_GAME came late.
THEOREM NamesCorrect == Spec => []LinesAreNamed
<1>1. Inv => LinesAreNamed
  BY DEF Inv, ToldInv
<1> QED BY <1>1, Invariance, PTL

-----------------------------------------------------------------------------
(* What was written, and what the interface has got of it *)

Byte == [game : Game, no : Numbers, half : {1, 2}]

LinesOf(ts) == [i \in DOMAIN ts |-> Line(ts[i])]

LEMMA LinesAre ==
  ASSUME NEW ts \in Seq(ToldItem)
  PROVE  /\ LinesOf(ts) \in Seq(Seq(Byte)) /\ Len(LinesOf(ts)) = Len(ts)
         /\ \A i \in 1 .. Len(ts) : LinesOf(ts)[i] = Line(ts[i])
<1>1. Len(ts) \in Nat /\ DOMAIN ts = 1 .. Len(ts)
  OBVIOUS
<1>2. ASSUME NEW i \in 1 .. Len(ts) PROVE Line(ts[i]) \in Seq(Byte)
  <2>1. ts[i].game \in Game /\ ts[i].event.no \in Numbers
    <3>1. ts[i] \in ToldItem
      OBVIOUS
    <3> QED BY <3>1, EventNo DEF ToldItem
  <2>2. /\ [game |-> ts[i].game, no |-> ts[i].event.no, half |-> 1] \in Byte
        /\ [game |-> ts[i].game, no |-> ts[i].event.no, half |-> 2] \in Byte
    BY <2>1 DEF Byte
  <2> QED BY <2>2 DEF Line
<1>3. LinesOf(ts) = [i \in 1 .. Len(ts) |-> Line(ts[i])]
  BY <1>1 DEF LinesOf
<1> QED BY <1>1, <1>2, <1>3

LEMMA BytesConcat ==
  ASSUME NEW a \in Seq(ToldItem), NEW b \in Seq(ToldItem)
  PROVE  /\ Bytes(a) \in Seq(Byte) /\ Bytes(b) \in Seq(Byte)
         /\ Bytes(a \o b) = Bytes(a) \o Bytes(b)
<1> DEFINE c == a \o b
<1>1. /\ c \in Seq(ToldItem) /\ Len(c) = Len(a) + Len(b) /\ Len(a) \in Nat /\ Len(b) \in Nat
      /\ \A i \in 1 .. Len(a) + Len(b) : c[i] = IF i <= Len(a) THEN a[i] ELSE b[i - Len(a)]
  BY ConcatProperties, LenProperties
<1> HIDE DEF c
<1>2. /\ LinesOf(a) \in Seq(Seq(Byte)) /\ Len(LinesOf(a)) = Len(a)
      /\ LinesOf(b) \in Seq(Seq(Byte)) /\ Len(LinesOf(b)) = Len(b)
      /\ LinesOf(c) \in Seq(Seq(Byte)) /\ Len(LinesOf(c)) = Len(c)
      /\ \A i \in 1 .. Len(a) : LinesOf(a)[i] = Line(a[i])
      /\ \A i \in 1 .. Len(b) : LinesOf(b)[i] = Line(b[i])
      /\ \A i \in 1 .. Len(c) : LinesOf(c)[i] = Line(c[i])
  BY <1>1, LinesAre
<1> DEFINE all == LinesOf(a) \o LinesOf(b)
<1>3. /\ all \in Seq(Seq(Byte)) /\ Len(all) = Len(LinesOf(a)) + Len(LinesOf(b))
      /\ \A i \in 1 .. Len(LinesOf(a)) + Len(LinesOf(b)) :
            all[i] = IF i <= Len(LinesOf(a)) THEN LinesOf(a)[i]
                     ELSE LinesOf(b)[i - Len(LinesOf(a))]
  <2> DEFINE x == LinesOf(a)  y == LinesOf(b)
  <2>1. x \in Seq(Seq(Byte)) /\ y \in Seq(Seq(Byte))
    BY <1>2
  <2> HIDE DEF x, y
  <2>2. /\ x \o y \in Seq(Seq(Byte)) /\ Len(x \o y) = Len(x) + Len(y)
        /\ \A i \in 1 .. Len(x) + Len(y) : (x \o y)[i] = IF i <= Len(x) THEN x[i] ELSE y[i - Len(x)]
    BY <2>1, ConcatProperties
  <2> QED BY <2>2, Zenon DEF x, y
<1> HIDE DEF all
<1>4. ASSUME NEW i \in 1 .. Len(c) PROVE LinesOf(c)[i] = all[i]
  <2>1. i \in 1 .. Len(a) + Len(b)
    BY <1>1
  <2>2. LinesOf(c)[i] = Line(c[i])
    BY <1>2
  <2>3. CASE i <= Len(a)
    <3>1. i \in 1 .. Len(a)
      BY <1>1, <2>1, <2>3
    <3>2. all[i] = LinesOf(a)[i] /\ c[i] = a[i]
      BY <1>1, <1>2, <1>3, <2>1, <2>3
    <3> QED BY <1>2, <2>2, <3>1, <3>2
  <2>4. CASE ~(i <= Len(a))
    <3>1. i - Len(a) \in 1 .. Len(b)
      BY <1>1, <2>1, <2>4
    <3>2. all[i] = LinesOf(b)[i - Len(a)] /\ c[i] = b[i - Len(a)]
      BY <1>1, <1>2, <1>3, <2>1, <2>4
    <3> QED BY <1>2, <2>2, <3>1, <3>2
  <2> QED BY <2>3, <2>4
<1>5. LinesOf(c) = all
  BY <1>1, <1>2, <1>3, <1>4, SeqEqual
<1>6. /\ FlattenSeq(LinesOf(a)) \in Seq(Byte) /\ FlattenSeq(LinesOf(b)) \in Seq(Byte)
      /\ FlattenSeq(all) = FlattenSeq(LinesOf(a)) \o FlattenSeq(LinesOf(b))
  BY <1>2, FlattenConcat DEF all
<1>7. Bytes(a) = FlattenSeq(LinesOf(a)) /\ Bytes(b) = FlattenSeq(LinesOf(b))
      /\ Bytes(c) = FlattenSeq(LinesOf(c))
  BY Zenon DEF Bytes, LinesOf
<1> QED BY <1>5, <1>6, <1>7 DEF c

OutputInv ==
    /\ outBuffer \in Seq(Byte) /\ received \in Seq(Byte)
    /\ OutputIntact

LEMMA OutputInit == Init => OutputInv
<1> SUFFICES ASSUME Init PROVE OutputInv
  OBVIOUS
<1>1. received = <<>> /\ outBuffer = <<>> /\ told = <<>>
  BY DEF Init
<1>2. Bytes(told) = <<>>
  BY <1>1 DEF Bytes, FlattenSeq
<1>3. <<>> \in Seq(Byte) /\ <<>> \o <<>> = <<>>
  OBVIOUS
<1> QED BY <1>1, <1>2, <1>3 DEF OutputInv, OutputIntact

\* The lines of what is told go behind those that wait.
LEMMA ShowOutput ==
  ASSUME NEW c, HoldsItsGame(c), Inv, OutputInv, Show(c)
  PROVE  OutputInv'
<1>1. told \in Seq(ToldItem)
  BY DEF Inv, ToldInv
<1>2. Told(c) \in Seq(ToldItem)
  BY <1>1, ShowTells
<1> DEFINE new == Bytes(Told(c))
<1>3. /\ told' = told \o Told(c) /\ outBuffer' = outBuffer \o new /\ received' = received
  BY DEF Show
<1>4. new \in Seq(Byte) /\ Bytes(told)' = Bytes(told) \o new
  BY <1>1, <1>2, <1>3, BytesConcat
<1> HIDE DEF new
<1>5. outBuffer \in Seq(Byte) /\ received \in Seq(Byte) /\ received \o outBuffer = Bytes(told)
  BY DEF OutputInv, OutputIntact
<1>6. outBuffer' \in Seq(Byte)
  BY <1>3, <1>4, <1>5, ConcatProperties
<1>7. (received \o outBuffer) \o new = received \o (outBuffer \o new)
  <2>1. received \in Seq(Byte) /\ outBuffer \in Seq(Byte) /\ new \in Seq(Byte)
    BY <1>4, <1>5
  <2> QED BY <2>1, ConcatAssociative, SMTT(30)
<1>8. received' \o outBuffer' = Bytes(told)'
  BY <1>3, <1>4, <1>5, <1>7
<1> QED BY <1>3, <1>5, <1>6, <1>8 DEF OutputInv, OutputIntact

\* What is written leaves the front of what waits.
LEMMA FlushOutput ==
  ASSUME OutputInv, NEW n \in 1 .. Len(outBuffer),
         received' = received \o SubSeq(outBuffer, 1, n),
         outBuffer' = AfterWrite(outBuffer, n), told' = told
  PROVE  OutputInv'
<1> DEFINE front == SubSeq(outBuffer, 1, n)  back == SubSeq(outBuffer, n + 1, Len(outBuffer))
<1>1. outBuffer \in Seq(Byte) /\ received \in Seq(Byte) /\ received \o outBuffer = Bytes(told)
  BY DEF OutputInv, OutputIntact
<1>2. Len(outBuffer) \in Nat
  BY <1>1
<1>3. front \o back = outBuffer
  <2>1. /\ 1 \in 1 .. Len(outBuffer) + 1 /\ n \in 1 - 1 .. Len(outBuffer)
        /\ Len(outBuffer) \in n .. Len(outBuffer)
    BY <1>2
  <2>2. front \o back = SubSeq(outBuffer, 1, Len(outBuffer))
    BY <1>1, <2>1, ConcatAdjacentSubSeq
  <2> QED BY <1>1, <2>2, SubSeqFull
<1>4. front \in Seq(Byte) /\ back \in Seq(Byte)
  BY <1>1, <1>2
<1> HIDE DEF front, back
<1>5. received' = received \o front /\ outBuffer' = back
  BY DEF AfterWrite, front, back
<1>6. (received \o front) \o back = received \o (front \o back)
  BY <1>1, <1>4, ConcatAssociative, SMTT(30)
<1>7. received' \in Seq(Byte) /\ outBuffer' \in Seq(Byte)
  BY <1>1, <1>4, <1>5, ConcatProperties
<1>8. Bytes(told)' = Bytes(told)
  OBVIOUS
<1>9. received' \o outBuffer' = Bytes(told)'
  BY <1>1, <1>3, <1>5, <1>6, <1>8
<1> QED BY <1>7, <1>9 DEF OutputInv, OutputIntact

LEMMA OutputNext == Inv /\ OutputInv /\ [Next]_vars => OutputInv'
<1> SUFFICES ASSUME Inv, OutputInv, [Next]_vars PROVE OutputInv'
  OBVIOUS
<1>1. ASSUME UNCHANGED <<told, outBuffer, received>> PROVE OutputInv'
  BY <1>1 DEF OutputInv, OutputIntact
<1>2. ASSUME NEW d \in Datagram, ReceiveOfCurrentGame(d) PROVE OutputInv'
  <2>1. CASE IsSenseless(client, d)
    BY <1>1, <1>2, <2>1 DEF ReceiveOfCurrentGame, Exit
  <2>2. CASE ~IsSenseless(client, d)
    <3>1. d.gameId = client.gameId /\ Show(ReadCurrentGame(client, d))
      BY <1>2, <2>2 DEF ReceiveOfCurrentGame
    <3> QED BY <2>2, <3>1, ReadInv, ShowOutput DEF IsTold
  <2> QED BY <2>1, <2>2
<1>3. ASSUME NEW d \in Datagram, ReceiveOfNewGame(d) PROVE OutputInv'
  <2>1. d.gameId \notin client.seenGameIds /\ Show(ReadNewGame(client, d))
    BY <1>3 DEF ReceiveOfNewGame
  <2> QED BY <2>1, ReadInv, ShowOutput DEF IsTold
<1>4. ASSUME FlushOutgoing PROVE OutputInv'
  <2>1. CASE Exit("closed")
    BY <1>1, <2>1 DEF Exit
  <2>2. ASSUME NEW n \in 1 .. Len(outBuffer),
               received' = received \o SubSeq(outBuffer, 1, n),
               outBuffer' = AfterWrite(outBuffer, n), told' = told
        PROVE  OutputInv'
    BY <2>2, FlushOutput
  <2> QED BY <1>4, <2>1, <2>2 DEF FlushOutgoing
<1>5. \/ \E d \in Datagram : ReceiveOfCurrentGame(d) \/ ReceiveOfNewGame(d)
      \/ FlushOutgoing
      \/ UNCHANGED <<told, outBuffer, received>>
  BY DEF Next, ReceiveOfSeenGame, ReadFromGui, ReadUpdate, EnqueueMessageToServer,
         SendMessageToServer, Exit, vars
<1> QED BY <1>1, <1>2, <1>3, <1>4, <1>5

\* However the socket cuts the lines, what the interface got and what still waits are the
\* lines of what was told, in order.
THEOREM OutputCorrect == Spec => []OutputIntact
<1>1. OutputInv => OutputIntact
  BY DEF OutputInv
<1> QED BY <1>1, OutputInit, OutputNext, Invariance, PTL DEF Spec

-----------------------------------------------------------------------------
(* What the interface writes, and its lines *)

Newlines(buffer) == {i \in DOMAIN buffer : buffer[i] = Newline}

Directions == {"straight", "left", "right"}

LEMMA NewlinesIn ==
  ASSUME NEW b \in Seq(Token)
  PROVE  /\ Newlines(b) = {i \in 1 .. Len(b) : b[i] = Newline} /\ Len(b) \in Nat
         /\ Newlines(b) \subseteq Nat /\ IsFiniteSet(Newlines(b))
         /\ Cardinality(Newlines(b)) \in Nat
<1>1. Len(b) \in Nat /\ Newlines(b) = {i \in 1 .. Len(b) : b[i] = Newline}
  BY DEF Newlines
<1>2. IsFiniteSet(1 .. Len(b))
  BY <1>1, FS_Interval
<1>3. IsFiniteSet(Newlines(b))
  BY <1>1, <1>2, FS_Subset
<1> QED BY <1>1, <1>3, FS_CardinalityType

InputInv ==
    /\ inBuffer \in Seq(Token) /\ turnDirection \in Directions
    /\ unreadNewlines = Cardinality(Newlines(inBuffer))

\* What is read behind a buffer without a line brings its own newlines.
LEMMA ReadFromGuiKeeps ==
  ASSUME NEW b \in Seq(Token), NEW chunk \in Seq(Token), Cardinality(Newlines(b)) = 0
  PROVE  /\ b \o chunk \in Seq(Token)
         /\ Cardinality(Newlines(b \o chunk)) = Cardinality(Newlines(chunk))
<1> DEFINE all == b \o chunk  k == Len(b)
<1>1. /\ all \in Seq(Token) /\ Len(all) = k + Len(chunk)
      /\ \A i \in 1 .. k + Len(chunk) : all[i] = IF i <= k THEN b[i] ELSE chunk[i - k]
  BY ConcatProperties
<1> HIDE DEF all
<1>2. /\ Newlines(b) = {i \in 1 .. k : b[i] = Newline} /\ k \in Nat
      /\ Newlines(all) = {i \in 1 .. Len(all) : all[i] = Newline}
      /\ Newlines(chunk) = {i \in 1 .. Len(chunk) : chunk[i] = Newline}
      /\ Newlines(chunk) \subseteq Nat /\ IsFiniteSet(Newlines(chunk)) /\ Len(chunk) \in Nat
  BY <1>1, NewlinesIn
<1>3. \A i \in 1 .. k : b[i] # Newline
  <2>1. Newlines(b) = {}
    BY FS_EmptySet, NewlinesIn
  <2> QED BY <1>2, <2>1
<1> HIDE DEF k
<1>4. Newlines(all) = {i + k : i \in Newlines(chunk)}
  <2>1. ASSUME NEW j \in Newlines(all) PROVE j - k \in Newlines(chunk) /\ (j - k) + k = j
    <3>1. j \in 1 .. k + Len(chunk) /\ all[j] = Newline
      BY <1>1, <1>2, <2>1
    <3>2. ~(j <= k)
      <4> SUFFICES ASSUME j <= k PROVE FALSE
        OBVIOUS
      <4>1. j \in 1 .. k /\ all[j] = b[j]
        BY <1>1, <1>2, <3>1
      <4> QED BY <1>3, <3>1, <4>1
    <3>3. j - k \in 1 .. Len(chunk) /\ all[j] = chunk[j - k]
      BY <1>1, <1>2, <3>1, <3>2
    <3> QED BY <1>2, <3>1, <3>3
  <2>2. ASSUME NEW i \in Newlines(chunk) PROVE i + k \in Newlines(all)
    <3>1. i \in 1 .. Len(chunk) /\ chunk[i] = Newline
      BY <1>2, <2>2
    <3>2. i + k \in 1 .. k + Len(chunk) /\ ~(i + k <= k) /\ (i + k) - k = i
      BY <1>2, <3>1
    <3>3. all[i + k] = Newline
      BY <1>1, <3>1, <3>2
    <3> QED BY <1>1, <1>2, <3>2, <3>3
  <2> QED BY <2>1, <2>2
<1>5. Cardinality(Newlines(all)) = Cardinality(Newlines(chunk))
  <2>1. Newlines(chunk) \subseteq Int /\ k \in Int
    BY <1>2
  <2> QED BY <1>2, <1>4, <2>1, SizeOfMoved
<1> QED BY <1>1, <1>5 DEF all

\* A round of the loop takes one line with its newline.
LEMMA TakeLineKeeps ==
  ASSUME NEW s, s.buffer \in Seq(Token), s.direction \in Directions,
         s.newlines = Cardinality(Newlines(s.buffer)), s.newlines > 0
  PROVE  /\ TakeLine(s).buffer \in Seq(Token) /\ TakeLine(s).direction \in Directions
         /\ TakeLine(s).newlines = s.newlines - 1
         /\ TakeLine(s).newlines = Cardinality(Newlines(TakeLine(s).buffer))
         /\ TakeLine(s) = [buffer |-> TakeLine(s).buffer, newlines |-> TakeLine(s).newlines,
                           direction |-> TakeLine(s).direction]
<1> DEFINE b == s.buffer  n == Len(b)  m == Min(Newlines(b))
           rest == SubSeq(b, m + 1, n)
<1>1. /\ Newlines(b) = {i \in 1 .. n : b[i] = Newline} /\ n \in Nat
      /\ Newlines(b) \subseteq Nat /\ IsFiniteSet(Newlines(b))
      /\ Cardinality(Newlines(b)) \in Nat
  BY NewlinesIn
<1>2. Newlines(b) # {}
  BY <1>1, FS_EmptySet
<1>3. m \in Newlines(b) /\ \A j \in Newlines(b) : m <= j
  BY <1>1, <1>2, LeastOfNaturals
<1>4. TakeLine(s) = [buffer    |-> rest, newlines |-> s.newlines - 1,
                     direction |-> Turned(s.direction, SubSeq(b, 1, m - 1))]
  BY <1>1, <1>2 DEF TakeLine, AfterLine, SelectInSeq
<1>5. Turned(s.direction, SubSeq(b, 1, m - 1)) \in Directions
  BY DEF Turned, Directions
<1>a. m \in 1 .. n /\ b[m] = Newline
  BY <1>1, <1>3
<1> HIDE DEF m
<1>6. /\ rest \in Seq(Token) /\ Len(rest) = n - m
      /\ \A i \in 1 .. n - m : rest[i] = b[m + i]
  <2>1. \A i \in m + 1 .. n : b[i] \in Token
    BY <1>a
  <2>2. m + 1 \in Int /\ n \in Int
    BY <1>1, <1>a
  <2>3. /\ rest \in Seq(Token) /\ Len(rest) = (IF m + 1 <= n THEN n - (m + 1) + 1 ELSE 0)
        /\ \A i \in 1 .. n - (m + 1) + 1 : rest[i] = b[m + 1 + i - 1]
    BY <2>1, <2>2, SubSeqProperties
  <2> HIDE DEF rest, b
  <2>4. Len(rest) = n - m /\ n - (m + 1) + 1 = n - m
    BY <1>1, <1>a, <2>3
  <2>5. \A i \in 1 .. n - m : m + 1 + i - 1 = m + i
    BY <1>1, <1>a
  <2> QED BY <2>3, <2>4, <2>5
<1> HIDE DEF rest
<1>7. Newlines(rest) = {i + (-m) : i \in Newlines(b) \ {m}}
  <2>1. Newlines(rest) = {i \in 1 .. n - m : rest[i] = Newline}
    BY <1>6, NewlinesIn
  <2>2. ASSUME NEW i \in Newlines(rest) PROVE m + i \in Newlines(b) \ {m} /\ (m + i) + (-m) = i
    <3>1. i \in 1 .. n - m /\ b[m + i] = Newline
      BY <1>6, <2>1, <2>2
    <3>2. m + i \in 1 .. n /\ m + i # m /\ (m + i) + (-m) = i
      BY <1>1, <1>a, <3>1
    <3> HIDE DEF b
    <3> QED BY <1>1, <3>1, <3>2
  <2>3. ASSUME NEW j \in Newlines(b) \ {m} PROVE j + (-m) \in Newlines(rest)
    <3>1. j \in 1 .. n /\ b[j] = Newline /\ m <= j /\ j # m
      BY <1>1, <1>3, <2>3
    <3>2. j + (-m) \in 1 .. n - m /\ m + (j + (-m)) = j
      BY <1>1, <1>a, <3>1
    <3>3. rest[j + (-m)] = b[m + (j + (-m))]
      BY <1>6, <3>2
    <3> QED BY <2>1, <3>1, <3>2, <3>3
  <2> QED BY <2>2, <2>3
<1>8. /\ IsFiniteSet(Newlines(b) \ {m})
      /\ Cardinality(Newlines(b) \ {m}) = Cardinality(Newlines(b)) - 1
  BY <1>1, <1>3, FS_RemoveElement
<1>9. Newlines(b) \ {m} \subseteq Int /\ -m \in Int
  BY <1>1, <1>a
<1>10. Cardinality(Newlines(rest)) = Cardinality(Newlines(b)) - 1
  BY <1>7, <1>8, <1>9, SizeOfMoved
<1> QED BY <1>4, <1>5, <1>6, <1>10

\* The states of the loop after n rounds: as many lines in the buffer as are still counted
Reading == [buffer : Seq(Token), newlines : Nat, direction : Directions]

IsReading(s, n) ==
    /\ s \in Reading
    /\ s.newlines = unreadNewlines - n
    /\ s.newlines = Cardinality(Newlines(s.buffer))

LEMMA RoundKeeps ==
  ASSUME unreadNewlines \in Nat, NEW n \in 1 .. unreadNewlines, NEW s, IsReading(s, n - 1)
  PROVE  IsReading(TakeLine(s), n)
<1>1. s \in Reading /\ s.newlines = unreadNewlines - (n - 1) /\ s.newlines = Cardinality(Newlines(s.buffer))
  BY DEF IsReading
<1>2. s.buffer \in Seq(Token) /\ s.direction \in Directions /\ s.newlines > 0
  BY <1>1 DEF Reading
<1>3. /\ TakeLine(s).buffer \in Seq(Token) /\ TakeLine(s).direction \in Directions
      /\ TakeLine(s).newlines = s.newlines - 1
      /\ TakeLine(s).newlines = Cardinality(Newlines(TakeLine(s).buffer))
      /\ TakeLine(s) = [buffer |-> TakeLine(s).buffer, newlines |-> TakeLine(s).newlines,
                        direction |-> TakeLine(s).direction]
  BY <1>1, <1>2, TakeLineKeeps
<1>4. s.newlines - 1 = unreadNewlines - n /\ unreadNewlines - n \in Nat
  BY <1>1
<1>5. TakeLine(s) \in Reading
  BY <1>3, <1>4 DEF Reading
<1> QED BY <1>3, <1>4, <1>5 DEF IsReading

\* All rounds of the loop
LEMMA LoopKeeps ==
  ASSUME InputInv, ReadUpdate
  PROVE  InputInv'
<1> DEFINE u == unreadNewlines
           start == [buffer |-> inBuffer, newlines |-> u, direction |-> turnDirection]
           after == CHOOSE f : f = [n \in 0 .. u |-> IF n = 0 THEN start ELSE TakeLine(f[n - 1])]
           G == [p \in (1 .. u) \X Reading |-> TakeLine(p[2])]
<1>1. u \in Nat /\ IsReading(start, 0)
  <2>1. /\ inBuffer \in Seq(Token) /\ turnDirection \in Directions /\ u \in Nat
        /\ u = Cardinality(Newlines(inBuffer))
    BY NewlinesIn DEF InputInv
  <2> QED BY <2>1 DEF IsReading, Reading
<1>2. PICK g : g = [n \in 0 .. u |-> IF n = 0 THEN start ELSE G[<<n, g[n - 1]>>]]
  <2> HIDE DEF G, start, u
  <2>1. PICK g : IsRecursive(g, u, start, G)
    BY <1>1, RecursionTo
  <2> QED BY <2>1 DEF IsRecursive
<1> DEFINE S == {n \in 0 .. u : IsReading(g[n], n)}
<1>3. g[0] = start /\ 0 \in S
  <2> HIDE DEF G, start, u
  <2>1. 0 \in 0 .. u
    BY <1>1
  <2> QED BY <1>1, <1>2, <2>1
<1>4. ASSUME NEW n \in 1 .. u, n - 1 \in S PROVE n \in S /\ g[n] = TakeLine(g[n - 1])
  <2>1. IsReading(g[n - 1], n - 1) /\ n \in 0 .. u
    BY <1>1, <1>4
  <2>2. g[n - 1] \in Reading
    BY <2>1 DEF IsReading
  <2>3. G[<<n, g[n - 1]>>] = TakeLine(g[n - 1])
    BY <2>2
  <2>4. g[n] = G[<<n, g[n - 1]>>]
    <3> HIDE DEF G, start, u
    <3> QED BY <1>1, <1>2
  <2> HIDE DEF G, start
  <2>5. g[n] = TakeLine(g[n - 1])
    BY <2>3, <2>4, Zenon
  <2>6. IsReading(g[n], n)
    BY <1>1, <2>1, <2>5, RoundKeeps
  <2> QED BY <2>1, <2>5, <2>6
<1>5. \A n \in 0 .. u : n \in S
  <2> HIDE DEF S, u, G
  <2> QED BY <1>1, <1>3, <1>4, InductionTo
<1>6. g = [n \in 0 .. u |-> IF n = 0 THEN start ELSE TakeLine(g[n - 1])]
  <2>1. \A n \in 0 .. u : g[n] = IF n = 0 THEN start ELSE TakeLine(g[n - 1])
    <3> HIDE DEF S, u, G, start
    <3>1. \A n \in 1 .. u : n - 1 \in 0 .. u
      BY <1>1
    <3>2. \A n \in 1 .. u : g[n] = TakeLine(g[n - 1])
      BY <1>4, <1>5, <3>1
    <3> QED BY <1>1, <1>3, <3>2
  <2>2. g = [n \in 0 .. u |-> g[n]]
    <3> HIDE DEF G, start, S, u
    <3> QED BY <1>2
  <2> HIDE DEF G, start, S, u
  <2> QED BY <2>1, <2>2
<1>7. after = [n \in 0 .. u |-> IF n = 0 THEN start ELSE TakeLine(after[n - 1])]
  <2> HIDE DEF G, start, S, u
  <2> QED BY <1>6
<1>8. /\ inBuffer' = after[u].buffer /\ unreadNewlines' = after[u].newlines
      /\ turnDirection' = after[u].direction
  BY DEF ReadUpdate
<1> DEFINE T == {n \in 0 .. u : IsReading(after[n], n)}
<1> HIDE DEF after, G, start, u, S
<1>9. 0 \in T
  BY <1>1, <1>7
<1>10. ASSUME NEW n \in 1 .. u, n - 1 \in T PROVE n \in T
  <2>1. IsReading(after[n - 1], n - 1) /\ n \in 0 .. u
    BY <1>1, <1>10
  <2>2. after[n] = TakeLine(after[n - 1])
    BY <1>1, <1>7
  <2>3. IsReading(after[n], n)
    BY <1>1, <2>1, <2>2, RoundKeeps DEF u
  <2> QED BY <2>1, <2>3
<1>11. \A n \in 0 .. u : n \in T
  <2> HIDE DEF T
  <2> QED BY <1>1, <1>9, <1>10, InductionTo
<1>12. IsReading(after[u], u)
  BY <1>1, <1>11
<1> QED BY <1>8, <1>12 DEF IsReading, Reading, InputInv

LEMMA InputInit == Init => InputInv
<1> SUFFICES ASSUME Init PROVE InputInv
  OBVIOUS
<1>1. inBuffer = <<>> /\ unreadNewlines = 0 /\ turnDirection = "straight"
  BY DEF Init
<1>2. Newlines(inBuffer) = {}
  BY <1>1 DEF Newlines
<1>3. inBuffer \in Seq(Token)
  BY <1>1
<1> QED BY <1>1, <1>2, <1>3, FS_EmptySet DEF InputInv, Directions

LEMMA InputNext == InputInv /\ [Next]_vars => InputInv'
<1> SUFFICES ASSUME InputInv, [Next]_vars PROVE InputInv'
  OBVIOUS
<1>1. ASSUME UNCHANGED <<inBuffer, unreadNewlines, turnDirection>> PROVE InputInv'
  BY <1>1 DEF InputInv, Newlines
<1>2. ASSUME ReadFromGui PROVE InputInv'
  <2>1. CASE Exit("closed")
    BY <1>1, <2>1 DEF Exit, inputVars
  <2>2. ASSUME NEW chunk \in BoundedSeq(Token, MaxTokens - tokens),
               inBuffer' = inBuffer \o chunk,
               unreadNewlines' = Cardinality({i \in DOMAIN chunk : chunk[i] = Newline}),
               turnDirection' = turnDirection
        PROVE  InputInv'
    <3>1. chunk \in Seq(Token)
      BY DEF BoundedSeq, SeqOf
    <3>2. inBuffer \in Seq(Token) /\ Cardinality(Newlines(inBuffer)) = 0
      BY <1>2 DEF ReadFromGui, InputInv
    <3>3. /\ inBuffer' \in Seq(Token)
          /\ Cardinality(Newlines(inBuffer')) = Cardinality(Newlines(chunk))
      BY <2>2, <3>1, <3>2, ReadFromGuiKeeps
    <3> QED BY <2>2, <3>3 DEF InputInv, Newlines
  <2> QED BY <1>2, <2>1, <2>2 DEF ReadFromGui
<1>3. ReadFromGui \/ ReadUpdate \/ UNCHANGED <<inBuffer, unreadNewlines, turnDirection>>
  BY DEF Next, ReceiveOfCurrentGame, ReceiveOfNewGame, ReceiveOfSeenGame, Show, FlushOutgoing,
         EnqueueMessageToServer, SendMessageToServer, Exit, vars, inputVars
<1> QED BY <1>1, <1>2, <1>3, LoopKeeps

\* There are as many lines in the buffer as are counted, however the interface's lines
\* were cut: readline always finds its newline.
THEOREM LinesCorrect == Spec => []LinesCounted
<1>1. InputInv => LinesCounted
  BY DEF InputInv, LinesCounted, Newlines
<1> QED BY <1>1, InputInit, InputNext, PTL DEF Spec

-----------------------------------------------------------------------------
(* The types *)

FlagsInv == messageReady \in BOOLEAN /\ exited \in {"no", "senseless", "closed"}

LEMMA FlagsInit == Init => FlagsInv
BY DEF Init, FlagsInv

LEMMA FlagsNext == FlagsInv /\ [Next]_vars => FlagsInv'
BY DEF FlagsInv, Next, ReceiveOfCurrentGame, ReceiveOfNewGame, ReceiveOfSeenGame, Show,
       FlushOutgoing, ReadFromGui, ReadUpdate, EnqueueMessageToServer, SendMessageToServer, Exit,
       vars

\* The variables have their types, and the client holds its game's events only, each under
\* its own number.
THEOREM TypeCorrect == Spec => []TypeOK
<1>1. Inv /\ InputInv /\ FlagsInv => TypeOK
  <2> SUFFICES ASSUME Inv, InputInv, FlagsInv PROVE TypeOK
    OBVIOUS
  <2>1. unreadNewlines \in Nat
    BY NewlinesIn DEF InputInv
  <2>2. CASE HoldsItsGame(client)
    BY <2>1, <2>2 DEF TypeOK, InputInv, FlagsInv, HoldsItsGame, EventsOf, Numbers, Directions
  <2>3. ASSUME NEW n \in Uninitialised, client = NewClient(n) PROVE TypeOK
    <3>1. n \in Nat /\ DOMAIN NoEvents = {}
      BY InputAssumption DEF NoEvents
    <3> QED BY <2>1, <2>3, <3>1 DEF TypeOK, InputInv, FlagsInv, NewClient, Directions
  <2> QED BY <2>2, <2>3 DEF Inv, ClientInv
<1> QED BY <1>1, Invariance, InputInit, InputNext, FlagsInit, FlagsNext, PTL DEF Spec

-----------------------------------------------------------------------------
(* The promise to the interface *)

ToldEvent == [game : Game, no : Numbers]

ShownOf(t) == [i \in DOMAIN t |-> [game |-> t[i].game, no |-> t[i].event.no]]

LEMMA ShownAre ==
  ASSUME NEW t \in Seq(ToldItem)
  PROVE  /\ ShownOf(t) \in Seq(ToldEvent) /\ Len(ShownOf(t)) = Len(t)
         /\ \A i \in 1 .. Len(t) : ShownOf(t)[i] = [game |-> t[i].game, no |-> t[i].event.no]
<1>1. \A i \in 1 .. Len(t) : t[i].game \in Game /\ t[i].event.no \in Numbers
  <2>1. \A i \in 1 .. Len(t) : t[i] \in ToldItem
    OBVIOUS
  <2> QED BY <2>1, EventNo DEF ToldItem
<1>2. DOMAIN t = 1 .. Len(t) /\ Len(t) \in Nat
  OBVIOUS
<1>3. ShownOf(t) = [i \in 1 .. Len(t) |-> [game |-> t[i].game, no |-> t[i].event.no]]
  BY <1>2 DEF ShownOf
<1> QED BY <1>1, <1>2, <1>3 DEF ToldEvent

\* Telling is a step of GuiFeed, or tells nothing.
LEMMA ShowRefines ==
  ASSUME NEW c, HoldsItsGame(c), ToldUpTo(c), told \in Seq(ToldItem), Show(c)
  PROVE  Gui!GoOn \/ Gui!BeginGame \/ UNCHANGED ToldEvents
<1> DEFINE from == c.nextWantedEventNo
           upTo == FirstMissing(c.events, c.nextWantedEventNo)
           k == upTo - from
           n == Len(told)
           part == [i \in 1 .. k |-> [game |-> c.gameId, no |-> from + i - 1]]
<1>1. /\ k \in Nat /\ n \in Nat /\ from \in Nat /\ upTo \in Nat
      /\ k # 0 => upTo \in from + 1 .. LogLength
      /\ told' \in Seq(ToldItem) /\ Len(told') = n + k
      /\ \A i \in 1 .. n : told'[i] = told[i]
      /\ \A i \in 1 .. k :
            /\ told'[n + i] = Entry(c.gameId, c.playerNames, from + i - 1)
            /\ OfWorm(Event(c.gameId, from + i - 1)) => c.playerNames = c.gameId
  <2>1. Tells(c, from, upTo, k)
    BY ShowTells
  <2> HIDE DEF from, upTo, k
  <2> QED BY <2>1, Zenon DEF Tells
<1>a. c.gameId \in Game /\ LogLength \in Nat
  BY GamesAssumption DEF HoldsItsGame
<1>2. /\ ToldEvents = ShownOf(told) /\ ToldEvents' = ShownOf(told')
  BY DEF ToldEvents, ShownOf
<1>3. /\ ToldEvents \in Seq(ToldEvent) /\ Len(ToldEvents) = n
      /\ \A i \in 1 .. n : ToldEvents[i] = [game |-> told[i].game, no |-> told[i].event.no]
  BY <1>2, ShownAre
<1>4. /\ ToldEvents' \in Seq(ToldEvent) /\ Len(ToldEvents') = n + k
      /\ \A i \in 1 .. n + k :
            ToldEvents'[i] = [game |-> told'[i].game, no |-> told'[i].event.no]
  BY <1>1, <1>2, ShownAre
<1> HIDE DEF from, upTo, k, n
<1>5. k = upTo - from
  BY DEF k
<1>6. part \in Seq(ToldEvent) /\ Len(part) = k
  <2>1. \A i \in 1 .. k : from + i - 1 \in Numbers
    BY <1>1, <1>5, <1>a DEF Numbers
  <2> QED BY <1>1, <1>a, <2>1 DEF ToldEvent
<1>7. ToldEvents' = ToldEvents \o part
  <2> DEFINE all == ToldEvents \o part
  <2>1. /\ all \in Seq(ToldEvent) /\ Len(all) = n + k
        /\ \A i \in 1 .. n + k : all[i] = IF i <= n THEN ToldEvents[i] ELSE part[i - n]
    <3> HIDE DEF part
    <3>1. /\ all \in Seq(ToldEvent)
          /\ Len(all) = Len(ToldEvents) + Len(part)
          /\ \A i \in 1 .. Len(ToldEvents) + Len(part) :
                all[i] = IF i <= Len(ToldEvents) THEN ToldEvents[i] ELSE part[i - Len(ToldEvents)]
      BY <1>3, <1>6, ConcatProperties
    <3> HIDE DEF all
    <3> QED BY <3>1, <1>3, <1>6
  <2>2. ASSUME NEW i \in 1 .. n + k PROVE ToldEvents'[i] = all[i]
    <3>1. CASE i <= n
      <4>1. i \in 1 .. n
        BY <1>1, <3>1
      <4>2. ToldEvents'[i] = ToldEvents[i]
        BY <1>1, <1>3, <1>4, <4>1
      <4> HIDE DEF all
      <4> QED BY <2>1, <3>1, <4>2
    <3>2. CASE ~(i <= n)
      <4>1. i - n \in 1 .. k /\ n + (i - n) = i
        BY <1>1, <3>2
      <4>2. told'[i] = Entry(c.gameId, c.playerNames, from + (i - n) - 1)
        BY <1>1, <4>1
      <4>3. ToldEvents'[i] = [game |-> c.gameId, no |-> from + (i - n) - 1]
        BY <1>4, <4>2, EventNo DEF Entry
      <4>4. part[i - n] = [game |-> c.gameId, no |-> from + (i - n) - 1]
        BY <4>1
      <4> HIDE DEF all, part
      <4> QED BY <2>1, <3>2, <4>3, <4>4
    <3> QED BY <3>1, <3>2
  <2> HIDE DEF all
  <2>3. ToldEvents' = all
    BY <1>4, <2>1, <2>2, SeqEqual
  <2> QED BY <2>3 DEF all
<1>8. part = Gui!Part(c.gameId, from, upTo)
  BY <1>5 DEF Gui!Part
<1> HIDE DEF part
<1>9. CASE k = 0
  <2>1. part = <<>>
    BY <1>6, <1>9
  <2> QED BY <1>3, <1>7, <2>1, ConcatEmptySeq
<1>10. CASE k # 0 /\ from = 0
  <2>1. \A i \in 1 .. n : told[i].game # c.gameId
    BY <1>1, <1>10 DEF ToldUpTo, from, n
  <2>2. DOMAIN ToldEvents = 1 .. n
    BY <1>3
  <2>3. c.gameId \in Game \ Gui!Games
    BY <1>3, <1>a, <2>1, <2>2 DEF Gui!Games
  <2>4. upTo \in 1 .. LogLength
    BY <1>1, <1>10
  <2> QED BY <1>7, <1>8, <1>10, <2>3, <2>4 DEF Gui!BeginGame
<1>11. CASE k # 0 /\ from # 0
  <2>1. n # 0 /\ told[n].game = c.gameId /\ told[n].event.no = from - 1
    BY <1>11 DEF ToldUpTo, from, n
  <2>2. n \in 1 .. n /\ ToldEvents # <<>>
    BY <1>1, <1>3, <2>1
  <2>3. ToldEvents[n] = [game |-> c.gameId, no |-> from - 1]
    BY <1>3, <2>1, <2>2
  <2>4. Gui!NextNo = from
    BY <1>1, <1>3, <2>2, <2>3 DEF Gui!NextNo, Gui!Last
  <2>5. Gui!Last(ToldEvents).game = c.gameId
    BY <1>3, <2>3 DEF Gui!Last
  <2> QED BY <1>1, <1>7, <1>8, <1>11, <2>2, <2>4, <2>5 DEF Gui!GoOn
<1> QED BY <1>9, <1>10, <1>11

\* The client implements GuiFeed: one game after another, none twice, and of each the
\* events from the first on, in order and without a gap.
THEOREM PromiseKept == Spec => KeepsGuiFeed
<1>1. Init => Gui!GuiInit
  BY DEF Init, Gui!GuiInit, ToldEvents
<1>2. Inv /\ [Next]_vars => [Gui!GoOn \/ Gui!BeginGame]_ToldEvents
  <2> SUFFICES ASSUME Inv, [Next]_vars, ~UNCHANGED ToldEvents
               PROVE  Gui!GoOn \/ Gui!BeginGame
    OBVIOUS
  <2>1. told \in Seq(ToldItem)
    BY DEF Inv, ToldInv
  <2>2. UNCHANGED told => UNCHANGED ToldEvents
    BY DEF ToldEvents
  <2>3. \/ \E d \in Datagram : ReceiveOfCurrentGame(d) \/ ReceiveOfNewGame(d)
        \/ UNCHANGED told
    BY DEF Next, ReceiveOfSeenGame, FlushOutgoing, ReadFromGui, ReadUpdate,
           EnqueueMessageToServer, SendMessageToServer, Exit, vars
  <2>4. ASSUME NEW d \in Datagram, ReceiveOfCurrentGame(d), ~UNCHANGED told
        PROVE  Gui!GoOn \/ Gui!BeginGame
    <3>1. /\ d.gameId = client.gameId /\ ~IsSenseless(client, d)
          /\ Show(ReadCurrentGame(client, d))
      BY <2>4 DEF ReceiveOfCurrentGame, Exit
    <3> QED BY <2>1, <3>1, ReadInv, ShowRefines DEF IsTold
  <2>5. ASSUME NEW d \in Datagram, ReceiveOfNewGame(d)
        PROVE  Gui!GoOn \/ Gui!BeginGame
    <3>1. d.gameId \notin client.seenGameIds /\ Show(ReadNewGame(client, d))
      BY <2>5 DEF ReceiveOfNewGame
    <3> QED BY <2>1, <3>1, ReadInv, ShowRefines DEF IsTold
  <2> QED BY <2>2, <2>3, <2>4, <2>5
<1> QED BY <1>1, <1>2, Invariance, PTL DEF Spec, KeepsGuiFeed, Gui!GuiSpec
=============================================================================
