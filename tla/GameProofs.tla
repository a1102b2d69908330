----------------------------- MODULE GameProofs -----------------------------
(***************************************************************************)
(* The invariants of the game and of the server around it.  GameInv puts   *)
(* together what the steps rely on: where the loop over the players        *)
(* stands, the count of the living, who is numbered, and that the queues,  *)
(* the watchers and the players agree.  A lemma for each step says that it *)
(* keeps GameInv, and whom it registers, which is what the server's tables *)
(* depend on.                                                              *)
(*                                                                         *)
(* DropQueues, DropConnections and Cleanup repeat an operation for the     *)
(* members of a set or a number of times, as recursive functions: that     *)
(* such a function exists, and what it preserves, is shown by looking at   *)
(* the least set, or number, for which it fails.                           *)
(*                                                                         *)
(* The second half is about what clients are told of a game.  A step       *)
(* either tells nothing or adds to the events of the latest game (Story);  *)
(* Tale says what these events are at any time, LogInv how they agree with *)
(* the worms.  In the server, which also puts games on air (Sends), they   *)
(* come one after another: InTurn.                                         *)
(***************************************************************************)
EXTENDS Server, MQOperationsProofs

-----------------------------------------------------------------------------
(* The queues of the game *)

Managed(m) == IsManager(m, Fingerprint, Nat, EventData) /\ Consistent(m)

Registered(m) == DOMAIN m.queues

\* The manager n holds the same events as m.
SameLog(m, n) ==
    /\ n.currentGameEvents = m.currentGameEvents
    /\ n.nextGames = m.nextGames
    /\ n.currentlyBroadcastedGameId = m.currentlyBroadcastedGameId

\* The two forms of saying that a manager is one: its queues' clients named, or not
LEMMA ManagedMeans ==
  ASSUME NEW m, Managed(m)
  PROVE  /\ m \in ManagerOf(Registered(m), Nat, EventData) /\ Consistent(m)
         /\ Registered(m) \in SUBSET Fingerprint
<1>1. PICK F \in SUBSET Fingerprint : m \in ManagerOf(F, Nat, EventData)
  BY DEF Managed, IsManager
<1>2. m.queues \in [F -> Nat]
  BY <1>1 DEF ManagerOf
<1>3. Registered(m) = F
  BY <1>2 DEF Registered
<1> QED BY <1>1, <1>3 DEF Managed

LEMMA IsManaged ==
  ASSUME NEW m, NEW F \in SUBSET Fingerprint, m \in ManagerOf(F, Nat, EventData), Consistent(m)
  PROVE  Managed(m) /\ Registered(m) = F
<1>1. m.queues \in [F -> Nat]
  BY DEF ManagerOf
<1> QED BY <1>1 DEF Managed, IsManager, Registered

\* Clients come, go and acknowledge without touching the events.
LEMMA QueuesApart ==
  ASSUME NEW m, Managed(m), NEW f, NEW n
  PROVE  SameLog(m, AckIfKnown(m, f, n)) /\ SameLog(m, AddQueue(m, f, n)) /\ SameLog(m, DropQueue(m, f))
<1>1. m \in ManagerOf(Registered(m), Nat, EventData)
  BY ManagedMeans
<1>2. SameLog(m, AckIfKnown(m, f, n))
  BY <1>1 DEF SameLog, AckIfKnown, Ack, ManagerOf
<1>3. SameLog(m, AddQueue(m, f, n))
  BY <1>1 DEF SameLog, AddQueue, ManagerOf
<1>4. SameLog(m, DropQueue(m, f))
  BY <1>1 DEF SameLog, DropQueue, ManagerOf
<1> QED BY <1>2, <1>3, <1>4

\* GameManager schedules events, ...
LEMMA ScheduleManaged ==
  ASSUME NEW m, Managed(m), NEW id \in Nat, NEW e \in EventData
  PROVE  Managed(Schedule(m, id, e)) /\ Registered(Schedule(m, id, e)) = Registered(m)
BY ManagedMeans, ScheduleConsistent, IsManaged

\* (where they go depends on the events alone), ...
Waiting(m, id) == SelectInSeq(m.nextGames, LAMBDA g : g.id = id)

CurrentWith(m, id, event) ==
    IF id = m.currentlyBroadcastedGameId
    THEN Append(m.currentGameEvents, [no |-> Len(m.currentGameEvents), data |-> event])
    ELSE m.currentGameEvents

NextWith(m, id, event) ==
    IF id = m.currentlyBroadcastedGameId THEN m.nextGames
    ELSE IF Waiting(m, id) # 0
    THEN [m.nextGames EXCEPT ![Waiting(m, id)].events = Append(@, event)]
    ELSE Append(m.nextGames, [id |-> id, events |-> <<event>>])

LEMMA ScheduleParts ==
  ASSUME NEW m, Managed(m), NEW id, NEW event
  PROVE  /\ Schedule(m, id, event).currentlyBroadcastedGameId = m.currentlyBroadcastedGameId
         /\ Schedule(m, id, event).currentGameEvents = CurrentWith(m, id, event)
         /\ Schedule(m, id, event).nextGames = NextWith(m, id, event)
<1> DEFINE w == Waiting(m, id)  k == Schedule(m, id, event)
<1>1. m \in ManagerOf(Registered(m), Nat, EventData)
  BY ManagedMeans
<1>2. CASE id = m.currentlyBroadcastedGameId
  <2>1. k = [m EXCEPT !.currentGameEvents = Append(@, [no |-> Len(@), data |-> event])]
    BY <1>2 DEF Schedule
  <2> HIDE DEF k
  <2> QED BY <1>1, <1>2, <2>1 DEF ManagerOf, CurrentWith, NextWith, k
<1>3. CASE id # m.currentlyBroadcastedGameId /\ w # 0
  <2> DEFINE later == [m.nextGames EXCEPT ![w].events = Append(@, event)]
  <2>1. k = [m EXCEPT !.nextGames = later]
    BY <1>3 DEF Schedule, Waiting
  <2> HIDE DEF later, k
  <2>2. /\ k.nextGames = later /\ k.currentGameEvents = m.currentGameEvents
        /\ k.currentlyBroadcastedGameId = m.currentlyBroadcastedGameId
    BY <1>1, <2>1 DEF ManagerOf
  <2> QED BY <1>3, <2>2 DEF later, CurrentWith, NextWith, k
<1>4. CASE id # m.currentlyBroadcastedGameId /\ w = 0
  <2>1. k = [m EXCEPT !.nextGames = Append(@, [id |-> id, events |-> <<event>>])]
    BY <1>4 DEF Schedule, Waiting
  <2> HIDE DEF k
  <2> QED BY <1>1, <1>4, <2>1 DEF ManagerOf, CurrentWith, NextWith, k
<1> QED BY <1>2, <1>3, <1>4

LEMMA ScheduleSame ==
  ASSUME NEW m, Managed(m), NEW k, Managed(k), SameLog(m, k), NEW id, NEW event
  PROVE  SameLog(Schedule(m, id, event), Schedule(k, id, event))
<1>1. /\ k.currentGameEvents = m.currentGameEvents /\ k.nextGames = m.nextGames
      /\ k.currentlyBroadcastedGameId = m.currentlyBroadcastedGameId
  BY DEF SameLog
<1>2. Waiting(k, id) = Waiting(m, id)
  BY <1>1 DEF Waiting
<1>3. CurrentWith(k, id, event) = CurrentWith(m, id, event) /\ NextWith(k, id, event) = NextWith(m, id, event)
  BY <1>1, <1>2 DEF CurrentWith, NextWith
<1> QED BY <1>1, <1>3, ScheduleParts DEF SameLog

\* ... acknowledges them, ...
LEMMA AckManaged ==
  ASSUME NEW m, Managed(m), NEW f, NEW n \in Nat
  PROVE  Managed(AckIfKnown(m, f, n)) /\ Registered(AckIfKnown(m, f, n)) = Registered(m)
<1>1. CASE f \in Registered(m)
  <2>1. AckIfKnown(m, f, n) = Ack(m, f, n)
    BY <1>1 DEF AckIfKnown, Registered
  <2> QED BY <1>1, <2>1, ManagedMeans, AckConsistent, IsManaged
<1>2. CASE f \notin Registered(m)
  BY <1>2 DEF AckIfKnown, Registered
<1> QED BY <1>1, <1>2

\* ... and registers clients and drops them.
LEMMA AddQueueManaged ==
  ASSUME NEW m, Managed(m), NEW f \in Fingerprint, NEW n \in Nat
  PROVE  Managed(AddQueue(m, f, n)) /\ Registered(AddQueue(m, f, n)) = Registered(m) \cup {f}
<1> DEFINE F == Registered(m)  G == F \cup {f}
<1>1. m \in ManagerOf(F, Nat, EventData) /\ Consistent(m) /\ G \in SUBSET Fingerprint
  BY ManagedMeans
<1>2. AddQueue(m, f, n) \in ManagerOf(G, Nat, EventData) /\ Consistent(AddQueue(m, f, n))
  BY <1>1, AddQueueConsistent
<1> QED BY <1>1, <1>2, IsManaged

\* dropQueue, of anybody
LEMMA DropQueueManaged ==
  ASSUME NEW m, Managed(m), NEW f
  PROVE  Managed(DropQueue(m, f)) /\ Registered(DropQueue(m, f)) = Registered(m) \ {f}
<1>1. Registered(m) \ {f} \in SUBSET Fingerprint
  BY ManagedMeans
<1> QED BY <1>1, ManagedMeans, DropQueueConsistent, IsManaged

\* DropQueues as a function on the subsets of S, which exists and is what it says
Dropping(it, D, m) ==
    it = [s \in D |-> IF s = {} THEN m
                      ELSE DropQueue(it[s \ {CHOOSE f \in s : TRUE}], CHOOSE f \in s : TRUE)]

LEMMA DropQueuesExists ==
  ASSUME NEW m, NEW S, IsFiniteSet(S)
  PROVE  \E it : Dropping(it, SUBSET S, m)
<1> DEFINE Small(n) == {s \in SUBSET S : Cardinality(s) <= n}
           Bad == {n \in Nat : ~\E it : Dropping(it, Small(n), m)}
<1>1. \A s \in SUBSET S : IsFiniteSet(s) /\ Cardinality(s) \in Nat /\ Cardinality(s) <= Cardinality(S)
  BY FS_Subset, FS_CardinalityType
<1>2. SUBSET S = Small(Cardinality(S)) /\ Cardinality(S) \in Nat
  BY <1>1, FS_CardinalityType
<1> SUFFICES ASSUME Bad # {} PROVE FALSE
  BY <1>2
<1> DEFINE b == Min(Bad)
<1>3. b \in Bad /\ \A n \in Bad : b <= n
  BY LeastOfNaturals
<1> HIDE DEF b
<1>4. b \in Nat /\ ~\E it : Dropping(it, Small(b), m)
  BY <1>3
<1>5. CASE b = 0
  <2> DEFINE it == [s \in Small(0) |-> m]
  <2>1. \A s \in Small(0) : s = {}
    <3> TAKE s \in Small(0)
    <3>1. s \in SUBSET S /\ Cardinality(s) = 0
      BY <1>1
    <3> QED BY <1>1, <3>1, FS_EmptySet
  <2> HIDE DEF Small
  <2>2. Dropping(it, Small(0), m)
    BY <2>1 DEF Dropping
  <2> QED BY <1>4, <1>5, <2>2
<1>6. CASE b # 0
  <2>1. b - 1 \in Nat /\ ~(b <= b - 1)
    BY <1>4, <1>6
  <2>2. b - 1 \notin Bad
    BY <1>3, <2>1
  <2>3. PICK it : Dropping(it, Small(b - 1), m)
    BY <2>1, <2>2
  <2> DEFINE Pick(s) == CHOOSE f \in s : TRUE
             next == [s \in Small(b) |-> IF s = {} THEN m ELSE DropQueue(it[s \ {Pick(s)}], Pick(s))]
  <2>4. ASSUME NEW s \in Small(b), s # {} PROVE s \ {Pick(s)} \in Small(b - 1)
    <3>1. Pick(s) \in s
      BY <2>4
    <3>2. Cardinality(s \ {Pick(s)}) = Cardinality(s) - 1
      BY <1>1, <3>1, FS_RemoveElement
    <3> QED BY <1>1, <1>4, <3>2
  <2>5. Small(b - 1) \subseteq Small(b)
    BY <1>1, <1>4
  <2> HIDE DEF Small, Pick
  <2>6. \A s \in Small(b - 1) : it[s] = IF s = {} THEN m ELSE DropQueue(it[s \ {Pick(s)}], Pick(s))
    BY <2>3 DEF Dropping, Pick
  <2>7. \A s \in Small(b - 1) : next[s] = it[s]
    BY <2>5, <2>6
  <2>8. \A s \in Small(b) :
          (IF s = {} THEN m ELSE DropQueue(it[s \ {Pick(s)}], Pick(s)))
            = IF s = {} THEN m ELSE DropQueue(next[s \ {Pick(s)}], Pick(s))
    BY <2>4, <2>7
  <2>9. next = [s \in Small(b) |-> IF s = {} THEN m ELSE DropQueue(next[s \ {Pick(s)}], Pick(s))]
    BY <2>8
  <2> HIDE DEF next
  <2>10. Dropping(next, Small(b), m)
    BY <2>9 DEF Dropping, Pick
  <2> QED BY <1>4, <2>10
<1> QED BY <1>5, <1>6

\* Dropping the queues of a finite set of sockets, as eraseDisconnectedPlayers does
LEMMA DropQueuesManaged ==
  ASSUME NEW m, Managed(m), NEW S, IsFiniteSet(S)
  PROVE  /\ Managed(DropQueues(m, S)) /\ Registered(DropQueues(m, S)) = Registered(m) \ S
         /\ SameLog(m, DropQueues(m, S))
<1> DEFINE it == CHOOSE x : Dropping(x, SUBSET S, m)
           Good(s) == Managed(it[s]) /\ Registered(it[s]) = Registered(m) \ s /\ SameLog(m, it[s])
           Bad == {n \in Nat : \E s \in SUBSET S : Cardinality(s) = n /\ ~Good(s)}
           Pick(s) == CHOOSE f \in s : TRUE
<1>1. DropQueues(m, S) = it[S]
  BY Zenon DEF DropQueues, FoldSet, MapThenFoldSet, Dropping
<1>2. Dropping(it, SUBSET S, m)
  BY DropQueuesExists, Zenon
<1> HIDE DEF it
<1>3. \A s \in SUBSET S : it[s] = IF s = {} THEN m ELSE DropQueue(it[s \ {Pick(s)}], Pick(s))
  BY <1>2 DEF Dropping
<1>4. \A s \in SUBSET S : IsFiniteSet(s) /\ Cardinality(s) \in Nat
  BY FS_Subset, FS_CardinalityType
<1> HIDE DEF Good, Pick
<1> SUFFICES Bad = {}
  BY <1>1, <1>4 DEF Good
<1> SUFFICES ASSUME Bad # {} PROVE FALSE
  OBVIOUS
<1> DEFINE b == Min(Bad)
<1>5. b \in Bad /\ \A n \in Bad : b <= n
  BY LeastOfNaturals
<1> HIDE DEF b
<1>6. PICK s \in SUBSET S : Cardinality(s) = b /\ ~Good(s)
  BY <1>5
<1>7. s # {}
  <2> SUFFICES ASSUME s = {} PROVE FALSE
    OBVIOUS
  <2>1. it[s] = m
    BY <1>3
  <2> QED BY <1>6, <2>1 DEF Good, SameLog
<1> DEFINE f == Pick(s)  r == s \ {f}
<1>8. f \in s
  BY <1>7 DEF Pick
<1> HIDE DEF f
<1>9. r \in SUBSET S /\ Cardinality(r) = b - 1 /\ b - 1 \in Nat
  <2>1. Cardinality(r) = Cardinality(s) - 1
    BY <1>4, <1>8, FS_RemoveElement
  <2>2. r \in SUBSET S
    OBVIOUS
  <2> HIDE DEF r
  <2>3. Cardinality(r) \in Nat
    BY <1>4, <2>2
  <2> QED BY <1>6, <2>1, <2>2, <2>3
<1>10. Good(r)
  <2>1. b - 1 \notin Bad
    BY <1>5, <1>9
  <2> QED BY <1>9, <2>1
<1>11. it[s] = DropQueue(it[r], f)
  BY <1>3, <1>7 DEF f
<1>12. Managed(it[s]) /\ Registered(it[s]) = Registered(it[r]) \ {f} /\ SameLog(m, it[s])
  <2> HIDE DEF r
  <2>1. Managed(it[r]) /\ SameLog(m, it[r])
    BY <1>10 DEF Good
  <2>2. SameLog(it[r], it[s])
    BY <1>11, <2>1, QueuesApart
  <2> QED BY <1>11, <2>1, <2>2, DropQueueManaged DEF SameLog
<1>13. Registered(it[r]) \ {f} = Registered(m) \ s
  BY <1>8, <1>10 DEF Good
<1> QED BY <1>6, <1>12, <1>13 DEF Good

-----------------------------------------------------------------------------
(* The connections *)

\* Watchers and players of the right types, the queues theirs: whoever has a queue is a
\* watcher's or a player's socket, watchers have theirs.  A player who was disconnected
\* had no watcher's socket then, and its socket is none as long as the player stays.
Owned(state) ==
    /\ IsPartialMap(state.watchers, Fingerprint, Session)
    /\ IsPartialMap(state.players, Name, Player)
    /\ Managed(state.mq)
    /\ Registered(state.mq) \subseteq
         DOMAIN state.watchers \cup {state.players[n].fingerprint : n \in DOMAIN state.players}
    /\ DOMAIN state.watchers \subseteq Registered(state.mq)
    /\ \A n \in DOMAIN state.players :
         state.players[n].disconnected => state.players[n].fingerprint \notin DOMAIN state.watchers

\* Between games nobody is disconnected, and no game can start.
Idle(ps) == (\A n \in DOMAIN ps : ~ps[n].disconnected) /\ ~CanStartGame(ps)

\* Where the loops over the players are
LoopInv ==
    /\ loop \in {"none", "start", "turn"}
    /\ todo \subseteq DOMAIN players
    /\ loop = "none" <=> todo = {}
    /\ loop # "none" => gameStarted /\ todo \subseteq DOMAIN playerNumberInGame
    /\ loop = "turn" => \A n \in todo : Plays(n)

GameInv ==
    /\ gameId \in Nat /\ gameStarted \in BOOLEAN
    /\ IsPartialMap(playerNumberInGame, Name, Nat)
    /\ eatenPixels \subseteq Board /\ alivePlayers \in Nat
    /\ undefined \in Undefined \cup {"none"} /\ running \in BOOLEAN
    /\ Owned(Connections)
    /\ LoopInv
    /\ AliveCounted
    /\ WormsAreNumbered
    /\ ~gameStarted => Idle(players)

\* Who has a queue, in terms of one client
LEMMA OwnedMeans ==
  ASSUME NEW s
  PROVE  Owned(s) <=>
           /\ IsPartialMap(s.watchers, Fingerprint, Session)
           /\ IsPartialMap(s.players, Name, Player)
           /\ Managed(s.mq)
           /\ \A f \in Registered(s.mq) :
                f \in DOMAIN s.watchers \/ \E n \in DOMAIN s.players : s.players[n].fingerprint = f
           /\ \A f \in DOMAIN s.watchers : f \in Registered(s.mq)
           /\ \A n \in DOMAIN s.players :
                s.players[n].disconnected => s.players[n].fingerprint \notin DOMAIN s.watchers
BY DEF Owned

IsState(s) == s = [watchers |-> s.watchers, players |-> s.players, mq |-> s.mq]

\* The players with the first one of the socket marked
Marked(ps, f) ==
    IF NamesOf(ps, f) = {} THEN ps ELSE [ps EXCEPT ![Min(NamesOf(ps, f))].disconnected = TRUE]

\* The cases of dropConnection
LEMMA DropConnectionIs ==
  ASSUME NEW s, IsState(s), NEW f, NEW t, t = DropConnection(s, f)
  PROVE  /\ IsState(t)
         /\ \/ /\ f \in DOMAIN s.watchers
               /\ t.watchers = Without(s.watchers, {f}) /\ t.players = s.players
               /\ t.mq = DropQueue(s.mq, f)
            \/ /\ f \notin DOMAIN s.watchers /\ gameStarted
               /\ t.watchers = s.watchers /\ t.players = Marked(s.players, f)
               /\ t.mq = DropQueue(s.mq, f)
            \/ /\ f \notin DOMAIN s.watchers /\ ~gameStarted
               /\ t.watchers = s.watchers /\ t.players = Remaining(Marked(s.players, f))
               /\ t.mq = DropQueues(DropQueue(s.mq, f), Gone(Marked(s.players, f)))
<1> DEFINE w == s.watchers  ps == s.players  m == s.mq
           marked == Marked(ps, f)
<1>1. s = [watchers |-> w, players |-> ps, mq |-> m]
  BY DEF IsState
<1>2. \/ f \in DOMAIN w /\ t = [s EXCEPT !.mq = DropQueue(m, f), !.watchers = Without(w, {f})]
      \/ /\ f \notin DOMAIN w /\ gameStarted
         /\ t = [s EXCEPT !.mq = DropQueue(m, f), !.players = marked]
      \/ /\ f \notin DOMAIN w /\ ~gameStarted
         /\ t = [s EXCEPT !.mq = DropQueues(DropQueue(m, f), Gone(marked)), !.players = Remaining(marked)]
  <2> DEFINE q == DropQueue(m, f)
  <2> HIDE DEF w, ps, m, q
  <2>1. [s EXCEPT !.mq = q, !.watchers = Without(@, {f})]
          = [s EXCEPT !.mq = q, !.watchers = Without(w, {f})]
    BY ONLY <1>1
  <2> QED BY <2>1 DEF DropConnection, Marked, w, ps, m, q
<1> HIDE DEF w, ps, m, marked
<1>3. \/ f \in DOMAIN w /\ t = [watchers |-> Without(w, {f}), players |-> ps, mq |-> DropQueue(m, f)]
      \/ /\ f \notin DOMAIN w /\ gameStarted
         /\ t = [watchers |-> w, players |-> marked, mq |-> DropQueue(m, f)]
      \/ /\ f \notin DOMAIN w /\ ~gameStarted
         /\ t = [watchers |-> w, players |-> Remaining(marked),
                 mq |-> DropQueues(DropQueue(m, f), Gone(marked))]
  BY <1>1, <1>2
<1> QED BY <1>3 DEF IsState, w, ps, m, marked

\* Marking changes nothing else.
LEMMA MarkedPlayers ==
  ASSUME NEW ps, IsPartialMap(ps, Name, Player), NEW f, NEW qs, qs = Marked(ps, f)
  PROVE  /\ IsPartialMap(qs, Name, Player) /\ DOMAIN qs = DOMAIN ps
         /\ \A n \in DOMAIN ps :
              /\ qs[n].fingerprint = ps[n].fingerprint
              /\ qs[n].takesPart = ps[n].takesPart /\ qs[n].eliminated = ps[n].eliminated
              /\ qs[n].disconnected => ps[n].disconnected \/ ps[n].fingerprint = f
<1> DEFINE D == DOMAIN ps  k == Min(NamesOf(ps, f))
<1>1. ps \in [D -> Player]
  BY DEF IsPartialMap
<1>2. CASE NamesOf(ps, f) = {}
  <2>1. qs = ps
    BY <1>2 DEF Marked
  <2> QED BY <2>1
<1>3. CASE NamesOf(ps, f) # {}
  <2>1. NamesOf(ps, f) \in SUBSET Nat
    BY NamesAssumption DEF NamesOf, IsPartialMap
  <2>2. k \in D /\ ps[k].fingerprint = f
    BY <1>3, <2>1, LeastOfNaturals DEF NamesOf
  <2>3. qs = [ps EXCEPT ![k] = [ps[k] EXCEPT !.disconnected = TRUE]]
    BY <1>3 DEF Marked
  <2> DEFINE r == [ps[k] EXCEPT !.disconnected = TRUE]
  <2>4. ps[k] \in Player
    BY <1>1, <2>2
  <2>5. /\ r \in Player
        /\ r.fingerprint = ps[k].fingerprint
        /\ r.takesPart = ps[k].takesPart /\ r.eliminated = ps[k].eliminated
    BY <2>4 DEF Player
  <2> HIDE DEF r, k
  <2>6. qs \in [D -> Player] /\ \A n \in D : qs[n] = IF n = k THEN r ELSE ps[n]
    BY <1>1, <2>3, <2>5 DEF r
  <2> QED BY <1>1, <2>2, <2>5, <2>6 DEF IsPartialMap
<1> QED BY <1>2, <1>3

\* Those who remain are connected and not ready.
LEMMA RemainingPlayers ==
  ASSUME NEW ps, IsPartialMap(ps, Name, Player), NEW qs, qs = Remaining(ps)
  PROVE  /\ IsPartialMap(qs, Name, Player)
         /\ \A n : n \in DOMAIN qs <=> n \in DOMAIN ps /\ ~ps[n].disconnected
         /\ \A n \in DOMAIN qs : qs[n].fingerprint = ps[n].fingerprint
         /\ Idle(qs)
<1> DEFINE D == DOMAIN ps  E == {n \in D : ~ps[n].disconnected}
<1>1. ps \in [D -> Player] /\ D \subseteq Name
  BY DEF IsPartialMap
<1>2. qs = [n \in E |-> [ps[n] EXCEPT !.ready = FALSE]]
  BY DEF Remaining
<1>3. \A n \in E : /\ [ps[n] EXCEPT !.ready = FALSE] \in Player
                   /\ [ps[n] EXCEPT !.ready = FALSE].ready = FALSE
                   /\ [ps[n] EXCEPT !.ready = FALSE].fingerprint = ps[n].fingerprint
                   /\ [ps[n] EXCEPT !.ready = FALSE].disconnected = ps[n].disconnected
  <2> TAKE n \in E
  <2>1. ps[n] \in Player
    BY <1>1
  <2> QED BY <2>1 DEF Player
<1> HIDE DEF E
<1>4. /\ DOMAIN qs = E /\ qs \in [E -> Player]
      /\ \A n \in E : /\ qs[n].ready = FALSE /\ qs[n].fingerprint = ps[n].fingerprint
                      /\ qs[n].disconnected = ps[n].disconnected
  BY <1>2, <1>3
<1>5. \A n : n \in E <=> n \in D /\ ~ps[n].disconnected
  BY DEF E
<1>6. Idle(qs)
  <2>1. ~CanStartGame(qs)
    <3> SUFFICES ASSUME CanStartGame(qs) PROVE FALSE
      OBVIOUS
    <3>1. E # {}
      BY <1>4, FS_EmptySet DEF CanStartGame
    <3> QED BY <1>4, <3>1 DEF CanStartGame
  <2> QED BY <1>4, <1>5, <2>1 DEF Idle
<1> QED BY <1>1, <1>4, <1>5, <1>6 DEF IsPartialMap

\* The sockets whose queues go
LEMMA GoneIsFinite ==
  ASSUME NEW ps, IsPartialMap(ps, Name, Player)
  PROVE  IsFiniteSet(Gone(ps))
<1> DEFINE E == {n \in DOMAIN ps : ps[n].disconnected}
           socket == [n \in E |-> ps[n].fingerprint]
<1>1. E \in SUBSET Name
  BY DEF IsPartialMap
<1>2. IsFiniteSet(E)
  BY <1>1, FS_Subset, NamesAssumption
<1>3. socket \in Surjection(E, Gone(ps))
  BY DEF Surjection, Gone
<1> HIDE DEF E, socket
<1> QED BY <1>2, <1>3, FS_Surjection

\* Marked players are still not watchers, if the socket is none.
LEMMA MarkedOwned ==
  ASSUME NEW s, Owned(s), NEW f, f \notin DOMAIN s.watchers, NEW ps, ps = Marked(s.players, f)
  PROVE  \A n \in DOMAIN ps : ps[n].disconnected => ps[n].fingerprint \notin DOMAIN s.watchers
BY MarkedPlayers, OwnedMeans

SameWorms(ps, qs) ==
    /\ DOMAIN qs = DOMAIN ps
    /\ \A n \in DOMAIN ps : qs[n].takesPart = ps[n].takesPart /\ qs[n].eliminated = ps[n].eliminated

\* t is s after some connections were dropped.
Kept(s, t) ==
    /\ IsState(t) /\ Owned(t)
    /\ DOMAIN t.players \subseteq DOMAIN s.players
    /\ Registered(t.mq) \subseteq Registered(s.mq) /\ SameLog(s.mq, t.mq)
    /\ gameStarted => SameWorms(s.players, t.players)
    /\ ~gameStarted /\ Idle(s.players) => Idle(t.players)

\* eraseDisconnectedPlayers
LEMMA EraseDisconnected ==
  ASSUME NEW s, Owned(s),
         NEW t, t.watchers = s.watchers, t.players = Remaining(s.players),
         t.mq = DropQueues(s.mq, Gone(s.players))
  PROVE  /\ Owned(t) /\ Idle(t.players)
         /\ DOMAIN t.players \subseteq DOMAIN s.players /\ Registered(t.mq) \subseteq Registered(s.mq)
         /\ SameLog(s.mq, t.mq)
<1> DEFINE ps == s.players
<1>1. /\ IsPartialMap(s.watchers, Fingerprint, Session)
      /\ IsPartialMap(ps, Name, Player)
      /\ Managed(s.mq)
      /\ \A g \in Registered(s.mq) :
           g \in DOMAIN s.watchers \/ \E n \in DOMAIN ps : ps[n].fingerprint = g
      /\ \A g \in DOMAIN s.watchers : g \in Registered(s.mq)
      /\ \A n \in DOMAIN ps : ps[n].disconnected => ps[n].fingerprint \notin DOMAIN s.watchers
  BY OwnedMeans
<1>2. Managed(t.mq) /\ Registered(t.mq) = Registered(s.mq) \ Gone(ps) /\ SameLog(s.mq, t.mq)
  BY <1>1, GoneIsFinite, DropQueuesManaged
<1>3. \A g : g \in Gone(ps) <=> \E n \in DOMAIN ps : ps[n].disconnected /\ ps[n].fingerprint = g
  BY DEF Gone
<1>4. /\ IsPartialMap(t.players, Name, Player)
      /\ \A n : n \in DOMAIN t.players <=> n \in DOMAIN ps /\ ~ps[n].disconnected
      /\ \A n \in DOMAIN t.players : t.players[n].fingerprint = ps[n].fingerprint
      /\ Idle(t.players)
  BY <1>1, RemainingPlayers
<1> HIDE DEF ps
<1>5. \A g \in Registered(t.mq) :
        g \in DOMAIN t.watchers \/ \E n \in DOMAIN t.players : t.players[n].fingerprint = g
  BY <1>1, <1>2, <1>3, <1>4
<1>6. \A g \in DOMAIN t.watchers : g \in Registered(t.mq)
  BY <1>1, <1>2, <1>3
<1>7. \A n \in DOMAIN t.players : ~t.players[n].disconnected
  BY <1>4 DEF Idle
<1>8. Owned(t)
  BY <1>1, <1>2, <1>4, <1>5, <1>6, <1>7, OwnedMeans
<1> QED BY <1>2, <1>4, <1>8 DEF ps

\* dropConnection keeps the queues owned and leaves none to the socket.
LEMMA DropConnectionKeeps ==
  ASSUME NEW s, IsState(s), Owned(s), NEW f, NEW t, t = DropConnection(s, f)
  PROVE  Kept(s, t) /\ f \notin Registered(t.mq)
<1> DEFINE ps == Marked(s.players, f)  q == DropQueue(s.mq, f)
<1>1. /\ IsPartialMap(s.watchers, Fingerprint, Session)
      /\ IsPartialMap(s.players, Name, Player)
      /\ Managed(s.mq)
      /\ \A g \in Registered(s.mq) :
           g \in DOMAIN s.watchers \/ \E n \in DOMAIN s.players : s.players[n].fingerprint = g
      /\ \A g \in DOMAIN s.watchers : g \in Registered(s.mq)
      /\ \A n \in DOMAIN s.players :
           s.players[n].disconnected => s.players[n].fingerprint \notin DOMAIN s.watchers
  BY OwnedMeans
<1>2. Managed(q) /\ Registered(q) = Registered(s.mq) \ {f} /\ SameLog(s.mq, q)
  BY <1>1, DropQueueManaged, QueuesApart
<1>3. /\ IsPartialMap(ps, Name, Player) /\ DOMAIN ps = DOMAIN s.players
      /\ \A n \in DOMAIN s.players :
           /\ ps[n].fingerprint = s.players[n].fingerprint
           /\ ps[n].takesPart = s.players[n].takesPart /\ ps[n].eliminated = s.players[n].eliminated
  BY <1>1, MarkedPlayers
<1>4. IsState(t)
  BY DropConnectionIs
<1> HIDE DEF ps, q
<1>5. CASE /\ f \in DOMAIN s.watchers
           /\ t.watchers = Without(s.watchers, {f}) /\ t.players = s.players
           /\ t.mq = q
  <2>1. IsPartialMap(t.watchers, Fingerprint, Session) /\ DOMAIN t.watchers = DOMAIN s.watchers \ {f}
    BY <1>1, <1>5 DEF Without, IsPartialMap
  <2>2. Owned(t)
    BY <1>1, <1>2, <1>5, <2>1, OwnedMeans
  <2> QED BY <1>2, <1>4, <1>5, <2>2 DEF Kept, SameWorms
<1>6. CASE /\ f \notin DOMAIN s.watchers /\ gameStarted
           /\ t.watchers = s.watchers /\ t.players = ps
           /\ t.mq = q
  <2>1. \A n \in DOMAIN ps : ps[n].disconnected => ps[n].fingerprint \notin DOMAIN s.watchers
    BY <1>6, MarkedOwned DEF ps
  <2>2. Owned(t)
    BY <1>1, <1>2, <1>3, <1>6, <2>1, OwnedMeans
  <2> QED BY <1>2, <1>3, <1>4, <1>6, <2>2 DEF Kept, SameWorms
<1>7. CASE /\ f \notin DOMAIN s.watchers /\ ~gameStarted
           /\ t.watchers = s.watchers /\ t.players = Remaining(ps)
           /\ t.mq = DropQueues(q, Gone(ps))
  <2>1. \A n \in DOMAIN ps : ps[n].disconnected => ps[n].fingerprint \notin DOMAIN s.watchers
    BY <1>7, MarkedOwned DEF ps
  <2> DEFINE u == [watchers |-> s.watchers, players |-> ps, mq |-> q]
  <2>2. u.watchers = s.watchers /\ u.players = ps /\ u.mq = q
    OBVIOUS
  <2> HIDE DEF u
  <2>3. Owned(u)
    BY <1>1, <1>2, <1>3, <1>7, <2>1, <2>2, OwnedMeans
  <2>4. /\ Owned(t) /\ Idle(t.players)
        /\ DOMAIN t.players \subseteq DOMAIN ps /\ Registered(t.mq) \subseteq Registered(q)
        /\ SameLog(q, t.mq)
    BY <1>7, <2>2, <2>3, EraseDisconnected
  <2> QED BY <1>2, <1>3, <1>4, <1>7, <2>4 DEF Kept, SameLog
<1> QED BY <1>5, <1>6, <1>7, DropConnectionIs DEF ps, q

\* Dropping connections after dropping connections, and dropping none
LEMMA KeptAgain ==
  ASSUME NEW s, NEW t, NEW u, Kept(s, t), Kept(t, u)
  PROVE  Kept(s, u)
BY DEF Kept, SameWorms, SameLog

LEMMA KeptAtFirst ==
  ASSUME NEW s, IsState(s), Owned(s)
  PROVE  Kept(s, s)
BY DEF Kept, SameWorms, SameLog

\* dropConnection over and over again
DroppedTimes(it, s, f, k) ==
    it = [i \in 0 .. k |-> IF i = 0 THEN s ELSE DropConnection(it[i - 1], f)]

LEMMA DropConnectionsExists ==
  ASSUME NEW s, NEW f, NEW k \in Nat
  PROVE  \E it : DroppedTimes(it, s, f, k)
<1> DEFINE Bad == {n \in Nat : ~\E it : DroppedTimes(it, s, f, n)}
<1> SUFFICES ASSUME Bad # {} PROVE FALSE
  OBVIOUS
<1> DEFINE b == Min(Bad)
<1>1. b \in Bad /\ \A n \in Bad : b <= n
  BY LeastOfNaturals
<1> HIDE DEF b
<1>2. b \in Nat /\ ~\E it : DroppedTimes(it, s, f, b)
  BY <1>1
<1>3. CASE b = 0
  <2> DEFINE it == [i \in 0 .. 0 |-> s]
  <2>1. DroppedTimes(it, s, f, 0)
    BY DEF DroppedTimes
  <2> QED BY <1>2, <1>3, <2>1
<1>4. CASE b # 0
  <2>1. b - 1 \in Nat /\ b - 1 \notin Bad
    BY <1>1, <1>2, <1>4
  <2>2. PICK it : DroppedTimes(it, s, f, b - 1)
    BY <2>1
  <2> DEFINE next == [i \in 0 .. b |-> IF i = 0 THEN s ELSE DropConnection(it[i - 1], f)]
  <2>3. \A i \in 0 .. b - 1 : it[i] = IF i = 0 THEN s ELSE DropConnection(it[i - 1], f)
    BY <2>2 DEF DroppedTimes
  <2>4. \A i \in 0 .. b - 1 : next[i] = it[i]
    <3>1. \A i \in 0 .. b - 1 : i \in 0 .. b
      BY <1>2
    <3>2. \A i \in 0 .. b : next[i] = IF i = 0 THEN s ELSE DropConnection(it[i - 1], f)
      OBVIOUS
    <3> HIDE DEF next
    <3> QED BY <2>3, <3>1, <3>2
  <2>5. \A i \in 0 .. b : (IF i = 0 THEN s ELSE DropConnection(it[i - 1], f))
                          = IF i = 0 THEN s ELSE DropConnection(next[i - 1], f)
    <3>1. \A i \in 0 .. b : i # 0 => i - 1 \in 0 .. b - 1
      BY <1>2
    <3> HIDE DEF next
    <3> QED BY <2>4, <3>1
  <2>6. next = [i \in 0 .. b |-> IF i = 0 THEN s ELSE DropConnection(next[i - 1], f)]
    BY <2>5
  <2> HIDE DEF next
  <2>7. DroppedTimes(next, s, f, b)
    BY <2>6 DEF DroppedTimes
  <2> QED BY <1>2, <2>7
<1> QED BY <1>3, <1>4

LEMMA DropConnectionsKeep ==
  ASSUME NEW s, IsState(s), Owned(s), NEW f, NEW k \in Nat
  PROVE  Kept(s, DropConnections(s, f, k))
<1> DEFINE it == CHOOSE x : DroppedTimes(x, s, f, k)
           Bad == {n \in 0 .. k : ~Kept(s, it[n])}
<1>1. DropConnections(s, f, k) = it[k]
  BY Zenon DEF DropConnections, DroppedTimes
<1>2. DroppedTimes(it, s, f, k)
  BY DropConnectionsExists, Zenon
<1> HIDE DEF it
<1>3. \A i \in 0 .. k : it[i] = IF i = 0 THEN s ELSE DropConnection(it[i - 1], f)
  BY <1>2 DEF DroppedTimes
<1> SUFFICES ASSUME Bad # {} PROVE FALSE
  BY <1>1
<1> DEFINE b == Min(Bad)
<1>4. b \in Bad /\ \A n \in Bad : b <= n
  BY LeastOfNaturals
<1> HIDE DEF b
<1>5. b \in 0 .. k /\ ~Kept(s, it[b])
  BY <1>4
<1>6. b # 0
  BY <1>3, <1>5, KeptAtFirst
<1>7. b - 1 \in 0 .. k /\ b - 1 \notin Bad
  BY <1>4, <1>5, <1>6
<1>8. Kept(s, it[b - 1]) /\ it[b] = DropConnection(it[b - 1], f)
  BY <1>3, <1>5, <1>6, <1>7
<1>9. Kept(it[b - 1], it[b])
  BY <1>8, DropConnectionKeeps DEF Kept
<1> QED BY <1>5, <1>8, <1>9, KeptAgain

-----------------------------------------------------------------------------
(* The events and the numbers of the players *)

\* The emit functions' events
LEMMA EventTypes ==
  /\ \A n \in Nat, p \in Board : Pixel(n, p) \in EventData
  /\ \A n \in Nat : PlayerEliminated(n) \in EventData
  /\ GameOver \in EventData
  /\ \A s \in Seq(Name) : NewGame(s) \in EventData
<1>1. ASSUME NEW n \in Nat, NEW p \in Board PROVE Pixel(n, p) \in EventData
  BY DEF Pixel, EventData
<1>2. ASSUME NEW n \in Nat PROVE PlayerEliminated(n) \in EventData
  BY DEF PlayerEliminated, EventData
<1>3. GameOver \in EventData
  BY DEF GameOver, EventData
<1>4. ASSUME NEW s \in Seq(Name) PROVE NewGame(s) \in EventData
  BY DEF NewGame, EventData
<1> QED BY <1>1, <1>2, <1>3, <1>4

\* The players are numbered from 0 on without a gap, so that the n-th is the n-th name.
LEMMA NumbersInOrder ==
  ASSUME NEW S \in SUBSET Nat, IsFiniteSet(S)
  PROVE  /\ \A n \in S : Number(n, S) \in Nat
         /\ \A n, k \in S : Number(n, S) = Number(k, S) => n = k
         /\ InOrder(S) \in Seq(S) /\ Len(InOrder(S)) = Cardinality(S)
<1> DEFINE Below(n) == {k \in S : k < n}  c == Cardinality(S)
           number == [n \in S |-> Number(n, S)]
<1>1. \A n \in S : IsFiniteSet(Below(n)) /\ Cardinality(Below(n)) \in Nat
  BY FS_Subset, FS_CardinalityType
<1>2. c \in Nat
  BY FS_CardinalityType
<1>3. ASSUME NEW n \in S, NEW T \in SUBSET S, n \in T, Below(n) \subseteq T
      PROVE  Cardinality(Below(n)) < Cardinality(T)
  <2>1. IsFiniteSet(T) /\ Cardinality(T) \in Nat
    BY FS_Subset, FS_CardinalityType
  <2>2. Below(n) \in SUBSET (T \ {n})
    BY <1>3
  <2>3. IsFiniteSet(T \ {n}) /\ Cardinality(T \ {n}) = Cardinality(T) - 1
    BY <1>3, <2>1, FS_RemoveElement
  <2> HIDE DEF Below
  <2>4. Cardinality(Below(n)) <= Cardinality(T \ {n})
    BY <2>2, <2>3, FS_Subset
  <2> QED BY <1>1, <2>1, <2>3, <2>4
<1>4. \A n \in S : Number(n, S) = Cardinality(Below(n))
  BY DEF Number
<1>5. ASSUME NEW n \in S PROVE Number(n, S) \in 0 .. c - 1
  <2>1. Cardinality(Below(n)) < c
    BY <1>3
  <2> HIDE DEF Below, c
  <2> QED BY <1>1, <1>2, <1>4, <2>1
<1>6. ASSUME NEW n \in S, NEW k \in S, n < k PROVE Number(n, S) # Number(k, S)
  <2>1. \A j \in S : j < n => j < k
    BY <1>6
  <2>2. n \in Below(k) /\ Below(n) \subseteq Below(k) /\ Below(k) \in SUBSET S
    BY <1>6, <2>1
  <2>3. Cardinality(Below(n)) < Cardinality(Below(k))
    BY <1>3, <2>2
  <2> HIDE DEF Below
  <2> QED BY <1>1, <1>4, <2>3
<1>7. number \in Injection(S, 0 .. c - 1)
  <2>1. number \in [S -> 0 .. c - 1]
    BY <1>5
  <2>2. ASSUME NEW n \in S, NEW k \in S, number[n] = number[k] PROVE n = k
    <3>1. n < k \/ k < n \/ n = k
      OBVIOUS
    <3> QED BY <1>6, <2>2, <3>1
  <2> HIDE DEF number, c
  <2> QED BY <2>1, <2>2 DEF Injection, IsInjective
<1>8. number \in Surjection(S, 0 .. c - 1)
  <2>1. IsFiniteSet(0 .. c - 1) /\ Cardinality(0 .. c - 1) = c
    <3>1. /\ IsFiniteSet(0 .. c - 1)
          /\ Cardinality(0 .. c - 1) = IF 0 > c - 1 THEN 0 ELSE c - 1 - 0 + 1
      BY <1>2, FS_Interval
    <3> HIDE DEF c
    <3> QED BY <1>2, <3>1
  <2> HIDE DEF number
  <2> QED BY <1>7, <2>1, FS_Injection
<1>9. ASSUME NEW i \in 1 .. c PROVE (CHOOSE n \in S : Number(n, S) = i - 1) \in S
  <2>1. i - 1 \in 0 .. c - 1
    BY <1>2
  <2>2. \E n \in S : number[n] = i - 1
    <3> HIDE DEF number, c
    <3> QED BY <1>8, <2>1 DEF Surjection
  <2> QED BY <2>2
<1> DEFINE s == InOrder(S)
<1>10. s = [i \in 1 .. c |-> s[i]] /\ \A i \in 1 .. c : s[i] \in S
  BY <1>9 DEF InOrder
<1> HIDE DEF s, c
<1>11. s \in Seq(S) /\ Len(s) = c
  BY ONLY <1>2, <1>10
<1>12. ASSUME NEW n \in S, NEW k \in S, Number(n, S) = Number(k, S) PROVE n = k
  <2>1. n < k \/ k < n \/ n = k
    OBVIOUS
  <2> QED BY <1>6, <1>12, <2>1
<1> QED BY <1>5, <1>11, <1>12 DEF s, c

-----------------------------------------------------------------------------
(* The steps *)

Fate == undefined' \in Undefined \cup {"none"} /\ running' \in BOOLEAN

\* The players of a game go on when those who join do not take part.
GoesOn(ps, qs) ==
    /\ DOMAIN ps \subseteq DOMAIN qs
    /\ \A n \in DOMAIN ps : qs[n].takesPart = ps[n].takesPart /\ qs[n].eliminated = ps[n].eliminated
    /\ \A n \in DOMAIN qs \ DOMAIN ps : ~qs[n].takesPart

\* What a step does to the events and to the worms.  Nothing, whatever clients do: ...
Unmoved == UNCHANGED gameVars /\ (gameStarted => Alive' = Alive)

Quiet == Unmoved /\ SameLog(mq, mq')

\* ... or a game begins, with an identifier of its own and everybody alive, ...
Begins ==
    /\ ~gameStarted /\ gameStarted' /\ gameId' = gameId + 1 /\ eatenPixels' = {}
    /\ \E names \in SUBSET Name :
         /\ playerNumberInGame' = [n \in names |-> Number(n, names)]
         /\ Alive' = names
         /\ SameLog(Schedule(mq, gameId', NewGame(InOrder(names))), mq')

\* ... a worm takes a free pixel, ...
Takes(n, pixel) ==
    /\ n \in Alive /\ pixel \in Board \ eatenPixels
    /\ eatenPixels' = eatenPixels \cup {pixel} /\ Alive' = Alive
    /\ gameStarted /\ UNCHANGED <<gameId, gameStarted, playerNumberInGame>>
    /\ SameLog(Schedule(mq, gameId, Pixel(playerNumberInGame[n], pixel)), mq')

\* ... a worm dies, ...
Dies(n) ==
    /\ n \in Alive /\ Alive' = Alive \ {n}
    /\ gameStarted /\ UNCHANGED <<gameId, gameStarted, playerNumberInGame, eatenPixels>>
    /\ SameLog(Schedule(mq, gameId, PlayerEliminated(playerNumberInGame[n])), mq')

\* ... or it is the last but one, and the game ends.
Ends(n) ==
    /\ n \in Alive /\ Cardinality(Alive) = 2
    /\ gameStarted /\ ~gameStarted' /\ UNCHANGED <<gameId, playerNumberInGame, eatenPixels>>
    /\ SameLog(Schedule(Schedule(mq, gameId, PlayerEliminated(playerNumberInGame[n])), gameId, GameOver),
               mq')

Story == Quiet \/ Begins \/ \E n : (\E pixel : Takes(n, pixel)) \/ Dies(n) \/ Ends(n)

\* The connections after they became state
LEMMA StateIs ==
  ASSUME NEW state, IsState(state), Become(state)
  PROVE  Connections' = state
<1>1. Connections' = [watchers |-> watchers', players |-> players', mq |-> mq']
  BY DEF Connections
<1>2. watchers' = state.watchers /\ players' = state.players /\ mq' = state.mq
  BY DEF Become
<1> QED BY <1>1, <1>2 DEF IsState

\* Who is alive, and that they can be counted
LEMMA AliveAre ==
  \A n : n \in Alive <=> (loop = "start" /\ n \in todo) \/ (n \in DOMAIN players /\ Plays(n))
BY DEF Alive, ToBePlaced

LEMMA AliveAreFew ==
  ASSUME GameInv
  PROVE  IsFiniteSet(Alive) /\ Cardinality(Alive) \in Nat
<1>1. DOMAIN players \subseteq Name /\ todo \subseteq DOMAIN players
  BY DEF GameInv, LoopInv, Owned, Connections, IsPartialMap
<1>2. Alive \in SUBSET Name
  BY <1>1 DEF Alive, ToBePlaced
<1> QED BY <1>2, NamesAssumption, FS_Subset, FS_CardinalityType

\* What GameInv says of the connections
LEMMA NowOwned ==
  ASSUME GameInv
  PROVE  /\ IsPartialMap(watchers, Fingerprint, Session) /\ IsPartialMap(players, Name, Player)
         /\ Managed(mq) /\ DOMAIN watchers \subseteq Registered(mq)
BY DEF GameInv, Owned, Connections

\* Connections come and go, and the loop over the players may begin.
LEMMA ConnectionsChange ==
  ASSUME GameInv, loop = "none",
         NEW state, IsState(state), Owned(state), Become(state),
         gameStarted => GoesOn(players, state.players),
         ~gameStarted => Idle(state.players),
         UNCHANGED gameVars,
         \/ UNCHANGED <<loop, todo>>
         \/ gameStarted /\ loop' = "turn" /\ todo' = {n \in DOMAIN players : Plays(n)},
         Fate
  PROVE  GameInv' /\ Unmoved
<1>1. Owned(Connections)'
  <2>1. Owned(Connections')
    BY StateIs
  <2> QED BY <2>1
<1>2. players' = state.players
  BY DEF Become
<1>3. gameStarted \in BOOLEAN /\ todo = {} /\ UNCHANGED gameVars
  BY DEF GameInv, LoopInv
<1>4. CASE gameStarted
  <2>1. /\ DOMAIN players \subseteq DOMAIN players'
        /\ \A n \in DOMAIN players : players'[n].takesPart = players[n].takesPart
                                   /\ players'[n].eliminated = players[n].eliminated
        /\ \A n \in DOMAIN players' \ DOMAIN players : ~players'[n].takesPart
    BY <1>2, <1>4 DEF GoesOn
  <2>2. Alive' = Alive /\ Alive = {n \in DOMAIN players : Plays(n)}
    BY <1>3, <2>1 DEF Alive, ToBePlaced, Plays
  <2>3. AliveCounted /\ WormsAreNumbered
    BY DEF GameInv
  <2>4. AliveCounted'
    BY <1>3, <2>2, <2>3 DEF AliveCounted, gameVars
  <2>5. WormsAreNumbered'
    BY <1>3, <1>4, <2>1, <2>3 DEF WormsAreNumbered, gameVars
  <2>6. LoopInv'
    <3>1. CASE UNCHANGED <<loop, todo>>
      BY <1>3, <3>1 DEF LoopInv
    <3>2. CASE loop' = "turn" /\ todo' = {n \in DOMAIN players : Plays(n)}
      <4>1. Alive # {}
        BY <1>4, <2>3, FS_EmptySet DEF AliveCounted, GameInv
      <4>2. \A n \in Alive : /\ n \in DOMAIN players' /\ Plays(n)'
                            /\ n \in DOMAIN playerNumberInGame
        BY <1>4, <2>1, <2>2, <2>3 DEF Plays, WormsAreNumbered
      <4> QED BY <1>3, <1>4, <2>2, <3>2, <4>1, <4>2 DEF LoopInv, gameVars
    <3> QED BY <3>1, <3>2
  <2> QED BY <1>1, <1>3, <1>4, <2>2, <2>4, <2>5, <2>6 DEF GameInv, Fate, gameVars, Unmoved
<1>5. CASE ~gameStarted
  <2>1. Idle(players')
    BY <1>2, <1>5
  <2>2. LoopInv'
    BY <1>3, <1>5 DEF LoopInv
  <2>3. AliveCounted' /\ WormsAreNumbered'
    BY <1>3, <1>5, <2>1 DEF AliveCounted, WormsAreNumbered, Idle, gameVars
  <2> QED BY <1>1, <1>3, <1>5, <2>1, <2>2, <2>3 DEF GameInv, Fate, gameVars, Unmoved
<1> QED BY <1>3, <1>4, <1>5

\* A game starts: everybody is numbered, alive and to be placed.
LEMMA GameStarts ==
  ASSUME GameInv, ~gameStarted,
         NEW state, IsState(state), Owned(state), CanStartGame(state.players), StartGame(state),
         SameLog(mq, state.mq), Fate
  PROVE  GameInv' /\ Begins /\ Registered(mq') = Registered(state.mq)
<1> DEFINE names == DOMAIN state.players
           opened == Schedule(state.mq, gameId + 1, NewGame(InOrder(names)))
           next == [state EXCEPT !.mq = opened]
<1>1. names \subseteq Name /\ state.players \in [names -> Player]
  BY DEF Owned, IsPartialMap
<1>2. names \in SUBSET Nat /\ IsFiniteSet(names)
  BY <1>1, NamesAssumption, FS_Subset
<1>3. Cardinality(names) \in Nat /\ Cardinality(names) >= 2
  <2>1. Cardinality(names) \in Nat /\ Cardinality(names) > 1
    BY <1>2, FS_CardinalityType DEF CanStartGame
  <2> HIDE DEF names
  <2> QED BY <2>1
<1>4. (\A n \in names : Number(n, names) \in Nat) /\ InOrder(names) \in Seq(names)
  BY <1>2, NumbersInOrder
<1>5. NewGame(InOrder(names)) \in EventData
  <2> HIDE DEF names
  <2>1. InOrder(names) \in Seq(Name)
    BY <1>1, <1>4
  <2> QED BY <2>1, EventTypes
<1>6. gameId + 1 \in Nat /\ gameId \in Nat
  BY DEF GameInv
<1>7. Managed(opened) /\ Registered(opened) = Registered(state.mq)
  BY <1>5, <1>6, ScheduleManaged DEF Owned
<1>8. /\ gameId' = gameId + 1 /\ gameStarted' = TRUE /\ alivePlayers' = Cardinality(names)
      /\ eatenPixels' = {} /\ playerNumberInGame' = [n \in names |-> Number(n, names)]
      /\ Become(next) /\ loop' = "start" /\ todo' = names
  BY DEF StartGame
<1> HIDE DEF names, opened
<1>9. /\ IsState(next) /\ next.watchers = state.watchers /\ next.players = state.players
      /\ next.mq = opened
  BY DEF IsState
<1> HIDE DEF next
<1>10. Owned(next)
  BY <1>7, <1>9, OwnedMeans
<1>11. Owned(Connections)'
  BY <1>8, <1>9, <1>10, StateIs
<1>12. players' = state.players /\ DOMAIN players' = names
  BY <1>8, <1>9 DEF Become, names
<1>13. names # {}
  BY <1>3, FS_EmptySet
<1>14. LoopInv'
  BY <1>8, <1>12, <1>13 DEF LoopInv
<1>15. Alive' = names
  BY <1>8, <1>12 DEF Alive, ToBePlaced
<1>16. AliveCounted'
  BY <1>3, <1>8, <1>15 DEF AliveCounted
<1>17. WormsAreNumbered'
  BY <1>8, <1>12 DEF WormsAreNumbered
<1>18. IsPartialMap(playerNumberInGame, Name, Nat)'
  BY <1>1, <1>4, <1>8 DEF IsPartialMap, names
<1>19. Registered(mq') = Registered(state.mq)
  BY <1>7, <1>8, <1>9 DEF Become
<1>20. GameInv'
  BY <1>3, <1>6, <1>8, <1>11, <1>14, <1>16, <1>17, <1>18 DEF GameInv, Fate
<1>21. SameLog(Schedule(mq, gameId', NewGame(InOrder(names))), mq')
  <2>1. Managed(mq) /\ Managed(state.mq)
    BY NowOwned DEF Owned
  <2>2. SameLog(Schedule(mq, gameId + 1, NewGame(InOrder(names))), opened)
    BY <1>5, <1>6, <2>1, ScheduleSame DEF opened
  <2> QED BY <1>8, <1>9, <2>2 DEF Become
<1>22. Begins
  <2>1. names \in SUBSET Name
    BY <1>1 DEF names
  <2> QED BY <1>8, <1>15, <1>21, <2>1 DEF Begins
<1> QED BY <1>19, <1>20, <1>22

\* The end of handleMessageFromPlayer
LEMMA StartsIfReady ==
  ASSUME GameInv, loop = "none",
         NEW state, IsState(state), Owned(state), StartGameIfReady(state),
         gameStarted => GoesOn(players, state.players),
         ~gameStarted => \A n \in DOMAIN state.players : ~state.players[n].disconnected,
         SameLog(mq, state.mq), Fate
  PROVE  GameInv' /\ (Quiet \/ Begins) /\ Registered(mq') = Registered(state.mq)
<1>1. CASE ~gameStarted /\ CanStartGame(state.players)
  BY <1>1, GameStarts DEF StartGameIfReady
<1>2. CASE ~(~gameStarted /\ CanStartGame(state.players))
  <2>1. Become(state) /\ UNCHANGED gameVars /\ UNCHANGED <<loop, todo>>
    BY <1>2 DEF StartGameIfReady
  <2>2. ~gameStarted => Idle(state.players)
    BY <1>2 DEF Idle
  <2> QED BY <2>1, <2>2, ConnectionsChange DEF Become, Quiet
<1> QED BY <1>1, <1>2

\* A player the loop visits, with its changes
Visited(n, ps) ==
    /\ IsPartialMap(ps, Name, Player) /\ DOMAIN ps = DOMAIN players
    /\ ps[n].takesPart
    /\ \A k \in DOMAIN players :
         /\ ps[k].fingerprint = players[k].fingerprint /\ ps[k].disconnected = players[k].disconnected
         /\ k # n => ps[k].takesPart = players[k].takesPart /\ ps[k].eliminated = players[k].eliminated

\* A visit changes no connection.
LEMMA VisitedOwned ==
  ASSUME GameInv, NEW n, NEW ps, Visited(n, ps),
         NEW q, Managed(q), Registered(q) = Registered(mq),
         NEW s, s = [watchers |-> watchers, players |-> ps, mq |-> q]
  PROVE  Owned(s)
<1>1. Owned(Connections)
  BY DEF GameInv
<1>2. s.watchers = watchers /\ s.players = ps /\ s.mq = q
  OBVIOUS
<1>3. /\ Connections.watchers = watchers /\ Connections.players = players
      /\ Connections.mq = mq
  BY DEF Connections
<1>4. /\ IsPartialMap(watchers, Fingerprint, Session)
      /\ \A f \in Registered(mq) :
           f \in DOMAIN watchers \/ \E k \in DOMAIN players : players[k].fingerprint = f
      /\ \A f \in DOMAIN watchers : f \in Registered(mq)
      /\ \A k \in DOMAIN players :
           players[k].disconnected => players[k].fingerprint \notin DOMAIN watchers
  BY <1>1, <1>3, OwnedMeans
<1> QED BY <1>2, <1>4, OwnedMeans DEF Visited

\* The loop goes on; the player it has visited is alive, or there is one less.
LEMMA LoopGoesOn ==
  ASSUME GameInv, NEW n, n \in todo, LoopOn(n),
         Visited(n, players'),
         Managed(mq'), Registered(mq') = Registered(mq),
         \/ ~players'[n].eliminated /\ alivePlayers' = alivePlayers
         \/ players'[n].eliminated /\ alivePlayers' = alivePlayers - 1 /\ ~GameEnds,
         eatenPixels' \subseteq Board,
         UNCHANGED <<gameId, gameStarted, watchers, playerNumberInGame>>,
         Fate
  PROVE  /\ GameInv' /\ n \in Alive /\ gameStarted
         /\ IF players'[n].eliminated THEN Alive' = Alive \ {n} ELSE Alive' = Alive
<1>1. /\ loop \in {"start", "turn"} /\ gameStarted
      /\ todo \subseteq DOMAIN players /\ todo \subseteq DOMAIN playerNumberInGame
      /\ loop = "turn" => \A k \in todo : Plays(k)
  BY DEF GameInv, LoopInv
<1>2. todo' = todo \ {n} /\ loop' = IF todo = {n} THEN "none" ELSE loop
  BY DEF LoopOn
<1>3. /\ DOMAIN players' = DOMAIN players /\ players'[n].takesPart
      /\ \A k \in DOMAIN players :
           k # n => /\ players'[k].takesPart = players[k].takesPart
                    /\ players'[k].eliminated = players[k].eliminated
  BY DEF Visited
<1>4. Owned(Connections)'
  <2>1. Owned(Connections')
    BY VisitedOwned DEF Connections
  <2> QED BY <2>1
<1>5. LoopInv'
  <2>1. loop' = "turn" => \A k \in todo' : Plays(k)'
    BY <1>1, <1>2, <1>3 DEF Plays
  <2> QED BY <1>1, <1>2, <1>3, <2>1 DEF LoopInv
<1>6. n \in Alive
  BY <1>1 DEF Alive, ToBePlaced
<1>7. IF players'[n].eliminated THEN Alive' = Alive \ {n} ELSE Alive' = Alive
  <2>1. \A k : k \in Alive <=> (loop = "start" /\ k \in todo) \/ (k \in DOMAIN players /\ Plays(k))
    BY AliveAre
  <2>2. \A k : k \in Alive' <=> (loop' = "start" /\ k \in todo') \/ (k \in DOMAIN players' /\ Plays(k)')
    BY DEF Alive, ToBePlaced
  <2>3. \A k : k # n => (loop' = "start" /\ k \in todo' <=> loop = "start" /\ k \in todo)
    BY <1>1, <1>2
  <2>4. \A k \in DOMAIN players : k # n => (Plays(k)' <=> Plays(k))
    BY <1>3 DEF Plays
  <2>5. \A k : k # n => (k \in Alive' <=> k \in Alive)
    BY <1>3, <2>1, <2>2, <2>3, <2>4
  <2>6. n \in Alive' <=> ~players'[n].eliminated
    BY <1>1, <1>2, <1>3, <2>2 DEF Plays
  <2> QED BY <1>6, <2>5, <2>6
<1>8. AliveCounted /\ WormsAreNumbered /\ alivePlayers \in Nat
  BY DEF GameInv
<1>9. AliveCounted' /\ alivePlayers' \in Nat
  <2>1. alivePlayers = Cardinality(Alive) /\ alivePlayers >= 2
    BY <1>1, <1>8 DEF AliveCounted
  <2>2. CASE ~players'[n].eliminated
    BY <1>7, <1>8, <2>1, <2>2 DEF AliveCounted
  <2>3. CASE players'[n].eliminated
    <3>1. Cardinality(Alive') = Cardinality(Alive) - 1
      BY <1>6, <1>7, <2>3, AliveAreFew, FS_RemoveElement
    <3> QED BY <1>8, <2>1, <2>3, <3>1 DEF AliveCounted, GameEnds
  <2> QED BY <2>2, <2>3
<1>10. WormsAreNumbered'
  <2>1. \A k \in DOMAIN players \ DOMAIN playerNumberInGame : k # n /\ ~players[k].takesPart
    BY <1>1, <1>8 DEF WormsAreNumbered
  <2> QED BY <1>1, <1>3, <1>8, <2>1 DEF WormsAreNumbered
<1>11. GameInv'
  BY <1>1, <1>4, <1>5, <1>9, <1>10 DEF GameInv, Fate
<1> QED BY <1>1, <1>6, <1>7, <1>11

\* The types of what a visit tells
LEMMA VisitTold ==
  ASSUME GameInv, NEW n, n \in todo, NEW e,
         \/ \E pixel \in Board : e = Pixel(playerNumberInGame[n], pixel)
         \/ e = PlayerEliminated(playerNumberInGame[n])
  PROVE  /\ Managed(Schedule(mq, gameId, e))
         /\ Registered(Schedule(mq, gameId, e)) = Registered(mq)
<1>1. playerNumberInGame[n] \in Nat
  BY DEF GameInv, LoopInv, IsPartialMap
<1>2. Managed(mq) /\ gameId \in Nat
  BY DEF GameInv, Owned, Connections
<1> QED BY <1>1, <1>2, EventTypes, ScheduleManaged

\* eliminatePlayer: the game goes on with one less, or it ends.
LEMMA Eliminates ==
  ASSUME GameInv, NEW n, n \in todo, NEW ps, Visited(n, ps), EliminatePlayer(n, ps),
         UNCHANGED <<gameId, watchers, playerNumberInGame>>, Fate
  PROVE  GameInv' /\ (Dies(n) \/ Ends(n)) /\ Registered(mq') \subseteq Registered(mq)
<1> DEFINE out == [ps EXCEPT ![n].eliminated = TRUE]
           q == Schedule(mq, gameId, PlayerEliminated(playerNumberInGame[n]))
<1>1. Managed(q) /\ Registered(q) = Registered(mq)
  BY VisitTold
<1>2. n \in DOMAIN players /\ n \in Name
  BY DEF GameInv, LoopInv, Owned, Connections, IsPartialMap
<1>3. Visited(n, out) /\ out[n].eliminated
  <2> DEFINE r == [ps[n] EXCEPT !.eliminated = TRUE]
  <2>1. ps \in [DOMAIN players -> Player] /\ ps[n] \in Player
    BY <1>2 DEF Visited, IsPartialMap
  <2>2. /\ r \in Player /\ r.eliminated
        /\ r.takesPart = ps[n].takesPart
        /\ r.fingerprint = ps[n].fingerprint /\ r.disconnected = ps[n].disconnected
    BY <2>1 DEF Player
  <2>3. out = [ps EXCEPT ![n] = r]
    OBVIOUS
  <2> HIDE DEF out, r
  <2>4. /\ out \in [DOMAIN players -> Player]
        /\ \A k \in DOMAIN players : out[k] = IF k = n THEN r ELSE ps[k]
    BY <2>1, <2>2, <2>3
  <2> QED BY <1>2, <2>2, <2>4 DEF Visited, IsPartialMap
<1>4. alivePlayers' = alivePlayers - 1 /\ eatenPixels' = eatenPixels
  BY DEF EliminatePlayer
<1>5. CASE ~GameEnds
  <2>1. players' = out /\ mq' = q /\ UNCHANGED gameStarted /\ LoopOn(n)
    BY <1>5 DEF EliminatePlayer
  <2> HIDE DEF out, q
  <2>2. eatenPixels' \subseteq Board
    BY <1>4 DEF GameInv
  <2>3. GameInv' /\ n \in Alive /\ gameStarted /\ Alive' = Alive \ {n}
    BY <1>1, <1>3, <1>4, <1>5, <2>1, <2>2, LoopGoesOn
  <2>4. Dies(n)
    BY <1>4, <2>1, <2>3 DEF Dies, SameLog, q
  <2> QED BY <1>1, <2>1, <2>3, <2>4
<1>6. CASE GameEnds
  <2> DEFINE over == Schedule(q, gameId, GameOver)
             u == [watchers |-> watchers, players |-> out, mq |-> over]
  <2>1. /\ gameStarted' = FALSE /\ players' = Remaining(out)
        /\ mq' = DropQueues(over, Gone(out))
        /\ loop' = "none" /\ todo' = {}
    BY <1>6 DEF EliminatePlayer, EndGame
  <2> HIDE DEF out, q
  <2>2. gameId \in Nat /\ alivePlayers \in Nat /\ gameStarted
    BY DEF GameInv, LoopInv
  <2>3. Managed(over) /\ Registered(over) = Registered(mq)
    BY <1>1, <2>2, EventTypes, ScheduleManaged
  <2>11. over = Schedule(Schedule(mq, gameId, PlayerEliminated(playerNumberInGame[n])), gameId, GameOver)
    BY DEF q
  <2> HIDE DEF over
  <2>4. Owned(u)
    BY <1>3, <2>3, VisitedOwned
  <2>5. /\ u.watchers = watchers /\ u.players = out /\ u.mq = over
        /\ Connections'.watchers = watchers /\ Connections'.players = players'
        /\ Connections'.mq = mq'
    BY DEF Connections
  <2> HIDE DEF u
  <2>6. /\ Owned(Connections') /\ Idle(players') /\ Registered(mq') \subseteq Registered(mq)
        /\ SameLog(over, mq')
    BY <2>1, <2>3, <2>4, <2>5, EraseDisconnected
  <2>7. LoopInv' /\ AliveCounted'
    BY <2>1 DEF LoopInv, AliveCounted
  <2>8. WormsAreNumbered'
    BY <2>1, <2>6 DEF WormsAreNumbered, Idle
  <2>9. alivePlayers' \in Nat
    BY <1>4, <2>2 DEF GameInv, AliveCounted
  <2>10. Owned(Connections)'
    BY <2>6
  <2>12. GameInv'
    BY <1>4, <2>1, <2>6, <2>7, <2>8, <2>9, <2>10 DEF GameInv, Fate
  <2>13. n \in Alive /\ Cardinality(Alive) = 2
    <3>1. loop = "start" \/ Plays(n)
      BY DEF GameInv, LoopInv
    <3>2. n \in Alive
      BY <1>2, <3>1, AliveAre
    <3>3. alivePlayers = Cardinality(Alive) /\ alivePlayers >= 2 /\ alivePlayers - 1 < 2
      BY <1>6, <2>2 DEF GameInv, AliveCounted, GameEnds
    <3> QED BY <2>2, <3>2, <3>3
  <2>14. Ends(n)
    BY <1>4, <2>1, <2>2, <2>6, <2>11, <2>13 DEF Ends
  <2> QED BY <2>6, <2>12, <2>14
<1> QED BY <1>5, <1>6

\* A pixel is eaten: the player stays alive.
LEMMA Eats ==
  ASSUME GameInv, NEW n, n \in todo, NEW ps, Visited(n, ps), ~ps[n].eliminated,
         NEW pixel \in Board \ eatenPixels, EatPixel(n, ps, pixel),
         UNCHANGED <<gameId, watchers, playerNumberInGame>>, Fate
  PROVE  GameInv' /\ Takes(n, pixel) /\ Registered(mq') \subseteq Registered(mq)
<1> DEFINE r == [ps[n] EXCEPT !.pixel = pixel]  moved == [ps EXCEPT ![n] = r]
<1>1. /\ players' = moved
      /\ eatenPixels' = eatenPixels \cup {pixel}
      /\ mq' = Schedule(mq, gameId, Pixel(playerNumberInGame[n], pixel))
      /\ UNCHANGED <<alivePlayers, gameStarted>> /\ LoopOn(n)
  BY DEF EatPixel
<1>2. Managed(mq') /\ Registered(mq') = Registered(mq)
  BY <1>1, VisitTold
<1>3. n \in DOMAIN players /\ eatenPixels \subseteq Board
  BY DEF GameInv, LoopInv
<1>4. ps \in [DOMAIN players -> Player] /\ ps[n] \in Player
  BY <1>3 DEF Visited, IsPartialMap
<1>5. /\ r \in Player /\ r.eliminated = ps[n].eliminated
      /\ r.takesPart = ps[n].takesPart
      /\ r.fingerprint = ps[n].fingerprint /\ r.disconnected = ps[n].disconnected
  BY <1>4 DEF Player
<1> HIDE DEF r
<1>6. /\ moved \in [DOMAIN players -> Player]
      /\ \A k \in DOMAIN players : moved[k] = IF k = n THEN r ELSE ps[k]
  BY <1>4, <1>5
<1> HIDE DEF moved
<1>7. Visited(n, moved) /\ ~moved[n].eliminated
  BY <1>3, <1>5, <1>6 DEF Visited, IsPartialMap
<1>8. eatenPixels' \subseteq Board
  BY <1>1, <1>3
<1>9. GameInv' /\ n \in Alive /\ gameStarted /\ Alive' = Alive
  BY <1>1, <1>2, <1>7, <1>8, LoopGoesOn
<1>10. Takes(n, pixel)
  BY <1>1, <1>9 DEF Takes, SameLog
<1> QED BY <1>2, <1>9, <1>10

\* The player the loop visits next
LEMMA NextVisited ==
  ASSUME GameInv, loop # "none"
  PROVE  Min(todo) \in todo /\ Min(todo) \in DOMAIN players
<1>1. todo # {} /\ todo \subseteq DOMAIN players /\ DOMAIN players \subseteq Nat
  BY NamesAssumption DEF GameInv, LoopInv, Owned, Connections, IsPartialMap
<1> QED BY <1>1, LeastOfNaturals

\* What GameInv says of the players
LEMMA PlayersAre ==
  ASSUME GameInv
  PROVE  IsPartialMap(players, Name, Player) /\ players \in [DOMAIN players -> Player]
BY DEF GameInv, Owned, Connections, IsPartialMap

\* startGame's loop
LEMMA PlacePlayerKeeps ==
  ASSUME GameInv, PlacePlayer
  PROVE  GameInv' /\ Story /\ Registered(mq') \subseteq Registered(mq)
<1> DEFINE n == Min(todo)
           placed == [players EXCEPT ![n].takesPart = TRUE, ![n].eliminated = FALSE]
<1>1. loop = "start" /\ UNCHANGED <<gameId, watchers, playerNumberInGame, undefined, running>>
  BY DEF PlacePlayer
<1>2. n \in todo /\ n \in DOMAIN players
  BY <1>1, NextVisited
<1>3. PICK pixel \in Board : IF pixel \in eatenPixels
                            THEN EliminatePlayer(n, [placed EXCEPT ![n].pixel = pixel])
                            ELSE EatPixel(n, placed, pixel)
  BY DEF PlacePlayer
<1>4. Fate
  BY <1>1 DEF Fate, GameInv
<1> HIDE DEF n
<1>5. players[n] \in Player /\ players \in [DOMAIN players -> Player] /\ DOMAIN players \subseteq Name
  BY <1>2, PlayersAre DEF IsPartialMap
<1> DEFINE r == [players[n] EXCEPT !.takesPart = TRUE, !.eliminated = FALSE]
           fallen == [placed EXCEPT ![n].pixel = pixel]
           p == [r EXCEPT !.pixel = pixel]
<1>6. /\ r \in Player /\ r.takesPart /\ ~r.eliminated
      /\ r.fingerprint = players[n].fingerprint /\ r.disconnected = players[n].disconnected
      /\ p \in Player /\ p.takesPart
      /\ p.fingerprint = players[n].fingerprint /\ p.disconnected = players[n].disconnected
  BY <1>5 DEF Player
<1>7. placed = [players EXCEPT ![n] = r]
  BY <1>2, <1>5
<1>8. fallen = [placed EXCEPT ![n] = [placed[n] EXCEPT !.pixel = pixel]]
  OBVIOUS
<1> HIDE DEF placed, fallen
<1>9. /\ placed \in [DOMAIN players -> Player]
      /\ \A k \in DOMAIN players : placed[k] = IF k = n THEN r ELSE players[k]
  <2> HIDE DEF r
  <2> QED BY <1>5, <1>6, <1>7
<1>10. /\ fallen \in [DOMAIN players -> Player]
       /\ \A k \in DOMAIN players : fallen[k] = IF k = n THEN p ELSE players[k]
  <2>1. placed[n] = r
    BY <1>2, <1>9
  <2>2. fallen = [placed EXCEPT ![n] = p]
    BY <1>8, <2>1
  <2> HIDE DEF r, p
  <2> QED BY <1>2, <1>6, <1>9, <2>2
<1> HIDE DEF r, p
<1>11. Visited(n, placed) /\ ~placed[n].eliminated /\ Visited(n, fallen)
  BY <1>2, <1>5, <1>6, <1>9, <1>10 DEF Visited, IsPartialMap
<1>12. CASE pixel \in eatenPixels
  <2>1. EliminatePlayer(n, fallen)
    BY <1>3, <1>12 DEF fallen
  <2> QED BY <1>1, <1>2, <1>4, <1>11, <2>1, Eliminates DEF Story
<1>13. CASE pixel \notin eatenPixels
  <2>1. EatPixel(n, placed, pixel)
    BY <1>3, <1>13
  <2> QED BY <1>1, <1>2, <1>4, <1>11, <1>13, <2>1, Eats DEF Story
<1> QED BY <1>12, <1>13

\* MayBreak keeps the types.
LEMMA BreakIsFate ==
  ASSUME GameInv, NEW condition, NEW what \in Undefined, MayBreak(condition, what)
  PROVE  Fate
BY DEF MayBreak, Fate, GameInv

\* runTurn's loop
LEMMA MovePlayerKeeps ==
  ASSUME GameInv, MovePlayer
  PROVE  GameInv' /\ Story /\ Registered(mq') \subseteq Registered(mq)
<1> DEFINE n == Min(todo)
<1>1. loop = "turn" /\ UNCHANGED <<gameId, watchers, playerNumberInGame>>
  BY DEF MovePlayer
<1>2. n \in todo /\ n \in DOMAIN players
  BY <1>1, NextVisited
<1>3. PICK pixel \in Around(players[n].pixel) :
         \/ /\ LoopOn(n)
            /\ UNCHANGED <<gameStarted, alivePlayers, eatenPixels, players, mq, undefined, running>>
         \/ /\ Crashes(pixel)
            /\ EliminatePlayer(n, players)
            /\ MayBreak(GameEnds /\ players[n].disconnected, "eraseInTurn")
         \/ /\ ~Crashes(pixel)
            /\ EatPixel(n, players, pixel)
            /\ UNCHANGED <<undefined, running>>
  BY DEF MovePlayer
<1> HIDE DEF n
<1>4. Visited(n, players) /\ ~players[n].eliminated
  <2>1. Plays(n)
    BY <1>1, <1>2 DEF GameInv, LoopInv
  <2> QED BY <2>1, PlayersAre DEF Visited, Plays
<1>5. CASE LoopOn(n) /\ UNCHANGED <<gameStarted, alivePlayers, eatenPixels, players, mq, undefined, running>>
  <2>1. Managed(mq') /\ Registered(mq') = Registered(mq) /\ eatenPixels' \subseteq Board /\ Fate
    BY <1>5 DEF GameInv, Owned, Connections, Fate
  <2>2. Visited(n, players') /\ ~players'[n].eliminated
    BY <1>4, <1>5
  <2>3. GameInv' /\ Alive' = Alive
    BY <1>1, <1>2, <1>5, <2>1, <2>2, LoopGoesOn
  <2>4. Quiet
    BY <1>1, <1>5, <2>3 DEF Quiet, Unmoved, gameVars, SameLog
  <2> QED BY <2>1, <2>3, <2>4 DEF Story
<1>6. CASE /\ EliminatePlayer(n, players)
           /\ MayBreak(GameEnds /\ players[n].disconnected, "eraseInTurn")
  <2>1. Fate
    BY <1>6, BreakIsFate DEF Undefined
  <2> QED BY <1>1, <1>2, <1>4, <1>6, <2>1, Eliminates DEF Story
<1>7. CASE ~Crashes(pixel) /\ EatPixel(n, players, pixel) /\ UNCHANGED <<undefined, running>>
  <2>1. pixel \in Board \ eatenPixels
    BY <1>7 DEF Crashes
  <2>2. Fate
    BY <1>7 DEF Fate, GameInv
  <2> QED BY <1>1, <1>2, <1>4, <1>7, <2>1, <2>2, Eats DEF Story
<1> QED BY <1>3, <1>5, <1>6, <1>7

\* The connections as they are
LEMMA NowIsState ==
  ASSUME GameInv
  PROVE  IsState(Connections) /\ Owned(Connections) /\ GoesOn(players, players)
BY DEF GameInv, IsState, Connections, GoesOn

\* The beginning of a turn
LEMMA RunTurnKeeps ==
  ASSUME GameInv, RunTurn
  PROVE  GameInv' /\ Quiet
<1>1. /\ loop = "none" /\ gameStarted /\ UNCHANGED gameVars
      /\ loop' = "turn" /\ todo' = {n \in DOMAIN players : Plays(n)}
      /\ UNCHANGED <<watchers, players, mq, undefined, running>>
  BY DEF RunTurn
<1>2. Become(Connections) /\ Connections.players = players
  BY <1>1 DEF Become, Connections
<1>3. Fate
  BY <1>1 DEF Fate, GameInv
<1> QED BY <1>1, <1>2, <1>3, NowIsState, ConnectionsChange DEF Quiet, SameLog

\* Only watchers and queues change.
LEMMA QueuesChange ==
  ASSUME GameInv, loop = "none",
         IsPartialMap(watchers', Fingerprint, Session), Managed(mq'),
         \A f \in Registered(mq') : f \in Registered(mq) \/ f \in DOMAIN watchers',
         DOMAIN watchers \subseteq DOMAIN watchers', DOMAIN watchers' \subseteq Registered(mq'),
         \A f \in DOMAIN watchers' \ DOMAIN watchers : NamesOf(players, f) = {},
         UNCHANGED <<gameVars, players, loop, todo>>, Fate
  PROVE  GameInv' /\ Unmoved
<1> DEFINE s == [watchers |-> watchers', players |-> players, mq |-> mq']
<1>1. IsState(s) /\ Become(s) /\ s.players = players /\ s.watchers = watchers' /\ s.mq = mq'
  BY DEF IsState, Become
<1>2. /\ Owned(Connections)
      /\ Connections.watchers = watchers /\ Connections.players = players /\ Connections.mq = mq
  BY DEF GameInv, Connections
<1>3. /\ IsPartialMap(players, Name, Player)
      /\ \A f \in Registered(mq) :
           f \in DOMAIN watchers \/ \E k \in DOMAIN players : players[k].fingerprint = f
      /\ \A k \in DOMAIN players :
           players[k].disconnected => players[k].fingerprint \notin DOMAIN watchers
  BY <1>2, OwnedMeans
<1>4. \A k \in DOMAIN players : players[k].fingerprint \notin DOMAIN watchers' \ DOMAIN watchers
  BY DEF NamesOf
<1> HIDE DEF s
<1>5. Owned(s)
  BY <1>1, <1>3, <1>4, OwnedMeans
<1>6. ~gameStarted => Idle(players)
  BY DEF GameInv
<1> QED BY <1>1, <1>5, <1>6, NowIsState, ConnectionsChange

\* The watchers with one more
LEMMA OneMoreWatcher ==
  ASSUME NEW f \in Fingerprint, NEW id \in Session, IsPartialMap(watchers, Fingerprint, Session)
  PROVE  /\ IsPartialMap(With(watchers, f, id), Fingerprint, Session)
         /\ DOMAIN With(watchers, f, id) = DOMAIN watchers \cup {f}
BY DEF With, IsPartialMap

\* The fields of a message, the connections' parts
LEMMA MessageIs ==
  ASSUME NEW m \in Message
  PROVE  m.sessionId \in Session /\ m.nextExpected \in Nat /\ m.name \in Name \cup {NoName}
BY NumbersAssumption DEF Message

\* handleMessageFromWatcher
LEMMA WatcherMessageKeeps ==
  ASSUME GameInv, NEW f \in Fingerprint, NEW m \in Message,
         WatcherJoins(f, m) \/ WatcherAcknowledges(f, m) \/ WatcherRestarts(f, m)
  PROVE  GameInv' /\ Quiet /\ Registered(mq') \subseteq Registered(mq) \cup {f}
<1>1. m.sessionId \in Session /\ m.nextExpected \in Nat
  BY MessageIs
<1>2. loop = "none"
  BY DEF WatcherJoins, WatcherAcknowledges, WatcherRestarts, Receives
<1>3. CASE WatcherJoins(f, m)
  <2>1. /\ NamesOf(players, f) = {}
        /\ watchers' = With(watchers, f, m.sessionId)
        /\ mq' = AddQueue(mq, f, m.nextExpected)
        /\ UNCHANGED <<gameVars, players, loop, todo>> /\ UNCHANGED <<undefined, running>>
    BY <1>3 DEF WatcherJoins
  <2>2. IsPartialMap(watchers', Fingerprint, Session) /\ DOMAIN watchers' = DOMAIN watchers \cup {f}
    <3>1. IsPartialMap(watchers, Fingerprint, Session)
      BY NowOwned
    <3> DEFINE w == With(watchers, f, m.sessionId)
    <3>2. IsPartialMap(w, Fingerprint, Session) /\ DOMAIN w = DOMAIN watchers \cup {f}
      BY <1>1, <3>1, OneMoreWatcher
    <3> HIDE DEF w
    <3>3. watchers' = w
      BY <2>1 DEF w
    <3> QED BY <3>2, <3>3
  <2>3. Managed(mq') /\ Registered(mq') = Registered(mq) \cup {f}
    BY <1>1, <2>1, NowOwned, AddQueueManaged
  <2>4. Fate
    BY <2>1 DEF Fate, GameInv
  <2>5. SameLog(mq, mq')
    BY <2>1, NowOwned, QueuesApart
  <2> QED BY <1>2, <2>1, <2>2, <2>3, <2>4, <2>5, NowOwned, QueuesChange DEF Quiet
<1>4. CASE WatcherAcknowledges(f, m)
  <2>1. /\ mq' = AckIfKnown(mq, f, m.nextExpected)
        /\ MayBreak(AckIsUndefined(mq, f), "ackUnknown")
        /\ UNCHANGED <<gameVars, players, loop, todo>> /\ UNCHANGED watchers
    BY <1>4 DEF WatcherAcknowledges
  <2>2. Managed(mq') /\ Registered(mq') = Registered(mq)
    BY <1>1, <2>1, NowOwned, AckManaged
  <2>3. Fate
    BY <2>1, BreakIsFate DEF Undefined
  <2>4. SameLog(mq, mq')
    BY <2>1, NowOwned, QueuesApart
  <2> QED BY <1>2, <2>1, <2>2, <2>3, <2>4, NowOwned, QueuesChange DEF Quiet
<1>5. CASE WatcherRestarts(f, m)
  <2>1. /\ f \in DOMAIN watchers
        /\ watchers' = [watchers EXCEPT ![f] = m.sessionId]
        /\ mq' = AddQueue(DropQueue(mq, f), f, m.nextExpected)
        /\ UNCHANGED <<gameVars, players, loop, todo>> /\ UNCHANGED <<undefined, running>>
    BY <1>5 DEF WatcherRestarts
  <2>2. IsPartialMap(watchers', Fingerprint, Session) /\ DOMAIN watchers' = DOMAIN watchers
    BY <1>1, <2>1, NowOwned DEF IsPartialMap
  <2>3. Managed(DropQueue(mq, f)) /\ Registered(DropQueue(mq, f)) = Registered(mq) \ {f}
    BY NowOwned, DropQueueManaged
  <2>4. Managed(mq') /\ Registered(mq') = (Registered(mq) \ {f}) \cup {f}
    BY <1>1, <2>1, <2>3, AddQueueManaged
  <2>5. Fate
    BY <2>1 DEF Fate, GameInv
  <2>6. SameLog(mq, mq')
    <3>1. SameLog(mq, DropQueue(mq, f)) /\ SameLog(DropQueue(mq, f), mq')
      BY <2>1, <2>3, NowOwned, QueuesApart
    <3> QED BY <3>1 DEF SameLog
  <2> QED BY <1>2, <2>1, <2>2, <2>4, <2>5, <2>6, NowOwned, QueuesChange DEF Quiet
<1> QED BY <1>3, <1>4, <1>5

\* A state with other players and queues
LEMMA StateWith ==
  ASSUME NEW s, IsState(s), NEW ps, NEW q, NEW t, t = [s EXCEPT !.players = ps, !.mq = q]
  PROVE  t = [watchers |-> s.watchers, players |-> ps, mq |-> q]
<1> DEFINE a == s.watchers  b == s.players  c == s.mq
<1>1. s = [watchers |-> a, players |-> b, mq |-> c]
  BY DEF IsState
<1> HIDE DEF a, b, c
<1>2. t = [watchers |-> a, players |-> ps, mq |-> q]
  BY <1>1
<1> QED BY <1>2 DEF a

\* handleMessageFromPlayer of a known name
LEMMA PlayerPlaysKeeps ==
  ASSUME GameInv, NEW f \in Fingerprint, NEW m \in Message, PlayerPlays(f, m)
  PROVE  GameInv' /\ (Quiet \/ Begins) /\ Registered(mq') \subseteq Registered(mq) \cup {f}
<1> DEFINE n == m.name
           ps == IF ~gameStarted /\ m.turning THEN [players EXCEPT ![n].ready = TRUE] ELSE players
           q == AckIfKnown(mq, f, m.nextExpected)
           s == [watchers |-> watchers, players |-> ps, mq |-> q]
<1>1. /\ loop = "none" /\ n \in DOMAIN players
      /\ StartGameIfReady([Connections EXCEPT !.players = ps, !.mq = AckIfKnown(@, f, m.nextExpected)])
      /\ MayBreak(AckIsUndefined(mq, f), "ackUnknown")
  BY DEF PlayerPlays, Receives
<1>2. Managed(q) /\ Registered(q) = Registered(mq) /\ SameLog(mq, q)
  BY MessageIs, NowOwned, AckManaged, QueuesApart
<1>3. StartGameIfReady(s)
  <2>1. [Connections EXCEPT !.players = ps, !.mq = AckIfKnown(@, f, m.nextExpected)] = s
    <3>1. Connections.watchers = watchers /\ Connections.mq = mq
      BY DEF Connections
    <3> HIDE DEF ps
    <3> QED BY <3>1, NowIsState, StateWith
  <2> QED BY <1>1, <2>1
<1>4. Fate
  BY <1>1, BreakIsFate DEF Undefined
<1>5. /\ IsPartialMap(ps, Name, Player) /\ DOMAIN ps = DOMAIN players
      /\ \A k \in DOMAIN players :
           /\ ps[k].fingerprint = players[k].fingerprint /\ ps[k].disconnected = players[k].disconnected
           /\ ps[k].takesPart = players[k].takesPart /\ ps[k].eliminated = players[k].eliminated
  <2>1. players \in [DOMAIN players -> Player] /\ players[n] \in Player /\ DOMAIN players \subseteq Name
    BY <1>1, PlayersAre DEF IsPartialMap
  <2> DEFINE r == [players[n] EXCEPT !.ready = TRUE]
  <2>2. /\ r \in Player
        /\ r.fingerprint = players[n].fingerprint /\ r.disconnected = players[n].disconnected
        /\ r.takesPart = players[n].takesPart /\ r.eliminated = players[n].eliminated
    BY <2>1 DEF Player
  <2>3. ps = players \/ ps = [players EXCEPT ![n] = r]
    OBVIOUS
  <2> HIDE DEF ps, r, n
  <2>4. CASE ps = players
    BY <2>1, <2>4 DEF IsPartialMap
  <2>5. CASE ps = [players EXCEPT ![n] = r]
    <3>1. /\ ps \in [DOMAIN players -> Player]
          /\ \A k \in DOMAIN players : ps[k] = IF k = n THEN r ELSE players[k]
      BY <2>1, <2>2, <2>5
    <3> QED BY <2>1, <2>2, <3>1 DEF IsPartialMap
  <2> QED BY <2>3, <2>4, <2>5
<1> HIDE DEF ps, q
<1>6. IsState(s) /\ s.watchers = watchers /\ s.players = ps /\ s.mq = q
  BY DEF IsState
<1> HIDE DEF s
<1>7. Owned(s)
  <2>1. /\ Owned(Connections)
        /\ Connections.watchers = watchers /\ Connections.players = players /\ Connections.mq = mq
    BY DEF GameInv, Connections
  <2>2. /\ IsPartialMap(watchers, Fingerprint, Session)
        /\ \A g \in Registered(mq) :
             g \in DOMAIN watchers \/ \E k \in DOMAIN players : players[k].fingerprint = g
        /\ \A g \in DOMAIN watchers : g \in Registered(mq)
        /\ \A k \in DOMAIN players :
             players[k].disconnected => players[k].fingerprint \notin DOMAIN watchers
    BY <2>1, OwnedMeans
  <2> QED BY <1>2, <1>5, <1>6, <2>2, OwnedMeans
<1>8. GoesOn(players, s.players)
  BY <1>5, <1>6 DEF GoesOn
<1>9. ~gameStarted => \A k \in DOMAIN s.players : ~s.players[k].disconnected
  BY <1>5, <1>6 DEF GameInv, Idle
<1> QED BY <1>1, <1>2, <1>3, <1>4, <1>6, <1>7, <1>8, <1>9, StartsIfReady

\* handleMessageFromPlayer of a new name: the older sessions go first.
LEMMA PlayerJoinsKeeps ==
  ASSUME GameInv, NEW f \in Fingerprint, NEW m \in Message, PlayerJoins(f, m)
  PROVE  GameInv' /\ (Quiet \/ Begins) /\ Registered(mq') \subseteq Registered(mq) \cup {f}
<1> DEFINE n == m.name  p == Newcomer(f, m)
           d == DropConnections(Connections, f, Cardinality(Outdated(f, m)))
           ps == With(d.players, n, p)  q == AddQueue(d.mq, f, m.nextExpected)
           s == [watchers |-> d.watchers, players |-> ps, mq |-> q]
<1>1. /\ loop = "none" /\ n \in Name \ DOMAIN players
      /\ IF Cardinality(DOMAIN d.players) = MaxPlayers
         THEN Become(d) /\ UNCHANGED <<gameVars, loop, todo>>
         ELSE StartGameIfReady([d EXCEPT !.players = With(@, n, p), !.mq = AddQueue(@, f, m.nextExpected)])
      /\ Fate
  <2>1. \E condition : MayBreak(condition, "eraseInMessage")
    BY DEF PlayerJoins
  <2>2. Fate
    BY <2>1, BreakIsFate DEF Undefined
  <2> QED BY <2>2 DEF PlayerJoins, Receives
<1>2. Kept(Connections, d)
  <2>1. Outdated(f, m) \in SUBSET Name
    BY NowOwned DEF Outdated, NamesOf, IsPartialMap
  <2>2. Cardinality(Outdated(f, m)) \in Nat
    BY <2>1, NamesAssumption, FS_Subset, FS_CardinalityType
  <2> QED BY <2>2, NowIsState, DropConnectionsKeep
<1>3. p \in Player /\ p.fingerprint = f /\ ~p.disconnected /\ ~p.takesPart
  BY MessageIs DEF Newcomer, Player, GameInv
<1> HIDE DEF d, p
<1>4. /\ IsState(d) /\ Owned(d)
      /\ DOMAIN d.players \subseteq DOMAIN players /\ Registered(d.mq) \subseteq Registered(mq)
      /\ SameLog(mq, d.mq)
      /\ gameStarted => SameWorms(players, d.players)
      /\ ~gameStarted => Idle(d.players)
  BY <1>2 DEF Kept, Connections, GameInv
<1>5. gameStarted => GoesOn(players, d.players)
  BY <1>4 DEF SameWorms, GoesOn
<1>6. CASE Cardinality(DOMAIN d.players) = MaxPlayers
  <2>1. UNCHANGED gameVars /\ GameInv' /\ Unmoved
    BY <1>1, <1>4, <1>5, <1>6, ConnectionsChange
  <2> QED BY <1>1, <1>4, <1>6, <2>1 DEF Become, Quiet
<1>7. CASE Cardinality(DOMAIN d.players) # MaxPlayers
  <2>1. [d EXCEPT !.players = With(@, n, p), !.mq = AddQueue(@, f, m.nextExpected)] = s
    <3> HIDE DEF n
    <3> QED BY <1>4, StateWith
  <2>2. StartGameIfReady(s)
    BY <1>1, <1>7, <2>1
  <2>3. Managed(q) /\ Registered(q) = Registered(d.mq) \cup {f}
    BY <1>4, MessageIs, OwnedMeans, AddQueueManaged
  <2>10. SameLog(mq, q)
    <3>1. SameLog(d.mq, q)
      BY <1>4, OwnedMeans, QueuesApart
    <3> QED BY <1>4, <3>1 DEF SameLog
  <2>4. /\ IsPartialMap(ps, Name, Player) /\ DOMAIN ps = DOMAIN d.players \cup {n}
        /\ ps[n] = p /\ \A k \in DOMAIN d.players : k # n => ps[k] = d.players[k]
    <3>1. IsPartialMap(d.players, Name, Player) /\ n \in Name
      BY <1>1, <1>4, OwnedMeans
    <3> DEFINE g == d.players  w == With(g, n, p)
    <3> HIDE DEF n, g, w
    <3>2. w = [x \in DOMAIN g \cup {n} |-> IF x = n THEN p ELSE g[x]]
      BY DEF With, w
    <3>3. IsPartialMap(g, Name, Player)
      BY <3>1 DEF g
    <3>4. /\ IsPartialMap(w, Name, Player) /\ DOMAIN w = DOMAIN g \cup {n}
          /\ w[n] = p /\ \A k \in DOMAIN g : k # n => w[k] = g[k]
      BY <1>3, <3>1, <3>2, <3>3 DEF IsPartialMap
    <3> QED BY <3>4 DEF g, w
  <2> HIDE DEF ps, q, n
  <2>5. IsState(s) /\ s.watchers = d.watchers /\ s.players = ps /\ s.mq = q
    BY DEF IsState
  <2> HIDE DEF s
  <2>6. n \notin DOMAIN d.players
    BY <1>1, <1>4
  <2>7. Owned(s)
    <3>1. /\ IsPartialMap(d.watchers, Fingerprint, Session)
          /\ \A g \in Registered(d.mq) :
               g \in DOMAIN d.watchers \/ \E k \in DOMAIN d.players : d.players[k].fingerprint = g
          /\ \A g \in DOMAIN d.watchers : g \in Registered(d.mq)
          /\ \A k \in DOMAIN d.players :
               d.players[k].disconnected => d.players[k].fingerprint \notin DOMAIN d.watchers
      BY <1>4, OwnedMeans
    <3>2. \A k \in DOMAIN d.players : k \in DOMAIN ps /\ ps[k] = d.players[k]
      BY <2>4, <2>6
    <3>3. \A g \in Registered(q) :
            g \in DOMAIN d.watchers \/ \E k \in DOMAIN ps : ps[k].fingerprint = g
      BY <1>3, <2>3, <2>4, <3>1, <3>2
    <3>4. \A k \in DOMAIN ps : ps[k].disconnected => ps[k].fingerprint \notin DOMAIN d.watchers
      BY <1>3, <2>4, <3>1, <3>2
    <3> QED BY <2>3, <2>4, <2>5, <3>1, <3>3, <3>4, OwnedMeans
  <2>8. gameStarted => GoesOn(players, s.players)
    BY <1>1, <1>3, <1>5, <2>4, <2>5, <2>6 DEF GoesOn, n
  <2>9. ~gameStarted => \A k \in DOMAIN s.players : ~s.players[k].disconnected
    BY <1>3, <1>4, <2>4, <2>5, <2>6 DEF Idle
  <2> QED BY <1>1, <1>4, <2>2, <2>3, <2>5, <2>7, <2>8, <2>9, <2>10, StartsIfReady
<1> QED BY <1>6, <1>7

\* A silent socket
LEMMA ConnectionExpiresKeeps ==
  ASSUME GameInv, NEW f \in Fingerprint, ConnectionExpires(f)
  PROVE  GameInv' /\ Quiet
<1> DEFINE d == DropConnection(Connections, f)
<1>1. /\ loop = "none" /\ Become(d)
      /\ UNCHANGED gameVars /\ UNCHANGED <<loop, todo>> /\ UNCHANGED <<undefined, running>>
  BY DEF ConnectionExpires, Receives
<1>2. Kept(Connections, d)
  BY NowIsState, DropConnectionKeeps
<1> HIDE DEF d
<1>3. /\ IsState(d) /\ Owned(d) /\ SameLog(mq, d.mq)
      /\ gameStarted => GoesOn(players, d.players)
      /\ ~gameStarted => Idle(d.players)
  BY <1>2 DEF Kept, Connections, GameInv, SameWorms, GoesOn
<1>4. Fate
  BY <1>1 DEF Fate, GameInv
<1> QED BY <1>1, <1>3, <1>4, ConnectionsChange DEF Quiet, Become

\* Stuttering
LEMMA GameInvUnchanged ==
  ASSUME GameInv, UNCHANGED vars
  PROVE  GameInv' /\ Quiet
BY DEF vars, gameVars, GameInv, Owned, Managed, Registered, Connections, LoopInv,
       AliveCounted, WormsAreNumbered, Idle, Alive, ToBePlaced, Plays, CanStartGame,
       Quiet, Unmoved, SameLog

\* handleMessage registers its sender at most.
LEMMA HandleMessageKeeps ==
  ASSUME GameInv, NEW f \in Fingerprint, NEW m \in Message, HandleMessage(f, m)
  PROVE  GameInv' /\ (Quiet \/ Begins) /\ Registered(mq') \subseteq Registered(mq) \cup {f}
<1>1. CASE MessageIgnored(f, m)
  <2>1. UNCHANGED vars
    BY <1>1 DEF MessageIgnored
  <2> QED BY <2>1, GameInvUnchanged DEF vars
<1> QED BY <1>1, WatcherMessageKeeps, PlayerPlaysKeeps, PlayerJoinsKeeps DEF HandleMessage

\* GameInv holds at first, and every step keeps it.
LEMMA GameInvFirst == Init => GameInv
<1> SUFFICES ASSUME Init PROVE GameInv
  OBVIOUS
<1>1. /\ gameId = 0 /\ gameStarted = FALSE /\ eatenPixels = {} /\ alivePlayers = 0
      /\ watchers = EmptyMap /\ players = EmptyMap /\ playerNumberInGame = EmptyMap
      /\ loop = "none" /\ todo = {} /\ undefined = "none" /\ running = TRUE
  BY DEF Init
<1>2. PICK id \in InitialGameIds : mq = NewMQManager(id)
  BY DEF Init
<1>3. Managed(mq) /\ Registered(mq) = {}
  <2>1. id \in Nat
    BY <1>2, NumbersAssumption
  <2>2. mq \in ManagerOf({}, Nat, EventData) /\ Consistent(mq)
    BY <1>2, <2>1, NewManagerConsistent
  <2> QED BY <2>2, IsManaged
<1>4. DOMAIN EmptyMap = {} /\ \A S, T : IsPartialMap(EmptyMap, S, T)
  BY DEF EmptyMap, IsPartialMap
<1>5. Owned(Connections)
  <2>1. Connections.watchers = EmptyMap /\ Connections.players = EmptyMap /\ Connections.mq = mq
    BY <1>1 DEF Connections
  <2> QED BY <1>3, <1>4, <2>1, OwnedMeans
<1>6. Idle(players)
  BY <1>1, <1>4, FS_EmptySet DEF Idle, CanStartGame
<1>7. LoopInv /\ AliveCounted /\ WormsAreNumbered
  BY <1>1, <1>4 DEF LoopInv, AliveCounted, WormsAreNumbered
<1> QED BY <1>1, <1>4, <1>5, <1>6, <1>7 DEF GameInv

LEMMA GameInvKept == GameInv /\ [Next]_vars => GameInv' /\ Story
<1> SUFFICES ASSUME GameInv, [Next]_vars PROVE GameInv' /\ Story
  OBVIOUS
<1> QED BY HandleMessageKeeps, ConnectionExpiresKeeps, RunTurnKeeps, PlacePlayerKeeps,
           MovePlayerKeeps, GameInvUnchanged DEF Next, Story

LEMMA GameInvHolds == Spec => []GameInv
BY GameInvFirst, GameInvKept, PTL DEF Spec

-----------------------------------------------------------------------------

\* GameInv implies the properties.
LEMMA GameInvMeans ==
  ASSUME GameInv
  PROVE  /\ TypeOK /\ AliveCounted /\ WormsAreNumbered /\ NoMissedStart
         /\ NoOrphanQueues /\ WatchersHaveQueues /\ QueuesConsistent
<1>1. TypeOK
  BY DEF GameInv, TypeOK, LoopInv, Owned, Managed, Connections
<1>2. NoMissedStart
  BY DEF GameInv, Idle, NoMissedStart
<1>3. NoOrphanQueues /\ WatchersHaveQueues /\ QueuesConsistent
  BY DEF GameInv, Owned, Registered, Connections, Managed,
         NoOrphanQueues, WatchersHaveQueues, QueuesConsistent
<1> QED BY <1>1, <1>2, <1>3 DEF GameInv

\* The game's types: among others, a pixel of a player or of an event is always on the board.
THEOREM TypeCorrect == Spec => []TypeOK
BY GameInvHolds, GameInvMeans, PTL

\* The count of the living, which is only ever counted down, is right, and a game in
\* progress has at least two.
THEOREM CountCorrect == Spec => []AliveCounted
BY GameInvHolds, GameInvMeans, PTL

\* Whoever takes part has a number and stays until the end of the game.
THEOREM NumbersCorrect == Spec => []WormsAreNumbered
BY GameInvHolds, GameInvMeans, PTL

\* A game starts as soon as it may.
THEOREM NoStartMissed == Spec => []NoMissedStart
BY GameInvHolds, GameInvMeans, PTL

\* Every queue is a watcher's or a player's, through all handlers.
THEOREM QueuesOwned == Spec => []NoOrphanQueues
BY GameInvHolds, GameInvMeans, PTL

\* Every watcher has a queue, so that its acknowledgements are defined.
THEOREM WatchersServed == Spec => []WatchersHaveQueues
BY GameInvHolds, GameInvMeans, PTL

\* The round-robin schedule lists just the sockets with a queue.
THEOREM ScheduleCorrect == Spec => []QueuesConsistent
BY GameInvHolds, GameInvMeans, PTL

-----------------------------------------------------------------------------
(* The server around the game *)

\* Cleanup as a function on the subsets of the silent sockets
Cleaning(it, D, s) ==
    it = [r \in D |-> IF r = {} THEN s
                      ELSE DropConnection(it[r \ {CHOOSE f \in r : TRUE}], CHOOSE f \in r : TRUE)]

LEMMA CleanupExists ==
  ASSUME NEW s, NEW S, IsFiniteSet(S)
  PROVE  \E it : Cleaning(it, SUBSET S, s)
<1> DEFINE Small(n) == {r \in SUBSET S : Cardinality(r) <= n}
           Bad == {n \in Nat : ~\E it : Cleaning(it, Small(n), s)}
<1>1. \A r \in SUBSET S : IsFiniteSet(r) /\ Cardinality(r) \in Nat /\ Cardinality(r) <= Cardinality(S)
  BY FS_Subset, FS_CardinalityType
<1>2. SUBSET S = Small(Cardinality(S)) /\ Cardinality(S) \in Nat
  BY <1>1, FS_CardinalityType
<1> SUFFICES ASSUME Bad # {} PROVE FALSE
  BY <1>2
<1> DEFINE b == Min(Bad)
<1>3. b \in Bad /\ \A n \in Bad : b <= n
  BY LeastOfNaturals
<1> HIDE DEF b
<1>4. b \in Nat /\ ~\E it : Cleaning(it, Small(b), s)
  BY <1>3
<1>5. CASE b = 0
  <2> DEFINE it == [r \in Small(0) |-> s]
  <2>1. \A r \in Small(0) : r = {}
    <3> TAKE r \in Small(0)
    <3>1. r \in SUBSET S /\ Cardinality(r) = 0
      BY <1>1
    <3> QED BY <1>1, <3>1, FS_EmptySet
  <2> HIDE DEF Small
  <2>2. Cleaning(it, Small(0), s)
    BY <2>1 DEF Cleaning
  <2> QED BY <1>4, <1>5, <2>2
<1>6. CASE b # 0
  <2>1. b - 1 \in Nat /\ ~(b <= b - 1)
    BY <1>4, <1>6
  <2>2. b - 1 \notin Bad
    BY <1>3, <2>1
  <2>3. PICK it : Cleaning(it, Small(b - 1), s)
    BY <2>1, <2>2
  <2> DEFINE Pick(r) == CHOOSE f \in r : TRUE
             next == [r \in Small(b) |-> IF r = {} THEN s ELSE DropConnection(it[r \ {Pick(r)}], Pick(r))]
  <2>4. ASSUME NEW r \in Small(b), r # {} PROVE r \ {Pick(r)} \in Small(b - 1)
    <3>1. Pick(r) \in r
      BY <2>4
    <3>2. Cardinality(r \ {Pick(r)}) = Cardinality(r) - 1
      BY <1>1, <3>1, FS_RemoveElement
    <3> QED BY <1>1, <1>4, <3>2
  <2>5. Small(b - 1) \subseteq Small(b)
    BY <1>1, <1>4
  <2> HIDE DEF Small, Pick
  <2>6. \A r \in Small(b - 1) : it[r] = IF r = {} THEN s ELSE DropConnection(it[r \ {Pick(r)}], Pick(r))
    BY <2>3 DEF Cleaning, Pick
  <2>7. \A r \in Small(b - 1) : next[r] = it[r]
    BY <2>5, <2>6
  <2>8. \A r \in Small(b) :
          (IF r = {} THEN s ELSE DropConnection(it[r \ {Pick(r)}], Pick(r)))
            = IF r = {} THEN s ELSE DropConnection(next[r \ {Pick(r)}], Pick(r))
    BY <2>4, <2>7
  <2>9. next = [r \in Small(b) |-> IF r = {} THEN s ELSE DropConnection(next[r \ {Pick(r)}], Pick(r))]
    BY <2>8
  <2> HIDE DEF next
  <2>10. Cleaning(next, Small(b), s)
    BY <2>9 DEF Cleaning, Pick
  <2> QED BY <1>4, <2>10
<1> QED BY <1>5, <1>6

\* cleanupObsoleteConnections leaves no queue of a silent socket.
LEMMA CleanupKeeps ==
  ASSUME GameInv, NEW S, IsFiniteSet(S)
  PROVE  Kept(Connections, Cleanup(S)) /\ Registered(Cleanup(S).mq) \cap S = {}
<1> DEFINE s == Connections
           it == CHOOSE x : Cleaning(x, SUBSET S, s)
           Good(r) == Kept(s, it[r]) /\ Registered(it[r].mq) \cap r = {}
           Bad == {n \in Nat : \E r \in SUBSET S : Cardinality(r) = n /\ ~Good(r)}
           Pick(r) == CHOOSE f \in r : TRUE
<1>1. Cleanup(S) = it[S]
  BY Zenon DEF Cleanup, FoldSet, MapThenFoldSet, Cleaning
<1>2. Cleaning(it, SUBSET S, s)
  BY CleanupExists, Zenon
<1> HIDE DEF it
<1>3. \A r \in SUBSET S : it[r] = IF r = {} THEN s ELSE DropConnection(it[r \ {Pick(r)}], Pick(r))
  BY <1>2 DEF Cleaning
<1>4. \A r \in SUBSET S : IsFiniteSet(r) /\ Cardinality(r) \in Nat
  BY FS_Subset, FS_CardinalityType
<1> HIDE DEF Good, Pick
<1> SUFFICES Bad = {}
  BY <1>1, <1>4 DEF Good
<1> SUFFICES ASSUME Bad # {} PROVE FALSE
  OBVIOUS
<1> DEFINE b == Min(Bad)
<1>5. b \in Bad /\ \A n \in Bad : b <= n
  BY LeastOfNaturals
<1> HIDE DEF b
<1>6. PICK r \in SUBSET S : Cardinality(r) = b /\ ~Good(r)
  BY <1>5
<1>7. r # {}
  <2> SUFFICES ASSUME r = {} PROVE FALSE
    OBVIOUS
  <2>1. it[r] = s
    BY <1>3
  <2>2. Kept(s, s)
    BY NowIsState, KeptAtFirst
  <2> QED BY <1>6, <2>1, <2>2 DEF Good
<1> DEFINE f == Pick(r)  q == r \ {f}
<1>8. f \in r
  BY <1>7 DEF Pick
<1> HIDE DEF f
<1>9. q \in SUBSET S /\ Cardinality(q) = b - 1 /\ b - 1 \in Nat
  <2>1. Cardinality(q) = Cardinality(r) - 1
    BY <1>4, <1>8, FS_RemoveElement
  <2>2. q \in SUBSET S
    OBVIOUS
  <2> HIDE DEF q
  <2>3. Cardinality(q) \in Nat
    BY <1>4, <2>2
  <2> QED BY <1>6, <2>1, <2>2, <2>3
<1>10. Good(q)
  <2>1. b - 1 \notin Bad
    BY <1>5, <1>9
  <2> QED BY <1>9, <2>1
<1>11. it[r] = DropConnection(it[q], f)
  BY <1>3, <1>7 DEF f
<1>12. Kept(s, it[q]) /\ Registered(it[q].mq) \cap q = {}
  BY <1>10 DEF Good
<1> HIDE DEF q
<1>13. Kept(it[q], it[r]) /\ f \notin Registered(it[r].mq)
  BY <1>11, <1>12, DropConnectionKeeps DEF Kept
<1>14. Kept(s, it[r])
  BY <1>12, <1>13, KeptAgain
<1>15. Registered(it[r].mq) \cap r = {}
  BY <1>12, <1>13 DEF Kept, q
<1> QED BY <1>6, <1>14, <1>15 DEF Good

ServerInv == GameInv /\ IsFiniteSet(lastCommunicationTs) /\ QueuesAreAddressed

\* The server adds to the story of the game that a datagram may put the next game on air.
Sends == Unmoved /\ SameLog(AdvanceGame(mq), mq')

\* The timer's tick: the silent sockets lose their queues with their addresses.
LEMMA TickKeeps ==
  ASSUME ServerInv, Tick
  PROVE  ServerInv' /\ Quiet
<1>1. PICK silent \in SUBSET lastCommunicationTs :
         /\ Become(Cleanup(silent))
         /\ clientAddrs' = clientAddrs \ silent
         /\ lastCommunicationTs' = lastCommunicationTs \ silent
  BY DEF Tick
<1> DEFINE d == Cleanup(silent)
<1>2. IsFiniteSet(silent) /\ GameInv
  BY FS_Subset DEF ServerInv
<1>3. Kept(Connections, d) /\ Registered(d.mq) \cap silent = {}
  BY <1>2, CleanupKeeps
<1> HIDE DEF d
<1>4. /\ IsState(d) /\ Owned(d)
      /\ gameStarted => GoesOn(players, d.players)
      /\ ~gameStarted => Idle(d.players)
      /\ Registered(d.mq) \subseteq Registered(mq)
  BY <1>2, <1>3 DEF Kept, Connections, GameInv, SameWorms, GoesOn
<1>5. /\ loop = "none" /\ UNCHANGED gameVars /\ UNCHANGED <<undefined, running>>
      /\ \/ UNCHANGED <<loop, todo>>
         \/ gameStarted /\ loop' = "turn" /\ todo' = {n \in DOMAIN players : Plays(n)}
  BY DEF Tick, Receives
<1>6. Become(d)
  BY <1>1 DEF d
<1>7. GameInv' /\ Unmoved
  <2>1. Fate
    BY <1>2, <1>5 DEF Fate, GameInv
  <2> QED BY <1>2, <1>4, <1>5, <1>6, <2>1, ConnectionsChange
<1>8. Registered(mq') \subseteq Registered(mq) \ silent
  BY <1>3, <1>4, <1>6 DEF Become
<1>9. QueuesAreAddressed'
  BY <1>1, <1>8 DEF ServerInv, QueuesAreAddressed, Registered
<1>10. IsFiniteSet(lastCommunicationTs')
  <2>1. lastCommunicationTs' \in SUBSET lastCommunicationTs
    BY <1>1
  <2> QED BY <2>1, FS_Subset DEF ServerInv
<1>11. SameLog(mq, mq')
  BY <1>3, <1>6 DEF Kept, Connections, Become
<1> QED BY <1>7, <1>9, <1>10, <1>11 DEF ServerInv, Quiet

\* Sending a datagram and its acknowledgement register nobody.
LEMMA SendMessageKeeps ==
  ASSUME GameInv, SendMessage
  PROVE  GameInv' /\ (Quiet \/ Sends) /\ Registered(mq') = Registered(mq)
<1>1. /\ loop = "none" /\ ~IsEmpty(mq)
      /\ UNCHANGED <<gameVars, players, loop, todo>> /\ UNCHANGED watchers
      /\ MayBreak(DOMAIN mq.queues = {}, "nobodyToServe")
  BY DEF SendMessage, Receives
<1>2. Managed(mq)
  BY NowOwned
<1>3. /\ Managed(mq') /\ Registered(mq') = Registered(mq)
      /\ SameLog(mq, mq') \/ SameLog(AdvanceGame(mq), mq')
  <2>1. CASE Registered(mq) = {}
    <3> DEFINE F == Registered(mq)
    <3>1. mq' = AdvanceGame(mq)
      BY <2>1 DEF SendMessage, Registered
    <3>2. mq \in ManagerOf(F, Nat, EventData) /\ Consistent(mq) /\ F \in SUBSET Fingerprint
      BY <1>2, ManagedMeans
    <3> HIDE DEF F
    <3>3. AdvanceGame(mq) \in ManagerOf(F, Nat, EventData) /\ Consistent(AdvanceGame(mq))
      BY <3>2, AdvanceGameConsistent
    <3>4. Managed(mq') /\ Registered(mq') = F
      BY <3>1, <3>2, <3>3, IsManaged
    <3> QED BY <3>1, <3>4 DEF F, SameLog
  <2>2. CASE Registered(mq) # {}
    <3> DEFINE F == Registered(mq)  q == AfterGetNextMessage(mq)
    <3>1. PICK m \in NextMessages(mq) : mq' \in {q, Ack(q, m.to, m.ack)}
      BY <2>2 DEF SendMessage, Registered
    <3>2. mq \in ManagerOf(F, Nat, EventData) /\ Consistent(mq) /\ F \in SUBSET Fingerprint
      BY <1>2, ManagedMeans
    <3> HIDE DEF F
    <3>3. q \in ManagerOf(F, Nat, EventData) /\ Consistent(q) /\ m.to \in F /\ m.ack \in Nat
      BY <1>1, <2>2, <3>2, SendConsistent DEF F
    <3> HIDE DEF q
    <3>4. Ack(q, m.to, m.ack) \in ManagerOf(F, Nat, EventData) /\ Consistent(Ack(q, m.to, m.ack))
      BY <3>3, AckConsistent
    <3>5. mq' \in ManagerOf(F, Nat, EventData) /\ Consistent(mq')
      BY <3>1, <3>3, <3>4
    <3>6. SameLog(AdvanceGame(mq), q)
      <4> DEFINE a == AdvanceGame(mq)
      <4>1. a \in ManagerOf(F, Nat, EventData)
        BY <3>2, AdvanceGameConsistent
      <4>2. q = [a EXCEPT !.clientsToServeSchedule = Rotate(@, TurnOf(a))]
        BY DEF q, AfterGetNextMessage
      <4> HIDE DEF a
      <4> QED BY <4>1, <4>2 DEF ManagerOf, SameLog, a
    <3>7. SameLog(q, Ack(q, m.to, m.ack))
      BY <3>3 DEF Ack, ManagerOf, SameLog
    <3>8. SameLog(AdvanceGame(mq), mq')
      BY <3>1, <3>6, <3>7 DEF SameLog
    <3> QED BY <3>2, <3>5, <3>8, IsManaged DEF F
  <2> QED BY <2>1, <2>2
<1>4. Fate
  BY <1>1, BreakIsFate DEF Undefined
<1>5. GameInv' /\ Unmoved
  BY <1>1, <1>3, <1>4, NowOwned, QueuesChange
<1> QED BY <1>3, <1>5 DEF Quiet, Sends

\* A message puts its sender into the tables, whom alone it may register.
LEMMA ReadMessageKeeps ==
  ASSUME ServerInv, NEW f \in Fingerprint,
         NoteSender(f), GameInv', Registered(mq') \subseteq Registered(mq) \cup {f}
  PROVE  ServerInv'
<1>1. clientAddrs' = clientAddrs \cup {f} /\ lastCommunicationTs' = lastCommunicationTs \cup {f}
  BY DEF NoteSender
<1>2. IsFiniteSet(lastCommunicationTs')
  BY <1>1, FS_AddElement DEF ServerInv
<1>3. QueuesAreAddressed'
  BY <1>1 DEF ServerInv, QueuesAreAddressed, Registered
<1> QED BY <1>2, <1>3 DEF ServerInv

\* Where the tables stay and no queue is added
LEMMA SameTables ==
  ASSUME ServerInv, UNCHANGED tables, GameInv', Registered(mq') \subseteq Registered(mq)
  PROVE  ServerInv'
BY DEF ServerInv, QueuesAreAddressed, Registered, tables

\* The server's invariant is kept, holds at first, and implies the properties.
LEMMA ServerInvKept == ServerInv /\ [ServerNext]_serverVars => ServerInv' /\ (Story \/ Sends)
<1> SUFFICES ASSUME ServerInv, [ServerNext]_serverVars PROVE ServerInv' /\ (Story \/ Sends)
  OBVIOUS
<1>1. GameInv
  BY DEF ServerInv
<1>2. ASSUME NEW f \in Fingerprint, NEW m \in Message, ReadMessage(f, m) PROVE ServerInv' /\ Story
  <2>1. HandleMessage(f, m) /\ NoteSender(f)
    BY <1>2 DEF ReadMessage
  <2>2. GameInv' /\ Story /\ Registered(mq') \subseteq Registered(mq) \cup {f}
    BY <1>1, <2>1, HandleMessageKeeps DEF Story
  <2> QED BY <2>1, <2>2, ReadMessageKeeps
<1>3. ASSUME NEW f \in Fingerprint, ReadNonsense(f) PROVE ServerInv' /\ Story
  <2>1. NoteSender(f) /\ UNCHANGED vars
    BY <1>3 DEF ReadNonsense
  <2>2. GameInv' /\ Quiet /\ mq' = mq
    BY <1>1, <2>1, GameInvUnchanged DEF vars
  <2> QED BY <2>1, <2>2, ReadMessageKeeps DEF Story
<1>4. CASE Tick
  BY <1>4, TickKeeps DEF Story
<1>5. CASE PlacePlayer /\ UNCHANGED tables
  BY <1>1, <1>5, PlacePlayerKeeps, SameTables
<1>6. CASE MovePlayer /\ UNCHANGED tables
  BY <1>1, <1>6, MovePlayerKeeps, SameTables
<1>7. CASE SendMessage
  <2>1. UNCHANGED tables
    BY <1>7 DEF SendMessage
  <2> QED BY <1>1, <1>7, <2>1, SendMessageKeeps, SameTables DEF Story
<1>8. CASE UNCHANGED serverVars
  <2>1. UNCHANGED vars /\ UNCHANGED tables
    BY <1>8 DEF serverVars
  <2>2. GameInv' /\ Quiet /\ mq' = mq
    BY <1>1, <2>1, GameInvUnchanged DEF vars
  <2> QED BY <2>1, <2>2, SameTables DEF Story
<1> QED BY <1>2, <1>3, <1>4, <1>5, <1>6, <1>7, <1>8 DEF ServerNext

LEMMA ServerInvFirst == ServerInit => ServerInv
<1> SUFFICES ASSUME ServerInit PROVE ServerInv
  OBVIOUS
<1>1. Init /\ lastCommunicationTs = {}
  BY DEF ServerInit
<1>2. PICK id \in InitialGameIds : mq = NewMQManager(id)
  BY <1>1 DEF Init
<1>3. DOMAIN mq.queues = {}
  BY <1>2 DEF NewMQManager, EmptyMap
<1> QED BY <1>1, <1>3, GameInvFirst, FS_EmptySet DEF ServerInv, QueuesAreAddressed

LEMMA ServerInvHolds == ServerSpec => []ServerInv
BY ServerInvFirst, ServerInvKept, PTL DEF ServerSpec

LEMMA ServerInvMeans ==
  ASSUME ServerInv
  PROVE  /\ QueuesAreAddressed
         /\ AliveCounted /\ WormsAreNumbered /\ NoMissedStart /\ NoOrphanQueues /\ WatchersHaveQueues
BY GameInvMeans DEF ServerInv

\* Whoever has a queue has an address, and is timed: the look-up in sendMessageToClient finds
\* the recipient, and a client that falls silent does not keep the next game waiting.
THEOREM AddressesCorrect == ServerSpec => []QueuesAreAddressed
BY ServerInvHolds, ServerInvMeans, PTL

\* In the server, where clients expire together and datagrams go out between the turns, the
\* game keeps what it promises on its own.
THEOREM GameInServer ==
  ServerSpec => [](AliveCounted /\ WormsAreNumbered /\ NoMissedStart /\ NoOrphanQueues /\ WatchersHaveQueues)
BY ServerInvHolds, ServerInvMeans, PTL

-----------------------------------------------------------------------------
(* The events of one game *)

DataOf(events) == [i \in DOMAIN events |-> events[i].data]

\* The events of the game id, on air or waiting
EventsOf(m, id) ==
    IF id = m.currentlyBroadcastedGameId THEN DataOf(m.currentGameEvents)
    ELSE IF Waiting(m, id) = 0 THEN <<>>
    ELSE m.nextGames[Waiting(m, id)].events

WaitsAt(games, id, w) ==
    \/ w = 0 /\ \A i \in 1 .. Len(games) : games[i].id # id
    \/ w \in 1 .. Len(games) /\ games[w].id = id /\ \A i \in 1 .. w - 1 : games[i].id # id

\* Waiting finds the first of the games that has the identifier.
LEMMA WaitingIs ==
  ASSUME NEW m, NEW id
  PROVE  WaitsAt(m.nextGames, id, Waiting(m, id))
<1> DEFINE games == m.nextGames  I == {i \in 1 .. Len(games) : games[i].id = id}
<1>1. Waiting(m, id) = IF I # {} THEN Min(I) ELSE 0
  BY DEF Waiting, SelectInSeq
<1>2. CASE I = {}
  BY <1>1, <1>2 DEF WaitsAt
<1>3. CASE I # {}
  <2>1. I \in SUBSET Nat
    OBVIOUS
  <2>2. Min(I) \in I /\ \A j \in I : Min(I) <= j
    BY <1>3, <2>1, LeastOfNaturals
  <2> DEFINE w == Min(I)
  <2> HIDE DEF w
  <2>3. w \in 1 .. Len(games) /\ games[w].id = id
    BY <2>2 DEF w
  <2>4. ASSUME NEW i \in 1 .. w - 1 PROVE games[i].id # id
    <3>1. w \in Nat
      BY <2>1, <2>2 DEF w
    <3>2. i \notin I
      BY <2>2, <3>1 DEF w
    <3>3. i \in 1 .. Len(games)
      BY <2>3, <3>1
    <3> QED BY <3>2, <3>3
  <2> QED BY <1>1, <1>3, <2>3, <2>4 DEF WaitsAt, w
<1> QED BY <1>2, <1>3

LEMMA WaitsOnce ==
  ASSUME NEW games, NEW id, NEW v, NEW w, Len(games) \in Nat, WaitsAt(games, id, v), WaitsAt(games, id, w)
  PROVE  v = w
<1>1. ASSUME v \in 1 .. Len(games), w \in 1 .. Len(games) PROVE ~(v < w) /\ ~(w < v)
  <2>1. v \in Nat \ {0} /\ w \in Nat \ {0}
    BY <1>1
  <2>2. v < w => v \in 1 .. w - 1
    BY <2>1
  <2>3. w < v => w \in 1 .. v - 1
    BY <2>1
  <2> QED BY <2>1, <2>2, <2>3 DEF WaitsAt
<1> QED BY <1>1 DEF WaitsAt

\* The events of a game, found among all games as in the module GameManager
LEMMA LogIsEvents ==
  ASSUME Managed(mq)
  PROVE  Log = EventsOf(mq, gameId)
<1> DEFINE games == mq.nextGames  id == gameId
           first == [id |-> mq.currentlyBroadcastedGameId, events |-> DataOf(mq.currentGameEvents)]
           all == <<first>> \o games
           I == {i \in 1 .. Len(all) : all[i].id = id}
           w == Waiting(mq, id)
<1>1. games \in Seq(WaitingGame(Nat, EventData))
  BY ManagedMeans DEF ManagerOf
<1>2. /\ Len(games) \in Nat /\ Len(all) = Len(games) + 1 /\ all[1] = first
      /\ \A i \in 1 .. Len(games) : all[i + 1] = games[i]
  <2> DEFINE G == WaitingGame(Nat, EventData) \cup {first}
  <2>1. games \in Seq(G) /\ <<first>> \in Seq(G)
    BY <1>1
  <2> HIDE DEF G, first, games
  <2> QED BY <2>1
<1>3. Games = all
  BY DEF Games, DataOf
<1>4. Log = IF I # {} THEN all[Min(I)].events ELSE <<>>
  <2>1. SelectInSeq(Games, LAMBDA g : g.id = gameId) = IF I # {} THEN Min(I) ELSE 0
    BY <1>3 DEF SelectInSeq
  <2>2. I # {} => Min(I) # 0
    <3>1. I \in SUBSET Nat
      OBVIOUS
    <3>2. I # {} => Min(I) \in I
      BY <3>1, LeastOfNaturals
    <3>3. 0 \notin I
      OBVIOUS
    <3> HIDE DEF I
    <3> QED BY <3>2, <3>3
  <2> HIDE DEF I, all
  <2> QED BY <1>3, <2>1, <2>2 DEF Log
<1>5. I \in SUBSET Nat
  OBVIOUS
<1>6. WaitsAt(games, id, w)
  BY WaitingIs
<1> HIDE DEF all, games, w, first
<1>7. CASE id = mq.currentlyBroadcastedGameId
  <2>1. 1 \in I
    BY <1>2, <1>7 DEF first
  <2>2. Min(I) \in I /\ Min(I) <= 1
    BY <1>5, <2>1, LeastOfNaturals
  <2>3. Min(I) = 1
    <3> DEFINE k == Min(I)
    <3> HIDE DEF k
    <3>1. k \in 1 .. Len(all) /\ k <= 1
      BY <2>2 DEF k
    <3>2. k = 1
      BY <1>2, <3>1
    <3> QED BY <3>2 DEF k
  <2> QED BY <1>2, <1>4, <1>7, <2>1, <2>3 DEF EventsOf, first
<1>8. CASE id # mq.currentlyBroadcastedGameId
  <2>1. 1 \notin I
    BY <1>2, <1>8 DEF first
  <2>2. \A i \in I : i - 1 \in 1 .. Len(games) /\ games[i - 1].id = id
    <3> TAKE i \in I
    <3>1. i \in 1 .. Len(games) + 1 /\ i # 1 /\ all[i].id = id
      BY <1>2, <2>1
    <3>2. i - 1 \in 1 .. Len(games) /\ i = (i - 1) + 1
      BY <1>2, <3>1
    <3> QED BY <1>2, <3>1, <3>2
  <2>3. CASE w = 0
    <3>1. I = {}
      BY <1>2, <1>6, <2>2, <2>3 DEF WaitsAt
    <3> QED BY <1>4, <1>8, <2>3, <3>1 DEF EventsOf, w
  <2>4. CASE w # 0
    <3>1. w \in 1 .. Len(games) /\ games[w].id = id /\ \A i \in 1 .. w - 1 : games[i].id # id
      BY <1>6, <2>4 DEF WaitsAt
    <3>2. w + 1 \in I
      BY <1>2, <3>1
    <3> DEFINE k == Min(I)
    <3>3. k \in I /\ k <= w + 1
      BY <1>5, <3>2, LeastOfNaturals
    <3> HIDE DEF k
    <3>4. k - 1 \in 1 .. Len(games) /\ games[k - 1].id = id /\ k \in 1 .. Len(games) + 1
      BY <1>2, <2>2, <3>3
    <3> HIDE DEF I
    <3>5. k = w + 1
      <4>1. k - 1 \notin 1 .. w - 1
        BY <3>1, <3>4
      <4> QED BY <1>2, <3>1, <3>3, <3>4, <4>1
    <3> QED BY <1>2, <1>4, <1>8, <2>4, <3>1, <3>2, <3>5 DEF EventsOf, k, w, games
  <2> QED BY <2>3, <2>4
<1> QED BY <1>7, <1>8

LEMMA SameEvents ==
  ASSUME NEW m, NEW k, SameLog(m, k)
  PROVE  \A h : EventsOf(k, h) = EventsOf(m, h)
<1>1. /\ k.currentGameEvents = m.currentGameEvents /\ k.nextGames = m.nextGames
      /\ k.currentlyBroadcastedGameId = m.currentlyBroadcastedGameId
  BY DEF SameLog
<1>2. \A h : Waiting(k, h) = Waiting(m, h)
  BY <1>1 DEF Waiting
<1> QED BY <1>1, <1>2 DEF EventsOf

LEMMA DataOfIs ==
  ASSUME NEW es \in Seq(NumberedEvent(EventData))
  PROVE  /\ DataOf(es) \in Seq(EventData) /\ Len(DataOf(es)) = Len(es)
         /\ \A i \in 1 .. Len(es) : DataOf(es)[i] = es[i].data
<1>1. \A i \in 1 .. Len(es) : es[i] \in NumberedEvent(EventData)
  OBVIOUS
<1>2. \A x \in NumberedEvent(EventData) : x.data \in EventData
  BY DEF NumberedEvent
<1> QED BY <1>1, <1>2 DEF DataOf

LEMMA DataAppended ==
  ASSUME NEW es \in Seq(NumberedEvent(EventData)), NEW e \in EventData
  PROVE  DataOf(Append(es, [no |-> Len(es), data |-> e])) = Append(DataOf(es), e)
<1> DEFINE x == [no |-> Len(es), data |-> e]
<1>1. x \in NumberedEvent(EventData) /\ x.data = e
  BY DEF NumberedEvent
<1> HIDE DEF x
<1> DEFINE r == Append(es, x)  d == DataOf(r)
<1>2. /\ r \in Seq(NumberedEvent(EventData)) /\ Len(r) = Len(es) + 1
      /\ \A i \in 1 .. Len(es) : r[i] = es[i] /\ r[Len(es) + 1] = x
  BY <1>1
<1>3. r[Len(es) + 1] = x
  BY <1>1
<1> HIDE DEF r
<1>4. d \in Seq(EventData) /\ Len(d) = Len(es) + 1 /\ \A i \in 1 .. Len(es) + 1 : d[i] = r[i].data
  BY <1>2, DataOfIs
<1> HIDE DEF d
<1> DEFINE a == Append(DataOf(es), e)
<1>5. /\ a \in Seq(EventData) /\ Len(a) = Len(es) + 1
      /\ \A i \in 1 .. Len(es) : a[i] = DataOf(es)[i]
      /\ a[Len(es) + 1] = e
  BY DataOfIs
<1> HIDE DEF a
<1>6. \A i \in 1 .. Len(es) + 1 : d[i] = a[i]
  <2> TAKE i \in 1 .. Len(es) + 1
  <2>1. CASE i = Len(es) + 1
    BY <1>1, <1>3, <1>4, <1>5, <2>1
  <2>2. CASE i # Len(es) + 1
    <3>1. i \in 1 .. Len(es)
      BY <2>2
    <3> QED BY <1>2, <1>4, <1>5, <3>1, DataOfIs
  <2> QED BY <2>1, <2>2
<1>7. d = a
  BY <1>4, <1>5, <1>6, SeqEqual
<1> QED BY <1>7 DEF a, d, r, x

LEMMA EventsTyped ==
  ASSUME NEW m, Managed(m), NEW id
  PROVE  EventsOf(m, id) \in Seq(EventData)
<1>1. /\ m.currentGameEvents \in Seq(NumberedEvent(EventData))
      /\ m.nextGames \in Seq(WaitingGame(Nat, EventData))
  BY ManagedMeans DEF ManagerOf
<1>2. Waiting(m, id) # 0 => Waiting(m, id) \in 1 .. Len(m.nextGames)
  BY WaitingIs DEF WaitsAt
<1>3. Waiting(m, id) # 0 => m.nextGames[Waiting(m, id)] \in WaitingGame(Nat, EventData)
  BY <1>1, <1>2
<1>4. \A g \in WaitingGame(Nat, EventData) : g.events \in Seq(EventData)
  BY DEF WaitingGame
<1> QED BY <1>1, <1>3, <1>4, DataOfIs DEF EventsOf

\* schedule puts the event at the end of its game and changes no other.
LEMMA ScheduleAdds ==
  ASSUME NEW m, Managed(m), NEW id, NEW e \in EventData
  PROVE  /\ EventsOf(Schedule(m, id, e), id) = Append(EventsOf(m, id), e)
         /\ \A h : h # id => EventsOf(Schedule(m, id, e), h) = EventsOf(m, h)
<1> DEFINE k == Schedule(m, id, e)  c == m.currentlyBroadcastedGameId
           es == m.currentGameEvents  games == m.nextGames  w == Waiting(m, id)
<1>1. k.currentlyBroadcastedGameId = c
  BY ScheduleParts
<1>2. k.currentGameEvents = CurrentWith(m, id, e) /\ k.nextGames = NextWith(m, id, e)
  BY ScheduleParts
<1>3. es \in Seq(NumberedEvent(EventData)) /\ games \in Seq(WaitingGame(Nat, EventData))
  BY ManagedMeans DEF ManagerOf
<1>4. \A h : WaitsAt(games, h, Waiting(m, h)) /\ WaitsAt(k.nextGames, h, Waiting(k, h))
  BY WaitingIs
<1>5. Len(games) \in Nat
  BY <1>3
<1> HIDE DEF k, c, es, games, w
<1>6. CASE id = c
  <2>1. k.currentGameEvents = Append(es, [no |-> Len(es), data |-> e]) /\ k.nextGames = games
    BY <1>2, <1>6 DEF CurrentWith, NextWith, c, es, games
  <2>2. DataOf(k.currentGameEvents) = Append(DataOf(es), e)
    BY <1>3, <2>1, DataAppended
  <2>3. \A h : Waiting(k, h) = Waiting(m, h)
    BY <2>1 DEF Waiting, games
  <2> QED BY <1>1, <1>6, <2>1, <2>2, <2>3 DEF EventsOf, c, es, games, k
<1>7. CASE id # c /\ w # 0
  <2> DEFINE g == [games[w] EXCEPT !.events = Append(@, e)]
  <2>1. k.currentGameEvents = es /\ k.nextGames = [games EXCEPT ![w] = g]
    BY <1>2, <1>7 DEF CurrentWith, NextWith, c, es, games, w
  <2>2. w \in 1 .. Len(games) /\ games[w].id = id
    BY <1>4, <1>7 DEF WaitsAt, w
  <2>3. games[w] \in WaitingGame(Nat, EventData)
    BY <1>3, <2>2
  <2>4. g.id = id /\ g.events = Append(games[w].events, e) /\ g \in [id : Nat, events : Seq(EventData)]
    BY <2>2, <2>3 DEF WaitingGame
  <2> HIDE DEF g
  <2> DEFINE later == k.nextGames
  <2>5. /\ Len(later) = Len(games)
        /\ \A i \in 1 .. Len(games) : later[i] = IF i = w THEN g ELSE games[i]
    BY <1>3, <2>1
  <2> HIDE DEF later
  <2>6. \A i \in 1 .. Len(games) : later[i].id = games[i].id
    BY <2>2, <2>4, <2>5
  <2>7. \A h : Waiting(k, h) = Waiting(m, h)
    <3> TAKE h
    <3>1. WaitsAt(games, h, Waiting(k, h))
      <4>1. WaitsAt(later, h, Waiting(k, h))
        BY <1>4 DEF later
      <4> DEFINE v == Waiting(k, h)
      <4> HIDE DEF v
      <4>2. v \in 1 .. Len(games) => \A i \in 1 .. v - 1 : i \in 1 .. Len(games)
        BY <1>5
      <4>3. WaitsAt(later, h, v)
        BY <4>1 DEF v
      <4>4. WaitsAt(games, h, v)
        BY <2>5, <2>6, <4>2, <4>3 DEF WaitsAt
      <4> QED BY <4>4 DEF v
    <3> QED BY <1>4, <1>5, <3>1, WaitsOnce
  <2>8. EventsOf(k, id) = g.events
    BY <1>1, <1>7, <2>2, <2>5, <2>7 DEF EventsOf, w, later
  <2>9. EventsOf(m, id) = games[w].events
    BY <1>7 DEF EventsOf, w, c, games
  <2>10. ASSUME NEW h, h # id PROVE EventsOf(k, h) = EventsOf(m, h)
    <3>1. Waiting(m, h) # 0 => Waiting(m, h) \in 1 .. Len(games) /\ games[Waiting(m, h)].id = h
      BY <1>4 DEF WaitsAt
    <3>2. Waiting(m, h) # w
      BY <1>7, <2>2, <2>10, <3>1
    <3>3. Waiting(m, h) # 0 => later[Waiting(m, h)] = games[Waiting(m, h)]
      BY <2>5, <3>1, <3>2
    <3> QED BY <1>1, <2>1, <2>7, <3>3 DEF EventsOf, c, es, games, later
  <2> QED BY <2>4, <2>8, <2>9, <2>10 DEF k
<1>8. CASE id # c /\ w = 0
  <2> DEFINE g == [id |-> id, events |-> <<e>>]  n == Len(games)
  <2>1. k.currentGameEvents = es /\ k.nextGames = Append(games, g)
    BY <1>2, <1>8 DEF CurrentWith, NextWith, c, es, games, w
  <2> DEFINE later == k.nextGames
  <2>2. /\ Len(later) = n + 1 /\ later[n + 1] = g
        /\ \A i \in 1 .. n : later[i] = games[i]
    BY <1>3, <2>1
  <2>3. g.id = id /\ g.events = <<e>>
    OBVIOUS
  <2> HIDE DEF later, g
  <2>4. \A i \in 1 .. n : games[i].id # id
    BY <1>4, <1>5, <1>8 DEF WaitsAt, w
  <2> HIDE DEF n
  <2>5. n \in Nat
    BY <1>5 DEF n
  <2>6. Waiting(k, id) = n + 1
    <3>1. WaitsAt(later, id, n + 1)
      BY <2>2, <2>3, <2>4, <2>5 DEF WaitsAt
    <3> QED BY <1>4, <2>2, <2>5, <3>1, WaitsOnce DEF later
  <2>7. EventsOf(k, id) = <<e>> /\ EventsOf(m, id) = <<>>
    BY <1>1, <1>8, <2>2, <2>3, <2>5, <2>6 DEF EventsOf, w, c, later
  <2>8. ASSUME NEW h, h # id PROVE EventsOf(k, h) = EventsOf(m, h)
    <3> DEFINE v == Waiting(m, h)
    <3>1. WaitsAt(games, h, v) /\ WaitsAt(later, h, Waiting(k, h))
      BY <1>4 DEF later
    <3> HIDE DEF v
    <3>2. WaitsAt(later, h, v)
      <4>1. v \in 1 .. n => v \in 1 .. n + 1 /\ \A i \in 1 .. v - 1 : i \in 1 .. n
        BY <2>5
      <4>2. \A i \in 1 .. n + 1 : i # n + 1 => i \in 1 .. n
        BY <2>5
      <4>3. later[n + 1].id # h
        BY <2>2, <2>3, <2>8
      <4> QED BY <2>2, <3>1, <4>1, <4>2, <4>3 DEF WaitsAt, n
    <3>3. Waiting(k, h) = v
      BY <2>2, <2>5, <3>1, <3>2, WaitsOnce
    <3>4. v # 0 => later[v] = games[v]
      BY <2>2, <3>1 DEF WaitsAt, n
    <3> QED BY <1>1, <2>1, <3>3, <3>4 DEF EventsOf, v, c, es, games, later
  <2> QED BY <2>7, <2>8 DEF k
<1> QED BY <1>6, <1>7, <1>8

-----------------------------------------------------------------------------
(* The tale of a game *)

PixelsIn(L) == {i \in DOMAIN L : L[i].type = "PIXEL"}

EliminatedIn(L) == {L[i].number : i \in {j \in DOMAIN L : L[j].type = "PLAYER_ELIMINATED"}}

\* One NEW_GAME, at the beginning, with this many names; just these pixels, each once; nothing
\* of a worm after its elimination.
Tale(L, count, pixels) ==
    /\ L \in Seq(EventData) /\ L # <<>>
    /\ \A i \in DOMAIN L : L[i].type = "NEW_GAME" <=> i = 1
    /\ Len(L[1].names) = count
    /\ {L[i].pixel : i \in PixelsIn(L)} = pixels
    /\ \A i, j \in PixelsIn(L) : L[i].pixel = L[j].pixel => i = j
    /\ \A i, j \in DOMAIN L :
         /\ i < j
         /\ L[i].type = "PLAYER_ELIMINATED"
         /\ L[j].type \in {"PIXEL", "PLAYER_ELIMINATED"}
         => L[i].number # L[j].number

GoesOnIn(L) == \A i \in DOMAIN L : L[i].type # "GAME_OVER"

IsOverIn(L) == \A i \in DOMAIN L : L[i].type = "GAME_OVER" <=> i = Len(L)

\* The pixels and the dead after another event
PixelsWith(pixels, e) == IF e.type = "PIXEL" THEN pixels \cup {e.pixel} ELSE pixels

EliminatedWith(numbers, e) == IF e.type = "PLAYER_ELIMINATED" THEN numbers \cup {e.number} ELSE numbers

\* Any other event may follow that takes no told pixel and is about no dead worm.
LEMMA TaleGoesOn ==
  ASSUME NEW L, NEW c, NEW S, Tale(L, c, S), GoesOnIn(L),
         NEW e \in EventData, e.type # "NEW_GAME",
         e.type = "PIXEL" => e.pixel \notin S,
         e.type \in {"PIXEL", "PLAYER_ELIMINATED"} => e.number \notin EliminatedIn(L),
         NEW M, M = Append(L, e)
  PROVE  /\ Tale(M, c, PixelsWith(S, e))
         /\ EliminatedIn(M) = EliminatedWith(EliminatedIn(L), e)
         /\ e.type = "GAME_OVER" => IsOverIn(M)
         /\ e.type # "GAME_OVER" => GoesOnIn(M)
<1> DEFINE T == PixelsWith(S, e)  E == EliminatedWith(EliminatedIn(L), e)
<1> DEFINE n == Len(L)
<1>1. L \in Seq(EventData) /\ n \in Nat /\ n # 0 /\ DOMAIN L = 1 .. n
  BY DEF Tale
<1>2. /\ M \in Seq(EventData) /\ Len(M) = n + 1 /\ DOMAIN M = 1 .. n + 1
      /\ M[n + 1] = e /\ \A i \in 1 .. n : M[i] = L[i]
  BY <1>1
<1> HIDE DEF n
<1>3. \A i : i \in 1 .. n + 1 <=> i \in 1 .. n \/ i = n + 1
  BY <1>1
<1>4. 1 \in 1 .. n /\ n + 1 # 1 /\ n + 1 \notin 1 .. n /\ M # <<>>
  BY <1>1, <1>2
<1>5. \A i \in DOMAIN M : M[i].type = "NEW_GAME" <=> i = 1
  BY <1>1, <1>2, <1>3, <1>4 DEF Tale
<1>6. Len(M[1].names) = c
  BY <1>2, <1>4 DEF Tale
<1>7. PixelsIn(M) = IF e.type = "PIXEL" THEN PixelsIn(L) \cup {n + 1} ELSE PixelsIn(L)
  BY <1>1, <1>2, <1>3 DEF PixelsIn
<1>8. PixelsIn(L) \subseteq 1 .. n
  BY <1>1 DEF PixelsIn
<1>9. {M[i].pixel : i \in PixelsIn(M)} = T
  <2> DEFINE P == PixelsIn(L)  Q == PixelsIn(M)  R == {M[i].pixel : i \in Q}
  <2>1. \A x : x \in S <=> \E i \in P : L[i].pixel = x
    BY DEF Tale
  <2>2. \A x : x \in R <=> \E i \in Q : M[i].pixel = x
    OBVIOUS
  <2>3. \A i \in P : M[i].pixel = L[i].pixel
    BY <1>2, <1>8
  <2>4. Q = (IF e.type = "PIXEL" THEN P \cup {n + 1} ELSE P)
    BY <1>7
  <2> HIDE DEF P, Q, R
  <2>5. CASE e.type = "PIXEL"
    <3>1. Q = P \cup {n + 1} /\ M[n + 1] = e
      BY <1>2, <2>4, <2>5
    <3>2. \A x : x \in R <=> x \in S \/ x = e.pixel
      BY ONLY <3>1, <2>1, <2>2, <2>3
    <3>3. R = S \cup {e.pixel}
      BY <3>2
    <3> QED BY <2>5, <3>3 DEF R, Q, PixelsWith
  <2>6. CASE e.type # "PIXEL"
    <3>1. Q = P
      BY <2>4, <2>6
    <3>2. \A x : x \in R <=> x \in S
      BY ONLY <3>1, <2>1, <2>2, <2>3
    <3>3. R = S
      BY <3>2
    <3> QED BY <2>6, <3>3 DEF R, Q, PixelsWith
  <2> QED BY <2>5, <2>6
<1>10. \A i, j \in PixelsIn(M) : M[i].pixel = M[j].pixel => i = j
  <2>1. \A i \in PixelsIn(L) : L[i].pixel \in S
    BY DEF Tale
  <2>2. \A i, j \in PixelsIn(L) : M[i].pixel = M[j].pixel => i = j
    BY <1>2, <1>8 DEF Tale
  <2>3. e.type = "PIXEL" => \A i \in PixelsIn(L) : M[i].pixel # M[n + 1].pixel
    BY <1>2, <1>8, <2>1
  <2> QED
    <3> TAKE i, j \in PixelsIn(M)
    <3>1. CASE i \in PixelsIn(L) /\ j \in PixelsIn(L)
      BY <2>2, <3>1
    <3>2. CASE e.type = "PIXEL" /\ i = n + 1
      BY <1>7, <2>3, <3>2
    <3>3. CASE e.type = "PIXEL" /\ j = n + 1
      BY <1>7, <2>3, <3>3
    <3> QED BY <1>7, <3>1, <3>2, <3>3
<1>11. ASSUME NEW i \in DOMAIN M, NEW j \in DOMAIN M, i < j,
              M[i].type = "PLAYER_ELIMINATED", M[j].type \in {"PIXEL", "PLAYER_ELIMINATED"}
       PROVE  M[i].number # M[j].number
  <2>1. i \in 1 .. n
    BY <1>1, <1>2, <1>11
  <2>2. CASE j \in 1 .. n
    BY <1>1, <1>2, <1>11, <2>1, <2>2 DEF Tale
  <2>3. CASE j = n + 1
    <3>1. M[i].number \in EliminatedIn(L)
      BY <1>1, <1>2, <1>11, <2>1 DEF EliminatedIn
    <3> QED BY <1>2, <1>11, <2>3, <3>1
  <2> QED BY <1>2, <1>3, <2>2, <2>3
<1>12. Tale(M, c, T)
  BY <1>2, <1>4, <1>5, <1>6, <1>9, <1>10, <1>11 DEF Tale
<1>13. EliminatedIn(M) = E
  <2> DEFINE D == {j \in DOMAIN L : L[j].type = "PLAYER_ELIMINATED"}
             C == {j \in DOMAIN M : M[j].type = "PLAYER_ELIMINATED"}
             R == EliminatedIn(M)
  <2>1. C = IF e.type = "PLAYER_ELIMINATED" THEN D \cup {n + 1} ELSE D
    BY <1>1, <1>2, <1>3
  <2>2. \A i \in D : M[i].number = L[i].number
    BY <1>1, <1>2
  <2>3. \A x : x \in EliminatedIn(L) <=> \E i \in D : L[i].number = x
    BY DEF EliminatedIn
  <2>4. \A x : x \in R <=> \E i \in C : M[i].number = x
    BY DEF EliminatedIn
  <2> HIDE DEF C, D, R
  <2>5. CASE e.type = "PLAYER_ELIMINATED"
    <3>1. C = D \cup {n + 1} /\ M[n + 1] = e
      BY <1>2, <2>1, <2>5
    <3>2. \A x : x \in R <=> x \in EliminatedIn(L) \/ x = e.number
      BY ONLY <3>1, <2>2, <2>3, <2>4
    <3>3. R = EliminatedIn(L) \cup {e.number}
      BY <3>2
    <3> QED BY <2>5, <3>3 DEF R, EliminatedWith
  <2>6. CASE e.type # "PLAYER_ELIMINATED"
    <3>1. C = D
      BY <2>1, <2>6
    <3>2. \A x : x \in R <=> x \in EliminatedIn(L)
      BY ONLY <3>1, <2>2, <2>3, <2>4
    <3>3. R = EliminatedIn(L)
      BY <3>2
    <3> QED BY <2>6, <3>3 DEF R, EliminatedWith
  <2> QED BY <2>5, <2>6
<1>14. (e.type = "GAME_OVER" => IsOverIn(M)) /\ (e.type # "GAME_OVER" => GoesOnIn(M))
  BY <1>1, <1>2, <1>3, <1>4 DEF GoesOnIn, IsOverIn
<1> QED BY <1>12, <1>13, <1>14

\* The beginning
LEMMA TaleBegins ==
  ASSUME NEW s \in Seq(Name), NEW L, L = <<NewGame(s)>>
  PROVE  Tale(L, Len(s), {}) /\ GoesOnIn(L) /\ EliminatedIn(L) = {}
<1>1. NewGame(s) \in EventData /\ NewGame(s).type = "NEW_GAME" /\ NewGame(s).names = s
  BY EventTypes DEF NewGame
<1>2. L \in Seq(EventData) /\ Len(L) = 1 /\ DOMAIN L = {1} /\ L[1] = NewGame(s) /\ L # <<>>
  BY <1>1
<1>3. PixelsIn(L) = {} /\ EliminatedIn(L) = {} /\ GoesOnIn(L)
  BY <1>1, <1>2 DEF PixelsIn, EliminatedIn, GoesOnIn
<1> QED BY <1>1, <1>2, <1>3 DEF Tale

-----------------------------------------------------------------------------
(* The invariant *)

\* The numbers of all but these worms
NumbersBut(numbers, worms) == {numbers[n] : n \in DOMAIN numbers \ worms}

Latest == EventsOf(mq, gameId)

\* No events but the latest game's change.
Elsewhere == \A h : h # gameId' => EventsOf(mq', h) = EventsOf(mq, h)

\* The events of the latest game are its tale so far, and the dead in it are those that do not
\* live; no other game follows it, so that the next begins with nothing.
LogInv ==
    /\ gameStarted => gameId # 0
    /\ \A h \in Nat : h = 0 \/ h > gameId => EventsOf(mq, h) = <<>>
    /\ \E names \in SUBSET Name : playerNumberInGame = [n \in names |-> Number(n, names)]
    /\ gameId # 0 => Tale(Latest, Cardinality(DOMAIN playerNumberInGame), eatenPixels)
    /\ gameStarted => GoesOnIn(Latest) /\ EliminatedIn(Latest) = NumbersBut(playerNumberInGame, Alive)
    /\ gameId # 0 /\ ~gameStarted =>
         IsOverIn(Latest) /\ Cardinality(EliminatedIn(Latest)) + 1 = Cardinality(DOMAIN playerNumberInGame)

\* The worms' numbers tell them apart, and whoever is alive has one.
LEMMA NumbersDiffer ==
  ASSUME GameInv, LogInv
  PROVE  /\ IsFiniteSet(DOMAIN playerNumberInGame)
         /\ \A n \in DOMAIN playerNumberInGame : playerNumberInGame[n] \in Nat
         /\ \A n, k \in DOMAIN playerNumberInGame :
              playerNumberInGame[n] = playerNumberInGame[k] => n = k
         /\ gameStarted => Alive \subseteq DOMAIN playerNumberInGame
<1>1. PICK names \in SUBSET Name : playerNumberInGame = [n \in names |-> Number(n, names)]
  BY DEF LogInv
<1>2. names \in SUBSET Nat /\ IsFiniteSet(names)
  BY NamesAssumption, FS_Subset
<1>3. /\ \A n \in names : Number(n, names) \in Nat
      /\ \A n, k \in names : Number(n, names) = Number(k, names) => n = k
  BY <1>2, NumbersInOrder
<1>4. /\ DOMAIN playerNumberInGame = names
      /\ \A n \in names : playerNumberInGame[n] = Number(n, names)
  BY <1>1
<1>5. ASSUME gameStarted, NEW n \in Alive PROVE n \in DOMAIN playerNumberInGame
  BY <1>5, AliveAre DEF GameInv, LoopInv, WormsAreNumbered, Plays
<1>6. IsFiniteSet(DOMAIN playerNumberInGame)
  BY <1>2, <1>4
<1>7. \A n \in DOMAIN playerNumberInGame : playerNumberInGame[n] \in Nat
  BY <1>3, <1>4
<1>8. \A n, k \in DOMAIN playerNumberInGame : playerNumberInGame[n] = playerNumberInGame[k] => n = k
  BY <1>3, <1>4
<1> QED BY <1>5, <1>6, <1>7, <1>8

LEMMA LogUnmoved ==
  ASSUME GameInv, LogInv, Unmoved, \A h \in Nat : h = 0 \/ h >= gameId => EventsOf(mq', h) = EventsOf(mq, h)
  PROVE  LogInv'
<1>1. /\ UNCHANGED <<gameId, gameStarted, playerNumberInGame, eatenPixels>>
      /\ gameStarted => Alive' = Alive
  BY DEF Unmoved, gameVars
<1>2. gameId \in Nat /\ \A h \in Nat : h = 0 \/ h > gameId => h = 0 \/ h >= gameId
  BY DEF GameInv
<1>3. Latest' = Latest
  BY <1>1, <1>2 DEF Latest
<1> QED BY <1>1, <1>2, <1>3 DEF LogInv

LEMMA LogUnchanged ==
  ASSUME GameInv, LogInv, Quiet
  PROVE  LogInv' /\ Elsewhere
<1>1. \A h : EventsOf(mq', h) = EventsOf(mq, h)
  BY SameEvents DEF Quiet
<1> QED BY <1>1, LogUnmoved DEF Elsewhere, Quiet

LEMMA LogBegins ==
  ASSUME GameInv, LogInv, Begins
  PROVE  LogInv' /\ Elsewhere
<1>1. /\ gameId \in Nat /\ gameStarted' /\ gameId' = gameId + 1 /\ eatenPixels' = {}
      /\ Managed(mq)
  BY NowOwned DEF Begins, GameInv
<1>2. PICK names \in SUBSET Name :
         /\ playerNumberInGame' = [n \in names |-> Number(n, names)]
         /\ Alive' = names
         /\ SameLog(Schedule(mq, gameId', NewGame(InOrder(names))), mq')
  BY DEF Begins
<1> DEFINE s == InOrder(names)  id == gameId + 1
<1>3. s \in Seq(Name) /\ Len(s) = Cardinality(names)
  <2>1. names \in SUBSET Nat /\ IsFiniteSet(names)
    BY NamesAssumption, FS_Subset
  <2>2. s \in Seq(names) /\ Len(s) = Cardinality(names)
    BY <2>1, NumbersInOrder
  <2> HIDE DEF s
  <2> QED BY <2>2
<1>4. NewGame(s) \in EventData
  BY <1>3, EventTypes
<1>5. \A h : EventsOf(mq', h) = EventsOf(Schedule(mq, id, NewGame(s)), h)
  BY <1>1, <1>2, SameEvents
<1>6. id \in Nat /\ id > gameId /\ EventsOf(mq, id) = <<>>
  BY <1>1 DEF LogInv
<1> HIDE DEF s
<1>7. EventsOf(mq', id) = Append(<<>>, NewGame(s)) /\ \A h : h # id => EventsOf(mq', h) = EventsOf(mq, h)
  <2> DEFINE e == NewGame(s)
  <2> HIDE DEF e, id
  <2>1. e \in EventData
    BY <1>4 DEF e
  <2>2. /\ EventsOf(Schedule(mq, id, e), id) = Append(EventsOf(mq, id), e)
        /\ \A h : h # id => EventsOf(Schedule(mq, id, e), h) = EventsOf(mq, h)
    BY <1>1, <2>1, ScheduleAdds
  <2> QED BY <1>5, <1>6, <2>2 DEF e
<1>8. Latest' = <<NewGame(s)>>
  BY <1>1, <1>7 DEF Latest
<1>9. Tale(Latest', Cardinality(names), {}) /\ GoesOnIn(Latest') /\ EliminatedIn(Latest') = {}
  BY <1>3, <1>8, TaleBegins
<1>10. DOMAIN playerNumberInGame' = names
  BY <1>2
<1>11. NumbersBut(playerNumberInGame, Alive)' = {}
  BY <1>2, <1>10 DEF NumbersBut
<1>12. \A h \in Nat : h = 0 \/ h > gameId' => EventsOf(mq', h) = <<>>
  <2>1. \A h \in Nat : h = 0 \/ h > gameId' => h # id /\ (h = 0 \/ h > gameId)
    BY <1>1
  <2> QED BY <1>7, <2>1 DEF LogInv
<1>13. Elsewhere
  BY <1>1, <1>7 DEF Elsewhere
<1> QED BY <1>1, <1>2, <1>9, <1>10, <1>11, <1>12, <1>13 DEF LogInv

\* An event of the game in progress
LEMMA LogAdds ==
  ASSUME GameInv, LogInv, gameStarted, NEW m, NEW e \in EventData, SameLog(Schedule(mq, gameId, e), m)
  PROVE  /\ EventsOf(m, gameId) = Append(Latest, e)
         /\ \A h \in Nat : h = 0 \/ h > gameId => EventsOf(m, h) = <<>>
         /\ \A h : h # gameId => EventsOf(m, h) = EventsOf(mq, h)
<1>1. Managed(mq) /\ gameId \in Nat
  BY NowOwned DEF GameInv
<1>2. \A h : EventsOf(m, h) = EventsOf(Schedule(mq, gameId, e), h)
  BY SameEvents
<1>3. \A h \in Nat : h = 0 \/ h > gameId => h # gameId
  BY <1>1 DEF LogInv
<1> QED BY <1>1, <1>2, <1>3, ScheduleAdds DEF Latest, LogInv

LEMMA LogOfPixel ==
  ASSUME GameInv, LogInv, NEW n, NEW pixel, Takes(n, pixel)
  PROVE  LogInv' /\ Elsewhere
<1> DEFINE e == Pixel(playerNumberInGame[n], pixel)
<1>1. /\ n \in Alive /\ pixel \in Board /\ pixel \notin eatenPixels
      /\ eatenPixels' = eatenPixels \cup {pixel} /\ Alive' = Alive
      /\ gameStarted /\ UNCHANGED <<gameId, gameStarted, playerNumberInGame>>
      /\ SameLog(Schedule(mq, gameId, e), mq')
  BY DEF Takes
<1>2. n \in DOMAIN playerNumberInGame /\ playerNumberInGame[n] \in Nat
  BY <1>1, NumbersDiffer
<1>3. /\ e \in EventData /\ e.type = "PIXEL" /\ e.pixel = pixel /\ e.number = playerNumberInGame[n]
  BY <1>1, <1>2, EventTypes DEF Pixel
<1> HIDE DEF e
<1>4. /\ Latest' = Append(Latest, e) /\ \A h \in Nat : h = 0 \/ h > gameId => EventsOf(mq', h) = <<>>
      /\ Elsewhere
  BY <1>1, <1>3, LogAdds DEF Latest, Elsewhere
<1>5. e.number \notin EliminatedIn(Latest)
  BY <1>1, <1>2, <1>3, NumbersDiffer DEF LogInv, NumbersBut
<1>6. Tale(Latest, Cardinality(DOMAIN playerNumberInGame), eatenPixels) /\ GoesOnIn(Latest)
  BY <1>1 DEF LogInv
<1>7. /\ Tale(Latest', Cardinality(DOMAIN playerNumberInGame), eatenPixels')
      /\ EliminatedIn(Latest') = EliminatedIn(Latest) /\ GoesOnIn(Latest')
  <2>1. PixelsWith(eatenPixels, e) = eatenPixels' /\ EliminatedWith(EliminatedIn(Latest), e) = EliminatedIn(Latest)
    BY <1>1, <1>3 DEF PixelsWith, EliminatedWith
  <2> DEFINE M == Latest'
  <2>2. M = Append(Latest, e)
    BY <1>4
  <2>3. e.pixel \notin eatenPixels
    BY <1>1, <1>3
  <2> HIDE DEF M
  <2>4. /\ Tale(M, Cardinality(DOMAIN playerNumberInGame), PixelsWith(eatenPixels, e))
        /\ EliminatedIn(M) = EliminatedWith(EliminatedIn(Latest), e) /\ GoesOnIn(M)
    BY <1>3, <1>5, <1>6, <2>2, <2>3, TaleGoesOn
  <2> QED BY <2>1, <2>4 DEF M
<1> QED BY <1>1, <1>4, <1>7 DEF LogInv

\* The dead are one more.
LEMMA LogOfElimination ==
  ASSUME GameInv, LogInv, NEW n \in Alive, gameStarted, NEW e, e = PlayerEliminated(playerNumberInGame[n]),
         NEW L, L = Append(Latest, e)
  PROVE  /\ e \in EventData
         /\ Tale(L, Cardinality(DOMAIN playerNumberInGame), eatenPixels) /\ GoesOnIn(L)
         /\ EliminatedIn(L) = NumbersBut(playerNumberInGame, Alive \ {n})
<1>1. n \in DOMAIN playerNumberInGame /\ playerNumberInGame[n] \in Nat
  BY NumbersDiffer
<1>2. /\ e \in EventData /\ e.type = "PLAYER_ELIMINATED" /\ e.number = playerNumberInGame[n]
  BY <1>1, EventTypes DEF PlayerEliminated
<1>3. e.number \notin EliminatedIn(Latest)
  BY <1>1, <1>2, NumbersDiffer DEF LogInv, NumbersBut
<1>4. Tale(Latest, Cardinality(DOMAIN playerNumberInGame), eatenPixels) /\ GoesOnIn(Latest)
  BY DEF LogInv
<1>5. /\ Tale(L, Cardinality(DOMAIN playerNumberInGame), eatenPixels)
      /\ EliminatedIn(L) = EliminatedIn(Latest) \cup {e.number} /\ GoesOnIn(L)
  <2>1. /\ PixelsWith(eatenPixels, e) = eatenPixels
        /\ EliminatedWith(EliminatedIn(Latest), e) = EliminatedIn(Latest) \cup {e.number}
    BY <1>2 DEF PixelsWith, EliminatedWith
  <2>2. /\ Tale(L, Cardinality(DOMAIN playerNumberInGame), PixelsWith(eatenPixels, e))
        /\ EliminatedIn(L) = EliminatedWith(EliminatedIn(Latest), e) /\ GoesOnIn(L)
    BY <1>2, <1>3, <1>4, TaleGoesOn
  <2> QED BY <2>1, <2>2
<1>6. NumbersBut(playerNumberInGame, Alive \ {n}) =
        NumbersBut(playerNumberInGame, Alive) \cup {playerNumberInGame[n]}
  BY <1>1 DEF NumbersBut
<1> QED BY <1>2, <1>5, <1>6 DEF LogInv

LEMMA LogOfDeath ==
  ASSUME GameInv, LogInv, NEW n, Dies(n)
  PROVE  LogInv' /\ Elsewhere
<1> DEFINE e == PlayerEliminated(playerNumberInGame[n])
<1>1. /\ n \in Alive /\ Alive' = Alive \ {n}
      /\ gameStarted /\ UNCHANGED <<gameId, gameStarted, playerNumberInGame, eatenPixels>>
      /\ SameLog(Schedule(mq, gameId, e), mq')
  BY DEF Dies
<1>2. e \in EventData
  BY <1>1, LogOfElimination
<1> HIDE DEF e
<1>3. /\ Latest' = Append(Latest, e) /\ \A h \in Nat : h = 0 \/ h > gameId => EventsOf(mq', h) = <<>>
      /\ Elsewhere
  BY <1>1, <1>2, LogAdds DEF Latest, Elsewhere
<1>4. /\ Tale(Latest', Cardinality(DOMAIN playerNumberInGame), eatenPixels) /\ GoesOnIn(Latest')
      /\ EliminatedIn(Latest') = NumbersBut(playerNumberInGame, Alive \ {n})
  BY <1>1, <1>3, LogOfElimination DEF e
<1> QED BY <1>1, <1>3, <1>4 DEF LogInv

\* When all but one of the worms are dead, their numbers are one less than the worms.
LEMMA AllButOne ==
  ASSUME NEW numbers, IsFiniteSet(DOMAIN numbers),
         \A n, k \in DOMAIN numbers : numbers[n] = numbers[k] => n = k,
         NEW worms, Cardinality(worms) = 1, worms \subseteq DOMAIN numbers
  PROVE  Cardinality(NumbersBut(numbers, worms)) + 1 = Cardinality(DOMAIN numbers)
<1> DEFINE S == DOMAIN numbers \ worms  T == NumbersBut(numbers, worms)
           f == [n \in S |-> numbers[n]]
<1>1. IsFiniteSet(worms)
  BY FS_Subset
<1>2. PICK w : worms = {w}
  BY <1>1, FS_Singleton
<1>3. w \in DOMAIN numbers
  BY <1>2
<1>4. IsFiniteSet(S) /\ Cardinality(S) = Cardinality(DOMAIN numbers) - 1
  BY <1>2, <1>3, FS_RemoveElement
<1>5. f \in Surjection(S, T) /\ f \in Injection(S, T)
  <2>1. f \in [S -> T]
    BY DEF NumbersBut
  <2>2. \A t \in T : \E n \in S : f[n] = t
    BY DEF NumbersBut
  <2>3. \A n, k \in S : f[n] = f[k] => n = k
    OBVIOUS
  <2> HIDE DEF S, T, f
  <2> QED BY <2>1, <2>2, <2>3 DEF Injection, Surjection, IsInjective
<1> HIDE DEF S, T, f
<1>6. Cardinality(T) = Cardinality(S)
  BY <1>4, <1>5, FS_Surjection
<1>7. Cardinality(DOMAIN numbers) \in Nat
  BY FS_CardinalityType
<1> QED BY <1>4, <1>6, <1>7 DEF T

LEMMA LogEnds ==
  ASSUME GameInv, LogInv, NEW n, Ends(n)
  PROVE  LogInv' /\ Elsewhere
<1> DEFINE e == PlayerEliminated(playerNumberInGame[n])  count == Cardinality(DOMAIN playerNumberInGame)
           m == Schedule(mq, gameId, e)  L == Append(Latest, e)
<1>1. /\ n \in Alive /\ Cardinality(Alive) = 2
      /\ gameStarted /\ ~gameStarted' /\ UNCHANGED <<gameId, playerNumberInGame, eatenPixels>>
      /\ SameLog(Schedule(m, gameId, GameOver), mq')
  BY DEF Ends
<1>2. /\ e \in EventData /\ Tale(L, count, eatenPixels) /\ GoesOnIn(L)
      /\ EliminatedIn(L) = NumbersBut(playerNumberInGame, Alive \ {n})
  BY <1>1, LogOfElimination
<1>3. /\ EventsOf(m, gameId) = L /\ \A h \in Nat : h = 0 \/ h > gameId => EventsOf(m, h) = <<>>
      /\ \A h : h # gameId => EventsOf(m, h) = EventsOf(mq, h)
  BY <1>1, <1>2, LogAdds DEF SameLog
<1>4. Managed(m) /\ gameId \in Nat
  BY <1>2, NowOwned, ScheduleManaged DEF GameInv
<1>5. GameOver \in EventData /\ GameOver.type = "GAME_OVER"
  BY EventTypes DEF GameOver
<1>6. \A h : EventsOf(mq', h) = EventsOf(Schedule(m, gameId, GameOver), h)
  BY <1>1, SameEvents
<1> HIDE DEF e, m, L, count
<1>7. /\ Latest' = Append(L, GameOver) /\ \A h \in Nat : h = 0 \/ h > gameId => EventsOf(mq', h) = <<>>
      /\ Elsewhere
  <2>1. \A h \in Nat : h = 0 \/ h > gameId => h # gameId
    BY <1>1, <1>4 DEF LogInv
  <2> QED BY <1>1, <1>3, <1>4, <1>5, <1>6, <2>1, ScheduleAdds DEF Latest, Elsewhere
<1>8. /\ Tale(Latest', count, eatenPixels) /\ IsOverIn(Latest')
      /\ EliminatedIn(Latest') = EliminatedIn(L)
  <2>1. /\ PixelsWith(eatenPixels, GameOver) = eatenPixels
        /\ EliminatedWith(EliminatedIn(L), GameOver) = EliminatedIn(L)
    BY <1>5 DEF PixelsWith, EliminatedWith
  <2> DEFINE M == Latest'
  <2>2. M = Append(L, GameOver)
    BY <1>7
  <2> HIDE DEF M
  <2>3. /\ Tale(M, count, PixelsWith(eatenPixels, GameOver))
        /\ EliminatedIn(M) = EliminatedWith(EliminatedIn(L), GameOver) /\ IsOverIn(M)
    BY <1>2, <1>5, <2>2, TaleGoesOn
  <2> QED BY <2>1, <2>3 DEF M
<1>9. Cardinality(EliminatedIn(Latest')) + 1 = count
  <2>1. /\ IsFiniteSet(DOMAIN playerNumberInGame) /\ Alive \subseteq DOMAIN playerNumberInGame
        /\ \A i, k \in DOMAIN playerNumberInGame :
              playerNumberInGame[i] = playerNumberInGame[k] => i = k
    BY <1>1, NumbersDiffer
  <2>2. Cardinality(Alive \ {n}) = 1
    BY <1>1, AliveAreFew, FS_RemoveElement
  <2> QED BY <1>2, <1>8, <2>1, <2>2, AllButOne DEF count
<1> QED BY <1>1, <1>7, <1>8, <1>9 DEF LogInv, count

LEMMA LogInvFirst == Init => LogInv
<1> SUFFICES ASSUME Init PROVE LogInv
  OBVIOUS
<1>1. gameId = 0 /\ gameStarted = FALSE /\ playerNumberInGame = EmptyMap
  BY DEF Init
<1>2. PICK id \in InitialGameIds : mq = NewMQManager(id)
  BY DEF Init
<1>3. mq.currentGameEvents = <<>> /\ mq.nextGames = <<>>
  BY <1>2 DEF NewMQManager
<1>4. ASSUME NEW h PROVE EventsOf(mq, h) = <<>>
  <2>1. Waiting(mq, h) = 0
    BY <1>3, WaitingIs DEF WaitsAt
  <2>2. DataOf(<<>>) = <<>>
    BY DEF DataOf
  <2> QED BY <1>3, <2>1, <2>2 DEF EventsOf
<1>5. playerNumberInGame = [n \in {} |-> Number(n, {})]
  BY <1>1 DEF EmptyMap
<1> QED BY <1>1, <1>4, <1>5 DEF LogInv

LEMMA LogInvHolds == Spec => [](GameInv /\ LogInv)
<1>1. Init => GameInv /\ LogInv
  BY GameInvFirst, LogInvFirst
<1>2. GameInv /\ LogInv /\ [Next]_vars => (GameInv /\ LogInv)'
  BY GameInvKept, LogUnchanged, LogBegins, LogOfPixel, LogOfDeath, LogEnds DEF Story
<1> QED BY <1>1, <1>2, PTL DEF Spec

\* LogInv implies the properties.
LEMMA LogInvMeans ==
  ASSUME GameInv, LogInv
  PROVE  LogIsAGame /\ PixelsTakenOnce /\ SilentAfterElimination
<1>1. Log = Latest
  BY LogIsEvents, NowOwned DEF Latest
<1>2. CASE gameId = 0
  <2>1. Log = <<>> /\ DOMAIN Log = {}
    BY <1>1, <1>2 DEF LogInv, Latest
  <2> QED BY <1>2, <2>1 DEF LogIsAGame, PixelsTakenOnce, SilentAfterElimination
<1>3. CASE gameId # 0
  <2>1. Tale(Log, Cardinality(DOMAIN playerNumberInGame), eatenPixels)
    BY <1>1, <1>3 DEF LogInv
  <2>2. PixelsTakenOnce /\ SilentAfterElimination
    BY <2>1 DEF Tale, PixelsIn, PixelsTakenOnce, SilentAfterElimination
  <2>3. Eliminated = EliminatedIn(Log)
    BY DEF Eliminated, EliminatedIn
  <2>4. /\ \A i \in DOMAIN Log : Log[i].type = "NEW_GAME" <=> i = 1
        /\ Len(Log[1].names) = Cardinality(DOMAIN playerNumberInGame)
    BY <2>1 DEF Tale
  <2>5. \A i \in DOMAIN Log : Log[i].type = "GAME_OVER" <=> ~gameStarted /\ i = Len(Log)
    BY <1>1, <1>3 DEF LogInv, GoesOnIn, IsOverIn
  <2>6. gameStarted \/ Cardinality(Eliminated) + 1 = Cardinality(DOMAIN playerNumberInGame)
    BY <1>1, <1>3, <2>3 DEF LogInv
  <2>7. LogIsAGame
    BY <2>4, <2>5, <2>6 DEF LogIsAGame
  <2> QED BY <2>2, <2>7
<1> QED BY <1>2, <1>3

\* Clients are told of whole games: NEW_GAME first, GAME_OVER when a game has ended and then last, all
\* but one eliminated by then.
THEOREM LogCorrect == Spec => []LogIsAGame
BY LogInvHolds, LogInvMeans, PTL

\* No pixel is given to two worms in a game, and those told are those remembered.
THEOREM PixelsCorrect == Spec => []PixelsTakenOnce
BY LogInvHolds, LogInvMeans, PTL

\* Nothing is told of a worm after its elimination.
THEOREM DeadAreSilent == Spec => []SilentAfterElimination
BY LogInvHolds, LogInvMeans, PTL

-----------------------------------------------------------------------------
(* One game after another, in the server, which puts them on air *)

Ended(L) == L # <<>> /\ Last(L) = GameOver

\* The games that wait follow the one on air, up to this one.
Follow(m, id) ==
    /\ m.currentlyBroadcastedGameId + Len(m.nextGames) = id
    /\ \A i \in 1 .. Len(m.nextGames) : m.nextGames[i].id = m.currentlyBroadcastedGameId + i

\* They follow one another up to the latest, and those before it are over.
InTurn ==
    /\ Follow(mq, gameId)
    /\ \A h \in Nat \ {0} : mq.currentlyBroadcastedGameId <= h /\ h < gameId => Ended(EventsOf(mq, h))

LEMMA GamesAre ==
  ASSUME NEW m, Managed(m)
  PROVE  /\ m.currentlyBroadcastedGameId \in Nat /\ Len(m.nextGames) \in Nat
         /\ m.nextGames \in Seq(WaitingGame(Nat, EventData))
         /\ m.currentGameEvents \in Seq(NumberedEvent(EventData))
<1>1. /\ m.currentlyBroadcastedGameId \in Nat
      /\ m.nextGames \in Seq(WaitingGame(Nat, EventData))
      /\ m.currentGameEvents \in Seq(NumberedEvent(EventData))
  BY ManagedMeans DEF ManagerOf
<1> QED BY <1>1

LEMMA FollowSame ==
  ASSUME NEW m, NEW k, SameLog(m, k), NEW id, Follow(m, id)
  PROVE  Follow(k, id)
BY DEF SameLog, Follow

LEMMA FollowWaiting ==
  ASSUME NEW m, Managed(m), NEW id \in Nat, Follow(m, id), NEW h \in Nat
  PROVE  /\ h > m.currentlyBroadcastedGameId /\ h <= id => Waiting(m, h) = h - m.currentlyBroadcastedGameId
         /\ h <= m.currentlyBroadcastedGameId \/ h > id => Waiting(m, h) = 0
<1> DEFINE c == m.currentlyBroadcastedGameId  games == m.nextGames  w == Waiting(m, h)
<1>1. c \in Nat /\ Len(games) \in Nat
  BY GamesAre
<1>2. WaitsAt(games, h, w)
  BY WaitingIs
<1>3. c + Len(games) = id /\ \A i \in 1 .. Len(games) : games[i].id = c + i
  BY DEF Follow
<1> HIDE DEF c, games, w
<1>4. CASE h > c /\ h <= id
  <2>1. h - c \in 1 .. Len(games)
    BY <1>1, <1>3, <1>4
  <2>2. \A i \in 1 .. h - c - 1 : i \in 1 .. Len(games) /\ c + i # h
    BY <1>1, <2>1
  <2>3. WaitsAt(games, h, h - c)
    BY <1>1, <1>3, <2>1, <2>2 DEF WaitsAt
  <2>4. w = h - c
    BY <1>1, <1>2, <2>3, WaitsOnce
  <2> QED BY <1>1, <1>4, <2>4 DEF c, w
<1>5. CASE h <= c \/ h > id
  <2>1. \A i \in 1 .. Len(games) : games[i].id # h
    BY <1>1, <1>3, <1>5
  <2>2. w = 0
    BY <1>2, <2>1 DEF WaitsAt
  <2> QED BY <1>1, <1>5, <2>2 DEF c, w
<1> QED BY <1>1, <1>4, <1>5 DEF c

\* An event of the latest game or of the next
LEMMA ScheduleFollows ==
  ASSUME NEW m, Managed(m), NEW id \in Nat, Follow(m, id), NEW h \in {id, id + 1}, NEW e
  PROVE  /\ Follow(Schedule(m, h, e), h)
         /\ Schedule(m, h, e).currentlyBroadcastedGameId = m.currentlyBroadcastedGameId
<1> DEFINE k == Schedule(m, h, e)  c == m.currentlyBroadcastedGameId  games == m.nextGames
           w == Waiting(m, h)  later == k.nextGames
<1>1. k.currentlyBroadcastedGameId = c /\ later = NextWith(m, h, e)
  BY ScheduleParts
<1>2. c \in Nat /\ Len(games) \in Nat /\ games \in Seq(WaitingGame(Nat, EventData))
  BY GamesAre
<1>3. c + Len(games) = id /\ \A i \in 1 .. Len(games) : games[i].id = c + i
  BY DEF Follow
<1>4. /\ h \in Nat
      /\ h > c /\ h <= id => w = h - c
      /\ h <= c \/ h > id => w = 0
  <2>1. h \in Nat
    OBVIOUS
  <2> QED BY <2>1, FollowWaiting
<1>5. ASSUME c + Len(later) = h, \A i \in 1 .. Len(later) : later[i].id = c + i
      PROVE  Follow(k, h)
  BY <1>1, <1>5 DEF Follow
<1> HIDE DEF k, c, games, w, later
<1>6. CASE h = c
  <2>1. later = games
    BY <1>1, <1>6 DEF NextWith, c, games
  <2>2. h = id
    BY <1>2, <1>3, <1>6
  <2> QED BY <1>1, <1>3, <1>5, <2>1, <2>2 DEF k, c
<1>7. CASE h # c /\ w # 0
  <2> DEFINE g == [games[w] EXCEPT !.events = Append(@, e)]
  <2>1. h = id /\ w = h - c /\ w \in 1 .. Len(games)
    BY <1>2, <1>3, <1>4, <1>7
  <2>2. later = [games EXCEPT ![w] = g]
    BY <1>1, <1>7 DEF NextWith, c, games, w
  <2>3. games[w] \in WaitingGame(Nat, EventData)
    BY <1>2, <2>1
  <2>4. g.id = games[w].id
    BY <2>3 DEF WaitingGame
  <2> HIDE DEF g
  <2>5. Len(later) = Len(games) /\ \A i \in 1 .. Len(games) : later[i] = IF i = w THEN g ELSE games[i]
    BY <1>2, <2>2
  <2> QED BY <1>1, <1>3, <1>5, <2>1, <2>4, <2>5 DEF k, c
<1>8. CASE h # c /\ w = 0
  <2> DEFINE g == [id |-> h, events |-> <<e>>]  n == Len(games)
  <2>1. h = id + 1
    BY <1>2, <1>3, <1>4, <1>8
  <2>2. later = Append(games, g)
    BY <1>1, <1>8 DEF NextWith, c, games, w
  <2>3. /\ Len(later) = n + 1 /\ later[n + 1] = g
        /\ \A i \in 1 .. n : later[i] = games[i]
    BY <1>2, <2>2
  <2>4. g.id = h
    OBVIOUS
  <2> HIDE DEF g, n
  <2>5. n \in Nat /\ c + n = id /\ \A i \in 1 .. n : games[i].id = c + i
    BY <1>2, <1>3 DEF n
  <2>6. c + Len(later) = h
    BY <1>2, <2>1, <2>3, <2>5
  <2>7. \A i \in 1 .. n + 1 : later[i].id = c + i
    <3> TAKE i \in 1 .. n + 1
    <3>1. CASE i = n + 1
      BY <1>2, <2>1, <2>3, <2>4, <2>5, <3>1
    <3>2. CASE i # n + 1
      <4>1. i \in 1 .. n
        BY <2>5, <3>2
      <4> QED BY <2>3, <2>5, <4>1
    <3> QED BY <3>1, <3>2
  <2> QED BY <1>1, <1>5, <2>3, <2>6, <2>7 DEF k, c
<1> QED BY <1>6, <1>7, <1>8

\* A game that goes on air takes its events along, and its predecessor's go.
LEMMA AdvanceFollows ==
  ASSUME NEW m, Managed(m), NEW id \in Nat, Follow(m, id), NEW k, k = AdvanceGame(m)
  PROVE  /\ Follow(k, id) /\ Managed(k)
         /\ k.currentlyBroadcastedGameId >= m.currentlyBroadcastedGameId
         /\ k.currentlyBroadcastedGameId <= id
         /\ \A h \in Nat : h >= k.currentlyBroadcastedGameId => EventsOf(k, h) = EventsOf(m, h)
         /\ \A h \in Nat : h < k.currentlyBroadcastedGameId => EventsOf(k, h) = <<>>
<1> DEFINE c == m.currentlyBroadcastedGameId  games == m.nextGames
<1>1. c \in Nat /\ Len(games) \in Nat /\ games \in Seq(WaitingGame(Nat, EventData))
  BY GamesAre
<1>2. c + Len(games) = id /\ \A i \in 1 .. Len(games) : games[i].id = c + i
  BY DEF Follow
<1>3. Managed(k)
  BY ManagedMeans, AdvanceGameConsistent, IsManaged
<1>4. ASSUME Follow(k, id), NEW h \in Nat, h < k.currentlyBroadcastedGameId PROVE EventsOf(k, h) = <<>>
  <2>1. k.currentlyBroadcastedGameId \in Nat /\ Waiting(k, h) = 0
    BY <1>3, <1>4, FollowWaiting, GamesAre
  <2> QED BY <1>4, <2>1 DEF EventsOf
<1>5. CASE k = m
  BY <1>1, <1>2, <1>3, <1>4, <1>5
<1>6. CASE k # m
  <2> DEFINE g == Head(games)
  <2>1. /\ games # <<>> /\ k.nextGames = Tail(games) /\ k.currentGameEvents = Numbered(g.events)
        /\ k.currentlyBroadcastedGameId = g.id
    BY <1>6 DEF AdvanceGame
  <2>2. Len(games) # 0 /\ g = games[1] /\ g \in WaitingGame(Nat, EventData) /\ g.id = c + 1
    BY <1>1, <1>2, <2>1
  <2> DEFINE later == k.nextGames  n == Len(games)
  <2>3. Len(later) = n - 1 /\ \A i \in 1 .. n - 1 : later[i] = games[i + 1]
    BY <1>1, <2>1, <2>2
  <2> HIDE DEF later, g, n, c, games
  <2>4. n \in Nat \ {0} /\ c \in Nat /\ c + n = id /\ \A i \in 1 .. n : games[i].id = c + i
    BY <1>1, <1>2, <2>2 DEF n
  <2>5. Follow(k, id)
    <3>1. (c + 1) + Len(later) = id
      BY <2>3, <2>4
    <3>2. \A i \in 1 .. Len(later) : later[i].id = (c + 1) + i
      <4> TAKE i \in 1 .. Len(later)
      <4>1. i \in 1 .. n - 1 /\ i + 1 \in 1 .. n /\ c + (i + 1) = (c + 1) + i
        BY <2>3, <2>4
      <4> QED BY <2>3, <2>4, <4>1
    <3> QED BY <2>1, <2>2, <3>1, <3>2 DEF Follow, later
  <2>6. DataOf(k.currentGameEvents) = g.events
    <3>1. g.events \in Seq(EventData)
      BY <2>2 DEF WaitingGame
    <3>2. \A i \in DOMAIN g.events : Numbered(g.events)[i].data = g.events[i]
      BY DEF Numbered
    <3>3. DOMAIN Numbered(g.events) = DOMAIN g.events
      BY DEF Numbered
    <3>4. g.events = [i \in DOMAIN g.events |-> g.events[i]]
      BY <3>1
    <3> QED BY <2>1, <3>2, <3>3, <3>4 DEF DataOf
  <2>7. Waiting(m, c + 1) = 1
    <3>1. c + 1 \in Nat /\ c + 1 > c /\ c + 1 <= id /\ (c + 1) - c = 1
      BY <2>4
    <3> QED BY <3>1, FollowWaiting DEF c
  <2>8. EventsOf(k, c + 1) = EventsOf(m, c + 1)
    <3>1. c + 1 # c
      BY <2>4
    <3>2. EventsOf(m, c + 1) = games[1].events
      BY <2>7, <3>1 DEF EventsOf, c, games
    <3> QED BY <2>1, <2>2, <2>6, <3>2 DEF EventsOf
  <2>9. ASSUME NEW h \in Nat, h > c + 1 PROVE EventsOf(k, h) = EventsOf(m, h)
    <3>1. h # c /\ h # c + 1 /\ h > c
      BY <2>4, <2>9
    <3>2. CASE h > id
      <4>1. Waiting(m, h) = 0 /\ Waiting(k, h) = 0
        BY <1>3, <2>5, <3>2, FollowWaiting
      <4> QED BY <2>1, <2>2, <3>1, <4>1 DEF EventsOf, c
    <3>3. CASE h <= id
      <4>1. Waiting(m, h) = h - c
        BY <3>1, <3>3, FollowWaiting DEF c
      <4>2. Waiting(k, h) = h - (c + 1)
        BY <1>3, <2>1, <2>2, <2>5, <2>9, <3>3, FollowWaiting
      <4>3. h - (c + 1) \in 1 .. n - 1 /\ (h - (c + 1)) + 1 = h - c /\ h - c # 0
        BY <2>4, <2>9, <3>3
      <4>4. later[h - (c + 1)] = games[h - c]
        BY <2>3, <4>3
      <4>5. EventsOf(m, h) = games[h - c].events
        BY <3>1, <4>1, <4>3 DEF EventsOf, c, games
      <4>6. EventsOf(k, h) = later[h - (c + 1)].events
        <5>1. Waiting(k, h) # 0 /\ h # k.currentlyBroadcastedGameId
          BY <2>1, <2>2, <3>1, <4>2, <4>3
        <5> QED BY <4>2, <5>1 DEF EventsOf, later
      <4> QED BY <4>4, <4>5, <4>6
    <3> QED BY <2>4, <3>2, <3>3
  <2>10. \A h \in Nat : h >= c + 1 => EventsOf(k, h) = EventsOf(m, h)
    <3> TAKE h \in Nat
    <3>1. h >= c + 1 => h = c + 1 \/ h > c + 1
      BY <2>4
    <3> QED BY <2>8, <2>9, <3>1
  <2> QED BY <1>3, <1>4, <2>1, <2>2, <2>4, <2>5, <2>10 DEF c
<1> QED BY <1>5, <1>6

\* A game that is over ends with GAME_OVER.
LEMMA LatestEnded ==
  ASSUME GameInv, LogInv, gameId # 0, ~gameStarted
  PROVE  Ended(Latest)
<1>1. Latest \in Seq(EventData) /\ Latest # <<>> /\ Latest[Len(Latest)].type = "GAME_OVER"
  <2>1. Latest \in Seq(EventData) /\ Latest # <<>> /\ IsOverIn(Latest)
    BY DEF LogInv, Tale
  <2>2. Len(Latest) \in DOMAIN Latest
    BY <2>1
  <2> QED BY <2>1, <2>2 DEF IsOverIn
<1>2. Latest[Len(Latest)] \in EventData
  BY <1>1
<1>3. \A e \in EventData : e.type = "GAME_OVER" => e = GameOver
  BY DEF EventData, GameOver
<1> QED BY <1>1, <1>2, <1>3 DEF Ended, Last

LEMMA InTurnKept ==
  ASSUME GameInv, LogInv, InTurn, Story, Elsewhere, GameInv'
  PROVE  InTurn'
<1>1. Managed(mq) /\ gameId \in Nat /\ gameId' \in Nat /\ mq.currentlyBroadcastedGameId \in Nat
  BY NowOwned, GamesAre DEF GameInv
<1>2. Follow(mq, gameId)
  BY DEF InTurn
<1>3. ASSUME gameId' = gameId, mq'.currentlyBroadcastedGameId = mq.currentlyBroadcastedGameId, Follow(mq', gameId)
      PROVE  InTurn'
  <2>1. \A h \in Nat : h < gameId => EventsOf(mq', h) = EventsOf(mq, h)
    BY <1>1, <1>3 DEF Elsewhere
  <2> QED BY <1>3, <2>1 DEF InTurn
<1>4. CASE Quiet
  <2>1. gameId' = gameId /\ mq'.currentlyBroadcastedGameId = mq.currentlyBroadcastedGameId
    BY <1>4 DEF Quiet, Unmoved, gameVars, SameLog
  <2> QED BY <1>2, <1>3, <1>4, <2>1, FollowSame DEF Quiet
<1>5. CASE Begins
  <2>1. ~gameStarted /\ gameId' = gameId + 1 /\ gameId' \in {gameId, gameId + 1}
    BY <1>5 DEF Begins
  <2>2. PICK e : SameLog(Schedule(mq, gameId', e), mq')
    BY <1>5 DEF Begins
  <2>3. /\ Follow(Schedule(mq, gameId', e), gameId')
        /\ Schedule(mq, gameId', e).currentlyBroadcastedGameId = mq.currentlyBroadcastedGameId
    BY <1>1, <1>2, <2>1, ScheduleFollows
  <2>4. Follow(mq', gameId') /\ mq'.currentlyBroadcastedGameId = mq.currentlyBroadcastedGameId
    BY <2>2, <2>3, FollowSame DEF SameLog
  <2>5. ASSUME NEW h \in Nat \ {0}, mq.currentlyBroadcastedGameId <= h, h < gameId'
        PROVE  Ended(EventsOf(mq', h))
    <3>1. EventsOf(mq', h) = EventsOf(mq, h)
      BY <1>1, <2>5 DEF Elsewhere
    <3>2. h < gameId \/ h = gameId
      BY <1>1, <2>1, <2>5
    <3>3. h = gameId => Ended(EventsOf(mq, h))
      BY <2>1, LatestEnded DEF Latest
    <3> QED BY <2>5, <3>1, <3>2, <3>3 DEF InTurn
  <2> QED BY <2>4, <2>5 DEF InTurn
<1>6. ASSUME NEW e, SameLog(Schedule(mq, gameId, e), mq'), gameId' = gameId PROVE InTurn'
  <2>1. /\ Follow(Schedule(mq, gameId, e), gameId)
        /\ Schedule(mq, gameId, e).currentlyBroadcastedGameId = mq.currentlyBroadcastedGameId
    BY <1>1, <1>2, ScheduleFollows
  <2> QED BY <1>3, <1>6, <2>1, FollowSame DEF SameLog
<1>7. ASSUME NEW n, Ends(n) PROVE InTurn'
  <2> DEFINE e == PlayerEliminated(playerNumberInGame[n])  m == Schedule(mq, gameId, e)
  <2>1. gameId' = gameId /\ SameLog(Schedule(m, gameId, GameOver), mq') /\ n \in Alive /\ gameStarted
    BY <1>7 DEF Ends
  <2>2. e \in EventData
    BY <2>1, LogOfElimination
  <2> HIDE DEF e
  <2>3. /\ Managed(m) /\ Follow(m, gameId)
        /\ m.currentlyBroadcastedGameId = mq.currentlyBroadcastedGameId
    BY <1>1, <1>2, <2>2, ScheduleManaged, ScheduleFollows
  <2> HIDE DEF m
  <2>4. /\ Follow(Schedule(m, gameId, GameOver), gameId)
        /\ Schedule(m, gameId, GameOver).currentlyBroadcastedGameId = m.currentlyBroadcastedGameId
    BY <1>1, <2>3, ScheduleFollows
  <2> QED BY <1>3, <2>1, <2>3, <2>4, FollowSame DEF SameLog
<1>8. ASSUME NEW n, NEW pixel, Takes(n, pixel) PROVE InTurn'
  BY <1>6, <1>8 DEF Takes
<1>9. ASSUME NEW n, Dies(n) PROVE InTurn'
  BY <1>6, <1>9 DEF Dies
<1> QED BY <1>4, <1>5, <1>7, <1>8, <1>9 DEF Story

\* Sending tells nothing new, and the game on air is not yet past the latest.
LEMMA SendsInTurn ==
  ASSUME GameInv, LogInv, InTurn, Sends
  PROVE  LogInv' /\ InTurn'
<1> DEFINE k == AdvanceGame(mq)
<1>1. Managed(mq) /\ gameId \in Nat /\ mq.currentlyBroadcastedGameId \in Nat
  BY NowOwned, GamesAre DEF GameInv
<1>2. /\ Follow(k, gameId) /\ Managed(k)
      /\ k.currentlyBroadcastedGameId >= mq.currentlyBroadcastedGameId
      /\ k.currentlyBroadcastedGameId <= gameId
      /\ \A h \in Nat : h >= k.currentlyBroadcastedGameId => EventsOf(k, h) = EventsOf(mq, h)
      /\ \A h \in Nat : h < k.currentlyBroadcastedGameId => EventsOf(k, h) = <<>>
  BY <1>1, AdvanceFollows DEF InTurn
<1>3. SameLog(k, mq') /\ Unmoved /\ gameId' = gameId
  BY DEF Sends, Unmoved, gameVars
<1> HIDE DEF k
<1>4. k.currentlyBroadcastedGameId \in Nat /\ mq'.currentlyBroadcastedGameId = k.currentlyBroadcastedGameId
  BY <1>2, <1>3, GamesAre DEF SameLog
<1>5. \A h : EventsOf(mq', h) = EventsOf(k, h)
  BY <1>3, SameEvents
<1>6. EventsOf(mq, 0) = <<>>
  BY DEF LogInv
<1>7. \A h \in Nat : h = 0 \/ h >= gameId => EventsOf(mq', h) = EventsOf(mq, h)
  <2> TAKE h \in Nat
  <2>1. h >= gameId => h >= k.currentlyBroadcastedGameId
    BY <1>1, <1>2, <1>4
  <2>2. h >= k.currentlyBroadcastedGameId \/ h < k.currentlyBroadcastedGameId
    BY <1>4
  <2> QED BY <1>2, <1>5, <1>6, <2>1, <2>2
<1>8. LogInv'
  BY <1>3, <1>7, LogUnmoved
<1>9. Follow(mq', gameId')
  BY <1>2, <1>3, FollowSame
<1>10. ASSUME NEW h \in Nat \ {0}, mq'.currentlyBroadcastedGameId <= h, h < gameId'
       PROVE  Ended(EventsOf(mq', h))
  <2>1. h >= k.currentlyBroadcastedGameId /\ mq.currentlyBroadcastedGameId <= h /\ h < gameId
    BY <1>1, <1>2, <1>3, <1>4, <1>10
  <2> QED BY <1>2, <1>5, <2>1 DEF InTurn
<1> QED BY <1>8, <1>9, <1>10 DEF InTurn

\* What the uninitialised identifier must not be: one of a game to come
NothingOnAir == InitialGameIds = {0}

LEMMA OrderHolds == NothingOnAir /\ ServerSpec => [](ServerInv /\ LogInv /\ InTurn)
<1>1. NothingOnAir /\ ServerInit => ServerInv /\ LogInv /\ InTurn
  <2> SUFFICES ASSUME NothingOnAir, ServerInit PROVE ServerInv /\ LogInv /\ InTurn
    OBVIOUS
  <2>1. Init /\ gameId = 0
    BY DEF ServerInit, Init
  <2>2. mq = NewMQManager(0)
    BY <2>1 DEF Init, NothingOnAir
  <2>3. mq.currentlyBroadcastedGameId = 0 /\ mq.nextGames = <<>>
    BY <2>2 DEF NewMQManager
  <2>4. InTurn
    BY <2>1, <2>3 DEF InTurn, Follow
  <2> QED BY <2>1, <2>4, ServerInvFirst, LogInvFirst
<1>2. ServerInv /\ LogInv /\ InTurn /\ [ServerNext]_serverVars => (ServerInv /\ LogInv /\ InTurn)'
  <2> SUFFICES ASSUME ServerInv, LogInv, InTurn, [ServerNext]_serverVars
               PROVE  (ServerInv /\ LogInv /\ InTurn)'
    OBVIOUS
  <2>1. GameInv /\ ServerInv' /\ GameInv' /\ (Story \/ Sends)
    BY ServerInvKept DEF ServerInv
  <2>2. CASE Story
    <3>1. LogInv' /\ Elsewhere
      BY <2>1, <2>2, LogUnchanged, LogBegins, LogOfPixel, LogOfDeath, LogEnds DEF Story
    <3> QED BY <2>1, <2>2, <3>1, InTurnKept
  <2>3. CASE Sends
    BY <2>1, <2>3, SendsInTurn
  <2> QED BY <2>1, <2>2, <2>3
<1> QED BY <1>1, <1>2, PTL DEF ServerSpec

LEMMA InTurnMeans ==
  ASSUME GameInv, LogInv, InTurn
  PROVE  GamesInOrder
<1> DEFINE c == mq.currentlyBroadcastedGameId  games == mq.nextGames  n == Len(games)
           first == [id |-> c, events |-> DataOf(mq.currentGameEvents)]
           all == <<first>> \o games
<1>1. Managed(mq) /\ gameId \in Nat /\ Follow(mq, gameId)
  BY NowOwned DEF GameInv, InTurn
<1>2. c \in Nat /\ n \in Nat /\ games \in Seq(WaitingGame(Nat, EventData))
  BY <1>1, GamesAre
<1>3. Games = all
  BY DEF Games, DataOf
<1>4. Len(all) = n + 1 /\ all[1] = first /\ \A i \in 1 .. n : all[i + 1] = games[i]
  <2> DEFINE G == WaitingGame(Nat, EventData) \cup {first}
  <2>1. games \in Seq(G) /\ <<first>> \in Seq(G)
    BY <1>2
  <2> HIDE DEF G, first, games
  <2> QED BY <2>1 DEF n
<1>5. c + n = gameId /\ \A i \in 1 .. n : games[i].id = c + i
  BY <1>1 DEF Follow
<1>6. first.id = c /\ first.events = EventsOf(mq, c)
  BY DEF EventsOf
<1>7. ASSUME NEW i \in 1 .. n PROVE games[i].events = EventsOf(mq, c + i)
  <2>1. c + i \in Nat /\ c + i > c /\ c + i <= gameId /\ (c + i) - c = i /\ i # 0 /\ c + i # c
    BY <1>2, <1>5
  <2>2. Waiting(mq, c + i) = i
    BY <1>1, <2>1, FollowWaiting
  <2> QED BY <2>1, <2>2 DEF EventsOf
<1> HIDE DEF c, games, n, first, all
<1>8. \A i \in 1 .. n + 1 : all[i].id = c + (i - 1) /\ all[i].events = EventsOf(mq, c + (i - 1))
  <2> TAKE i \in 1 .. n + 1
  <2>1. CASE i = 1
    BY <1>2, <1>4, <1>6, <2>1
  <2>2. CASE i # 1
    <3>1. i - 1 \in 1 .. n /\ (i - 1) + 1 = i
      BY <1>2, <2>2
    <3> QED BY <1>4, <1>5, <1>7, <3>1
  <2> QED BY <2>1, <2>2
<1>9. Last(all).id = gameId
  BY <1>2, <1>4, <1>5, <1>8 DEF Last
<1>10. ASSUME NEW i \in 1 .. Len(all) - 1
       PROVE  all[i].id + 1 = all[i + 1].id /\ (all[i].id # 0 => Last(all[i].events) = GameOver)
  <2>1. i \in 1 .. n + 1 /\ i + 1 \in 1 .. n + 1 /\ i <= n
    BY <1>2, <1>4, <1>10
  <2>2. all[i].id = c + (i - 1) /\ all[i + 1].id = c + ((i + 1) - 1)
    BY <1>8, <2>1
  <2>3. c + (i - 1) \in Nat /\ c <= c + (i - 1) /\ c + (i - 1) < gameId /\ (c + (i - 1)) + 1 = c + ((i + 1) - 1)
    BY <1>2, <1>5, <2>1
  <2>4. c + (i - 1) # 0 => Ended(EventsOf(mq, c + (i - 1)))
    BY <2>3 DEF InTurn, c
  <2> QED BY <1>8, <2>1, <2>2, <2>3, <2>4 DEF Ended
<1> QED BY <1>3, <1>9, <1>10 DEF GamesInOrder

\* Games go on air in the order they are played, each when it is over or the latest.
THEOREM OrderCorrect == NothingOnAir /\ ServerSpec => []GamesInOrder
<1>1. ServerInv /\ LogInv /\ InTurn => GamesInOrder
  BY InTurnMeans DEF ServerInv
<1> QED BY <1>1, OrderHolds, PTL

\* With the server around it, which puts games on air and takes them off, the log stays a game's.
THEOREM LogInServer == NothingOnAir /\ ServerSpec => [](LogIsAGame /\ PixelsTakenOnce /\ SilentAfterElimination)
<1>1. ServerInv /\ LogInv /\ InTurn => LogIsAGame /\ PixelsTakenOnce /\ SilentAfterElimination
  BY LogInvMeans DEF ServerInv
<1> QED BY <1>1, OrderHolds, PTL
=============================================================================
