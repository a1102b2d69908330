---------------------------- MODULE GameManager ----------------------------
(***************************************************************************)
(* Class GameManager (server_src/game.cpp:89-345): who is connected, when  *)
(* a game starts, its turns, its end, and the events it puts into the      *)
(* message queues.  The server is one thread, so a handler is one step;    *)
(* the two loops over the players (startGame's and runTurn's) take one     *)
(* step for each player, and nothing else happens until the loop is over.  *)
(*                                                                         *)
(* A player is a name, and names are numbers: std::map visits them in      *)
(* order.  The name 0 is the empty one, a watcher's.  Floating-point       *)
(* positions and headings are left out: a worm moves one unit, that is, it *)
(* stays in its pixel or goes to one of the eight around it.  The random   *)
(* generator gives every game an identifier not used before (here the next *)
(* number) and any starting pixel.                                         *)
(*                                                                         *)
(* Three places of the code are undefined behaviour in reachable states,   *)
(* a fourth is in Server (see Undefined).  There, the process stops or     *)
(* goes on as if nothing had happened; "undefined" records what happened.  *)
(***************************************************************************)
EXTENDS MQOperations, FiniteSets

CONSTANTS
    Fingerprint,    \* client sockets
    InitialGameIds, \* what the uninitialised currentlyBroadcastedGameId may hold
    Name,           \* player names
    Session,        \* session identifiers
    NextExpected,   \* next_expected_event_no of the messages
    Width, Height,  \* maxx, maxy
    MaxPlayers,     \* MAX_PLAYERS
    MaxGames        \* bound: games started

ASSUME NamesAssumption == Name \subseteq Nat \ {0} /\ IsFiniteSet(Name)
ASSUME NumbersAssumption ==
    Session \subseteq Nat /\ NextExpected \subseteq Nat /\ InitialGameIds \subseteq Nat
ASSUME BoardAssumption == Width \in Nat \ {0} /\ Height \in Nat \ {0}
ASSUME LimitsAssumption == MaxPlayers \in Nat /\ MaxGames \in Nat

VARIABLES
    gameId, gameStarted,
    watchers,           \* fingerprint -> session
    players,            \* name -> Player
    playerNumberInGame, \* name -> number
    eatenPixels, alivePlayers,
    mq,
    loop,               \* the loop being run: "none", "start" or "turn"
    todo,               \* names the loop has yet to visit
    undefined,          \* the latest undefined behaviour, "none" before
    running             \* the process has not stopped

gameVars == <<gameId, gameStarted, playerNumberInGame, eatenPixels, alivePlayers>>
vars == <<gameVars, watchers, players, mq, loop, todo, undefined, running>>

NoName == 0
NoPixel == <<>>

Board == (0 .. Width - 1) \X (0 .. Height - 1)

\* floor(coords + a unit step), possibly off the board
Around(pixel) ==
    {<<pixel[1] + dx, pixel[2] + dy>> : dx \in {-1, 0, 1}, dy \in {-1, 0, 1}}

Player ==
    [fingerprint : Fingerprint, sessionId : Session, pixel : Board \cup {NoPixel},
     takesPart : BOOLEAN, disconnected : BOOLEAN, eliminated : BOOLEAN, ready : BOOLEAN]

Message ==
    [sessionId : Session, turning : BOOLEAN, nextExpected : NextExpected,
     name : Name \cup {NoName}]

\* The game events (messages.h); what an event's player number stands for is the
\* position of a name in the NEW_GAME event of its game.
NewGame(names)         == [type |-> "NEW_GAME", names |-> names]
Pixel(number, pixel)   == [type |-> "PIXEL", number |-> number, pixel |-> pixel]
PlayerEliminated(number) == [type |-> "PLAYER_ELIMINATED", number |-> number]
GameOver               == [type |-> "GAME_OVER"]

Init ==
    /\ gameId = 0
    /\ gameStarted = FALSE
    /\ watchers = EmptyMap
    /\ players = EmptyMap
    /\ playerNumberInGame = EmptyMap
    /\ eatenPixels = {}
    /\ alivePlayers = 0
    /\ \E id \in InitialGameIds : mq = NewMQManager(id)
    /\ loop = "none"
    /\ todo = {}
    /\ undefined = "none"
    /\ running = TRUE

-----------------------------------------------------------------------------
(* Undefined behaviour *)

Undefined == {"ackUnknown", "eraseInTurn", "eraseInMessage", "nobodyToServe"}

MayBreak(condition, what) ==
    IF condition
    THEN undefined' = what /\ running' \in BOOLEAN
    ELSE UNCHANGED <<undefined, running>>

\* ack, or nothing when it is undefined and the process goes on
AckIfKnown(q, f, n) == IF f \in DOMAIN q.queues THEN Ack(q, f, n) ELSE q

-----------------------------------------------------------------------------
(* Connections *)

NamesOf(ps, f) == {n \in DOMAIN ps : ps[n].fingerprint = f}

\* mutant: readiness survives
Remaining_KeepsReady(ps) ==
    [n \in {x \in DOMAIN ps : ~ps[x].disconnected} |-> ps[n]]

\* GameManager::eraseDisconnectedPlayers: everybody has to get ready again, the
\* disconnected players go, and so do the queues of their sockets.
Remaining(ps) ==
    [n \in {x \in DOMAIN ps : ~ps[x].disconnected} |-> [ps[n] EXCEPT !.ready = FALSE]]

Gone(ps) == {ps[n].fingerprint : n \in {x \in DOMAIN ps : ps[x].disconnected}}

\* mutant: a worm goes with its player
DropConnection_ErasesWorm(state, f) ==
    LET q == DropQueue(state.mq, f) IN
    IF f \in DOMAIN state.watchers
    THEN [state EXCEPT !.mq = q, !.watchers = Without(@, {f})]
    ELSE [state EXCEPT !.mq = q, !.players = Without(@, NamesOf(@, f))]

\* mutant: a watcher's queue stays
DropConnection_KeepsQueue(state, f) ==
    IF f \in DOMAIN state.watchers
    THEN [state EXCEPT !.watchers = Without(@, {f})]
    ELSE [state EXCEPT !.mq = DropQueue(@, f)]

\* GameManager::dropConnection, on what it changes.  Only the first player of the
\* socket is marked, and none if the socket is a watcher's.
DropConnection(state, f) ==
    LET q      == DropQueue(state.mq, f)
        named  == NamesOf(state.players, f)
        marked == IF named = {} THEN state.players
                  ELSE [state.players EXCEPT ![Min(named)].disconnected = TRUE]
    IN
    IF f \in DOMAIN state.watchers
    THEN [state EXCEPT !.mq = q, !.watchers = Without(@, {f})]
    ELSE IF gameStarted
    THEN [state EXCEPT !.mq = q, !.players = marked]
    ELSE [state EXCEPT !.mq = DropQueues(q, Gone(marked)), !.players = Remaining(marked)]

\* dropConnection k times in a row
DropConnections(state, f, k) ==
    LET after[i \in 0 .. k] == IF i = 0 THEN state ELSE DropConnection(after[i - 1], f)
    IN  after[k]

Connections == [watchers |-> watchers, players |-> players, mq |-> mq]

Become(state) ==
    /\ watchers' = state.watchers
    /\ players' = state.players
    /\ mq' = state.mq

-----------------------------------------------------------------------------
(* Starting and ending a game *)

\* GameManager::canStartGame
CanStartGame(ps) ==
    Cardinality(DOMAIN ps) > 1 /\ \A n \in DOMAIN ps : ps[n].ready

\* A player's number is its name's place in the map, from 0 on; emitNewGame lists
\* the names in the same order.
Number(n, names) == Cardinality({k \in names : k < n})

InOrder(names) ==
    [i \in 1 .. Cardinality(names) |-> CHOOSE n \in names : Number(n, names) = i - 1]

\* GameManager::startGame up to its loop
StartGame(state) ==
    LET names == DOMAIN state.players IN
    /\ gameId < MaxGames
    /\ gameId' = gameId + 1
    /\ gameStarted' = TRUE
    /\ alivePlayers' = Cardinality(names)
    /\ eatenPixels' = {}
    /\ playerNumberInGame' = [n \in names |-> Number(n, names)]
    /\ Become([state EXCEPT !.mq =
                 Schedule(@, gameId + 1, NewGame(InOrder(names)))])
    /\ loop' = "start"
    /\ todo' = names

\* The end of handleMessageFromPlayer
StartGameIfReady(state) ==
    IF ~gameStarted /\ CanStartGame(state.players)
    THEN StartGame(state)
    ELSE Become(state) /\ UNCHANGED <<gameVars, loop, todo>>

\* The loop goes on after visiting n.
LoopOn(n) ==
    /\ todo' = todo \ {n}
    /\ loop' = IF todo = {n} THEN "none" ELSE loop

\* mutant: the disconnected stay
EndGame_KeepsPlayers(ps, q) ==
    /\ gameStarted' = FALSE
    /\ players' = ps
    /\ mq' = Schedule(q, gameId, GameOver)
    /\ loop' = "none"
    /\ todo' = {}

\* GameManager::endGame, which also ends the loop it is called from
EndGame(ps, q) ==
    /\ gameStarted' = FALSE
    /\ players' = Remaining(ps)
    /\ mq' = DropQueues(Schedule(q, gameId, GameOver), Gone(ps))
    /\ loop' = "none"
    /\ todo' = {}

\* mutant: off by one
GameEnds_Late == alivePlayers - 1 < 1

\* The condition at the end of eliminatePlayer
GameEnds == alivePlayers - 1 < 2

\* GameManager::eliminatePlayer
EliminatePlayer(n, ps) ==
    LET eliminated == [ps EXCEPT ![n].eliminated = TRUE]
        q == Schedule(mq, gameId, PlayerEliminated(playerNumberInGame[n]))
    IN
    /\ alivePlayers' = alivePlayers - 1
    /\ IF GameEnds
       THEN EndGame(eliminated, q)
       ELSE /\ players' = eliminated
            /\ mq' = q
            /\ UNCHANGED gameStarted
            /\ LoopOn(n)
    /\ UNCHANGED eatenPixels

\* mutant: the pixel is not remembered
EatPixel_NotMarked(n, ps, pixel) ==
    /\ players' = [ps EXCEPT ![n].pixel = pixel]
    /\ mq' = Schedule(mq, gameId, Pixel(playerNumberInGame[n], pixel))
    /\ UNCHANGED <<eatenPixels, alivePlayers, gameStarted>>
    /\ LoopOn(n)

\* A worm takes a pixel nobody has eaten.
EatPixel(n, ps, pixel) ==
    /\ players' = [ps EXCEPT ![n].pixel = pixel]
    /\ eatenPixels' = eatenPixels \cup {pixel}
    /\ mq' = Schedule(mq, gameId, Pixel(playerNumberInGame[n], pixel))
    /\ UNCHANGED <<alivePlayers, gameStarted>>
    /\ LoopOn(n)

\* One round of the loop in startGame.  An elimination here can end the game only
\* in the last round, when nobody is disconnected.
PlacePlayer ==
    /\ running /\ loop = "start"
    /\ LET n  == Min(todo)
           ps == [players EXCEPT ![n].takesPart = TRUE, ![n].eliminated = FALSE]
       IN  \E pixel \in Board :
             IF pixel \in eatenPixels
             THEN EliminatePlayer(n, [ps EXCEPT ![n].pixel = pixel])
             ELSE EatPixel(n, ps, pixel)
    /\ UNCHANGED <<gameId, watchers, playerNumberInGame, undefined, running>>

\* mutant: the eliminated go on
Plays_Eliminated(n) == players[n].takesPart

Plays(n) == players[n].takesPart /\ ~players[n].eliminated

\* GameManager::runTurn up to its loop.  The loop passes over those who do not
\* play, and no visit changes that for another player.
RunTurn ==
    /\ running /\ loop = "none"
    /\ gameStarted
    /\ loop' = "turn"
    /\ todo' = {n \in DOMAIN players : Plays(n)}
    /\ UNCHANGED <<gameVars, watchers, players, mq, undefined, running>>

\* mutant: off by one
Crashes_OffByOne(pixel) ==
    pixel \notin (0 .. Width) \X (0 .. Height) \/ pixel \in eatenPixels

\* The tests in runTurn: off the board, or eaten
Crashes(pixel) == pixel \notin Board \/ pixel \in eatenPixels

\* One round of the loop in runTurn.  When it ends the game and the player it is
\* about is disconnected, endGame erases the map node the loop stands on.
MovePlayer ==
    /\ running /\ loop = "turn"
    /\ LET n == Min(todo) IN
       \E pixel \in Around(players[n].pixel) :
         \/ /\ pixel = players[n].pixel
            /\ LoopOn(n)
            /\ UNCHANGED <<gameStarted, alivePlayers, eatenPixels, players, mq, undefined, running>>
         \/ /\ pixel # players[n].pixel
            /\ Crashes(pixel)
            /\ EliminatePlayer(n, players)
            /\ MayBreak(GameEnds /\ players[n].disconnected, "eraseInTurn")
         \/ /\ pixel # players[n].pixel
            /\ ~Crashes(pixel)
            /\ EatPixel(n, players, pixel)
            /\ UNCHANGED <<undefined, running>>
    /\ UNCHANGED <<gameId, watchers, playerNumberInGame>>

-----------------------------------------------------------------------------
(* Messages from clients *)

Receives == running /\ loop = "none"

\* handleMessageFromWatcher of a socket not known yet
WatcherJoins(f, m) ==
    /\ Receives
    /\ m.name = NoName
    /\ f \notin DOMAIN watchers
    /\ NamesOf(players, f) = {}
    /\ watchers' = With(watchers, f, m.sessionId)
    /\ mq' = AddQueue(mq, f, m.nextExpected)
    /\ UNCHANGED <<gameVars, players, loop, todo, undefined, running>>

\* ... of a known watcher
WatcherAcknowledges(f, m) ==
    /\ Receives
    /\ m.name = NoName
    /\ f \in DOMAIN watchers
    /\ watchers[f] = m.sessionId
    /\ mq' = AckIfKnown(mq, f, m.nextExpected)
    /\ MayBreak(AckIsUndefined(mq, f), "ackUnknown")
    /\ UNCHANGED <<gameVars, watchers, players, loop, todo>>

\* mutant: the queue is dropped after it was added
WatcherRestarts_Swapped(f, m) ==
    /\ Receives
    /\ m.name = NoName
    /\ f \in DOMAIN watchers
    /\ watchers[f] < m.sessionId
    /\ watchers' = [watchers EXCEPT ![f] = m.sessionId]
    /\ mq' = DropQueue(AddQueue(mq, f, m.nextExpected), f)
    /\ UNCHANGED <<gameVars, players, loop, todo, undefined, running>>

\* ... of a watcher that was restarted
WatcherRestarts(f, m) ==
    /\ Receives
    /\ m.name = NoName
    /\ f \in DOMAIN watchers
    /\ watchers[f] < m.sessionId
    /\ watchers' = [watchers EXCEPT ![f] = m.sessionId]
    /\ mq' = AddQueue(DropQueue(mq, f), f, m.nextExpected)
    /\ UNCHANGED <<gameVars, players, loop, todo, undefined, running>>

\* handleMessageFromPlayer of a known name from its socket
PlayerPlays(f, m) ==
    /\ Receives
    /\ m.name \in DOMAIN players
    /\ players[m.name].fingerprint = f
    /\ LET ps == IF ~gameStarted /\ m.turning
                 THEN [players EXCEPT ![m.name].ready = TRUE]
                 ELSE players
       IN  StartGameIfReady([Connections EXCEPT !.players = ps,
                                                !.mq = AckIfKnown(@, f, m.nextExpected)])
    /\ MayBreak(AckIsUndefined(mq, f), "ackUnknown")

\* mutant: whoever joins takes part at once
Newcomer_TakesPart(f, m) ==
    [fingerprint |-> f, sessionId |-> m.sessionId, pixel |-> <<0, 0>>,
     takesPart |-> TRUE, disconnected |-> FALSE, eliminated |-> FALSE,
     ready |-> ~gameStarted /\ m.turning]

\* The player a new name adds
Newcomer(f, m) ==
    [fingerprint |-> f, sessionId |-> m.sessionId, pixel |-> NoPixel,
     takesPart |-> FALSE, disconnected |-> FALSE, eliminated |-> FALSE,
     ready |-> ~gameStarted /\ m.turning]

Outdated(f, m) == {n \in NamesOf(players, f) : players[n].sessionId < m.sessionId}

\* handleMessageFromPlayer of a new name.  The loop over the players drops the
\* connection once for each player of this socket with an older session; between
\* games that erases a player, and the first one erased may be the one the loop
\* stands on.
PlayerJoins(f, m) ==
    LET dropped == DropConnections(Connections, f, Cardinality(Outdated(f, m)))
        joined  == [dropped EXCEPT !.players = With(@, m.name, Newcomer(f, m)),
                                   !.mq = AddQueue(@, f, m.nextExpected)]
    IN
    /\ Receives
    /\ m.name \in Name \ DOMAIN players
    /\ IF Cardinality(DOMAIN dropped.players) = MaxPlayers
       THEN Become(dropped) /\ UNCHANGED <<gameVars, loop, todo>>
       ELSE StartGameIfReady(joined)
    /\ MayBreak(/\ ~gameStarted /\ f \notin DOMAIN watchers
                /\ NamesOf(players, f) # {}
                /\ Min(NamesOf(players, f)) \in Outdated(f, m), "eraseInMessage")

\* The early returns: a watcher's message from a player's socket or with an old
\* session, a player's name from another socket.
MessageIgnored(f, m) ==
    /\ Receives
    /\ \/ m.name = NoName /\ f \notin DOMAIN watchers /\ NamesOf(players, f) # {}
       \/ m.name = NoName /\ f \in DOMAIN watchers /\ watchers[f] > m.sessionId
       \/ m.name \in DOMAIN players /\ players[m.name].fingerprint # f
    /\ UNCHANGED vars

\* Server::cleanupObsoleteConnections of a socket that has been silent, whether it
\* belongs to a player, a watcher or nobody the game knows.
ConnectionExpires(f) ==
    /\ Receives
    /\ Become(DropConnection(Connections, f))
    /\ UNCHANGED <<gameVars, loop, todo, undefined, running>>

HandleMessage(f, m) ==
    \/ WatcherJoins(f, m)
    \/ WatcherAcknowledges(f, m)
    \/ WatcherRestarts(f, m)
    \/ PlayerPlays(f, m)
    \/ PlayerJoins(f, m)
    \/ MessageIgnored(f, m)

Next ==
    \/ \E f \in Fingerprint, m \in Message : HandleMessage(f, m)
    \/ \E f \in Fingerprint : ConnectionExpires(f)
    \/ RunTurn
    \/ PlacePlayer
    \/ MovePlayer

Spec == Init /\ [][Next]_vars
-----------------------------------------------------------------------------
(* Properties of the game *)

EventData ==
    [type : {"NEW_GAME"}, names : Seq(Name)]
    \cup [type : {"PIXEL"}, number : Nat, pixel : Board]
    \cup [type : {"PLAYER_ELIMINATED"}, number : Nat]
    \cup [type : {"GAME_OVER"}]

IsPartialMap(f, S, T) == DOMAIN f \subseteq S /\ f \in [DOMAIN f -> T]

\* The types: a player's pixel is always on the board, an event's too.
TypeOK ==
    /\ gameId \in Nat /\ gameStarted \in BOOLEAN
    /\ IsPartialMap(watchers, Fingerprint, Session)
    /\ IsPartialMap(players, Name, Player)
    /\ IsPartialMap(playerNumberInGame, Name, Nat)
    /\ eatenPixels \subseteq Board /\ alivePlayers \in Nat
    /\ IsManager(mq, Fingerprint, Nat, EventData)
    /\ loop \in {"none", "start", "turn"} /\ todo \subseteq DOMAIN players
    /\ undefined \in Undefined \cup {"none"} /\ running \in BOOLEAN

ToBePlaced == IF loop = "start" THEN todo ELSE {}

Alive == ToBePlaced \cup {n \in DOMAIN players : Plays(n)}

\* alivePlayers is counted down, never recounted: it is the number of worms that
\* move (while the game starts, with those still to be placed), and a game in
\* progress has at least two, whoever joins or disconnects meanwhile.
AliveCounted ==
    gameStarted =>
        /\ alivePlayers = Cardinality(Alive)
        /\ alivePlayers >= 2

\* The emit functions look a worm's number up without a test: whoever takes part
\* is numbered, and the numbered stay in the map until the game is over even when
\* they disconnect ("the worm of such a player does not disappear"), but no longer.
WormsAreNumbered ==
    IF gameStarted
    THEN /\ DOMAIN playerNumberInGame \subseteq DOMAIN players
         /\ \A n \in DOMAIN players \ DOMAIN playerNumberInGame : ~players[n].takesPart
    ELSE \A n \in DOMAIN players : ~players[n].disconnected

\* The games the manager keeps, the broadcast one first, and the events of the latest
Games ==
    <<[id |-> mq.currentlyBroadcastedGameId,
       events |-> [i \in DOMAIN mq.currentGameEvents |-> mq.currentGameEvents[i].data]]>>
    \o mq.nextGames

Log ==
    LET i == SelectInSeq(Games, LAMBDA g : g.id = gameId) IN
    IF i = 0 THEN <<>> ELSE Games[i].events

Eliminated == {Log[i].number : i \in {j \in DOMAIN Log : Log[j].type = "PLAYER_ELIMINATED"}}

\* What clients are told of a game is a whole game: NEW_GAME comes first and only
\* once, GAME_OVER last and exactly when the game has ended, and then all the
\* named players but one are eliminated.
LogIsAGame ==
    gameId # 0 =>
        /\ \A i \in DOMAIN Log : (Log[i].type = "NEW_GAME") <=> (i = 1)
        /\ \A i \in DOMAIN Log : (Log[i].type = "GAME_OVER") <=> (~gameStarted /\ i = Len(Log))
        /\ gameStarted \/ Cardinality(Eliminated) + 1 = Len(Log[1].names)

\* No pixel is taken twice in a game, and those the clients were told of are those
\* the server will not give again.
PixelsTakenOnce ==
    LET log    == Log
        pixels == {i \in DOMAIN log : log[i].type = "PIXEL"}
    IN  gameId # 0 =>
            /\ {log[i].pixel : i \in pixels} = eatenPixels
            /\ \A i, j \in pixels : log[i].pixel = log[j].pixel => i = j

\* A player's elimination is the last that is told of it.
SilentAfterElimination ==
    \A i, j \in DOMAIN Log :
        /\ i < j
        /\ Log[i].type = "PLAYER_ELIMINATED"
        /\ Log[j].type \in {"PIXEL", "PLAYER_ELIMINATED"}
        => Log[i].number # Log[j].number

\* canStartGame is asked only at the end of handleMessageFromPlayer.  That is
\* enough: at no other time are two players or more all ready and no game on.
NoMissedStart == Receives /\ ~gameStarted => ~CanStartGame(players)

-----------------------------------------------------------------------------
(* Properties of the connections *)

\* No queue outlives its client: every queue is a watcher's or a player's.  The
\* next game waits for all queues, so a queue nobody owns would hold it for ever.
NoOrphanQueues ==
    DOMAIN mq.queues \subseteq DOMAIN watchers \cup {players[n].fingerprint : n \in DOMAIN players}

\* A watcher always has a queue: its acknowledgements are defined, whatever
\* players share or shared its socket.
WatchersHaveQueues == DOMAIN watchers \subseteq DOMAIN mq.queues

\* The queues and the round-robin schedule agree through all of it.
QueuesConsistent == Consistent(mq)

-----------------------------------------------------------------------------
(* What the requirements say and the code does not do *)

\* "The server should be resistant to errors [...] run without having to be
\* restarted" (additional_requirements.txt:17): whatever clients do, nothing the
\* server does is undefined.
NothingUndefined == undefined = "none"
=============================================================================
