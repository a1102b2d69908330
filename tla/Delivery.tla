------------------------------ MODULE Delivery ------------------------------
(***************************************************************************)
(* The way of an event from the game to the user interfaces: the message   *)
(* queues of the server and clients, joined by a network that loses,       *)
(* repeats, delays and reorders datagrams.                                 *)
(*                                                                         *)
(* The clients here are watchers, whose handling is short; what players do *)
(* besides is in GameManager, and their queues are not different.  Games   *)
(* are played by others: a game is a NEW_GAME, worms that move and are     *)
(* eliminated, and a GAME_OVER; game g + 1 starts when game g is over.     *)
(***************************************************************************)
EXTENDS MQOperations, ClientOperations, FiniteSets

CONSTANTS
    Fingerprint,    \* the clients' sockets
    Uninitialised,  \* what a client's uninitialised nextWantedEventNo may hold
    MaxGames,       \* bound: games played
    GameLength,     \* bound: events of each game
    Capacity,       \* bound: datagrams on their way to one client
    Requests,       \* bound: messages of one session of a client on their way
    MaxFaults       \* bound: what the network, sendto and the clients do wrong

ASSUME DeliveryAssumption ==
    /\ Uninitialised \subseteq Nat /\ MaxGames \in Nat /\ GameLength \in Nat \ {0, 1}
    /\ Capacity \in Nat /\ Requests \in Nat /\ MaxFaults \in Nat

VARIABLES
    mq,         \* the server's message queues
    watchers,   \* fingerprint -> session
    published,  \* history: for each game played, how many events it has
    clients,    \* fingerprint -> client, see ClientOperations
    sessions,   \* fingerprint -> session of the client there
    exited,     \* fingerprints of clients that ended over a senseless event
    inbound,    \* datagrams to the server on their way
    outbound,   \* datagrams to clients on their way
    told,       \* history: fingerprint -> what its interface was told of its game
    faults

serverVars == <<mq, watchers>>
clientVars == <<clients, sessions, exited, told>>
vars == <<serverVars, clientVars, published, inbound, outbound, faults>>

EventOf(g, k) ==
    [game |-> g, type |-> CASE k = 0 -> "NEW_GAME"
                            [] k = GameLength - 1 -> "GAME_OVER"
                            [] OTHER -> IF (g + k) % 2 = 0 THEN "PIXEL" ELSE "PLAYER_ELIMINATED"]

Init ==
    /\ mq = NewMQManager(NoGame)
    /\ watchers = EmptyMap
    /\ published = <<>>
    /\ clients \in [Fingerprint -> {NewClient(n) : n \in Uninitialised}]
    /\ sessions = [f \in Fingerprint |-> 1]
    /\ exited = {}
    /\ inbound = {} /\ outbound = {}
    /\ told = [f \in Fingerprint |-> <<>>]
    /\ faults = 0

Fault == faults < MaxFaults /\ faults' = faults + 1

-----------------------------------------------------------------------------
(* The server *)

\* saveEvent of a game's next event
Publish ==
    /\ LET g == Len(published) IN
       IF g # 0 /\ published[g] < GameLength
       THEN /\ mq' = Schedule(mq, g, EventOf(g, published[g]))
            /\ published' = [published EXCEPT ![g] = @ + 1]
       ELSE /\ g < MaxGames
            /\ mq' = Schedule(mq, g + 1, EventOf(g + 1, 0))
            /\ published' = Append(published, 1)
    /\ UNCHANGED <<watchers, clientVars, inbound, outbound, faults>>

\* handleMessageFromWatcher: a new socket, the same session, a larger one, a smaller one
HandleMessage(m) ==
    \/ /\ m.from \notin DOMAIN watchers
       /\ watchers' = [f \in DOMAIN watchers \cup {m.from} |->
                          IF f = m.from THEN m.sessionId ELSE watchers[f]]
       /\ mq' = AddQueue(mq, m.from, m.nextExpected)
    \/ /\ m.from \in DOMAIN watchers
       /\ m.sessionId = watchers[m.from]
       /\ mq' = Ack(mq, m.from, m.nextExpected)
       /\ UNCHANGED watchers
    \/ /\ m.from \in DOMAIN watchers
       /\ m.sessionId > watchers[m.from]
       /\ watchers' = [watchers EXCEPT ![m.from] = m.sessionId]
       /\ mq' = AddQueue(DropQueue(mq, m.from), m.from, m.nextExpected)
    \/ /\ m.from \in DOMAIN watchers
       /\ m.sessionId < watchers[m.from]
       /\ UNCHANGED serverVars

ServerReceives(m) ==
    /\ m \in inbound
    /\ inbound' = inbound \ {m}
    /\ HandleMessage(m)
    /\ UNCHANGED <<clientVars, published, outbound, faults>>

\* A datagram may be repeated by the network.
ServerReceivesAgain(m) ==
    /\ m \in inbound
    /\ HandleMessage(m)
    /\ Fault
    /\ UNCHANGED <<clientVars, published, inbound, outbound>>

\* cleanupObsoleteConnections: all messages of two seconds were lost.
WatcherExpires(f) ==
    /\ f \in DOMAIN watchers
    /\ watchers' = Without(watchers, {f})
    /\ mq' = DropQueue(mq, f)
    /\ Fault
    /\ UNCHANGED <<clientVars, published, inbound, outbound>>

\* sendMessageToClient; when sendto fails nothing is acknowledged.  Nobody receives
\* what is sent to a client that has ended.
CanSend == ~IsEmpty(mq) /\ DOMAIN mq.queues # {}

OnTheirWay(f) == {d \in outbound : d.to = f}

ServerSends ==
    /\ CanSend
    /\ \E m \in NextMessages(mq) :
         /\ Cardinality(OnTheirWay(m.to)) < Capacity
         /\ mq' = Ack(AfterGetNextMessage(mq), m.to, m.ack)
         /\ outbound' = outbound \cup
              {[to |-> f, gameId |-> m.gameId, events |-> m.events] : f \in {m.to} \ exited}
    /\ UNCHANGED <<watchers, clientVars, published, inbound, faults>>

SendFails ==
    /\ CanSend
    /\ mq' = AfterGetNextMessage(mq)
    /\ Fault
    /\ UNCHANGED <<watchers, clientVars, published, inbound, outbound>>

-----------------------------------------------------------------------------
(* The clients *)

\* The timer and sendMessageToServer
ClientSends(f) ==
    /\ f \notin exited
    /\ Cardinality({m \in inbound : m.from = f /\ m.sessionId = sessions[f]}) < Requests
    /\ inbound' = inbound \cup {[from |-> f, sessionId |-> sessions[f],
                                 nextExpected |-> clients[f].nextWantedEventNo]}
    /\ UNCHANGED <<serverVars, clientVars, published, outbound, faults>>

\* The client at f after it has read a datagram: processMessageFromServer
Shows(f, c) ==
    /\ clients' = [clients EXCEPT ![f] = Drain(c)]
    /\ told' = [told EXCEPT ![f] = (IF c.gameId = clients[f].gameId THEN @ ELSE <<>>) \o Told(c)]
    /\ UNCHANGED <<sessions, exited>>

Reads(d) ==
    LET f == d.to
        c == clients[f]
    IN
    \/ /\ d.gameId = c.gameId
       /\ ~IsSenseless(c, d)
       /\ \E next \in {ReadCurrentGame(c, d)} : Shows(f, next)
    \/ /\ IsSenseless(c, d)
       /\ exited' = exited \cup {f}
       /\ UNCHANGED <<clients, sessions, told>>
    \/ /\ d.gameId \notin c.seenGameIds
       /\ \E next \in {ReadNewGame(c, d)} : Shows(f, next)
    \/ /\ d.gameId \in c.seenGameIds \ {c.gameId}
       /\ UNCHANGED clientVars

ClientReceives(d) ==
    /\ d \in outbound
    /\ Reads(d)
    /\ outbound' = {e \in outbound \ {d} : e.to \notin exited'}
    /\ UNCHANGED <<serverVars, published, inbound, faults>>

ClientReceivesAgain(d) ==
    /\ d \in outbound
    /\ Reads(d)
    /\ outbound' = {e \in outbound : e.to \notin exited'}
    /\ Fault
    /\ UNCHANGED <<serverVars, published, inbound>>

\* A client is started again, on the socket address it had.
ClientRestarts(f) ==
    /\ \E n \in Uninitialised : clients' = [clients EXCEPT ![f] = NewClient(n)]
    /\ sessions' = [sessions EXCEPT ![f] = @ + 1]
    /\ exited' = exited \ {f}
    /\ told' = [told EXCEPT ![f] = <<>>]
    /\ Fault
    /\ UNCHANGED <<serverVars, published, inbound, outbound>>

\* The network loses a datagram.
Lose ==
    /\ \/ \E m \in inbound : inbound' = inbound \ {m} /\ UNCHANGED outbound
       \/ \E d \in outbound : outbound' = outbound \ {d} /\ UNCHANGED inbound
    /\ Fault
    /\ UNCHANGED <<serverVars, clientVars, published>>

Next ==
    \/ Publish
    \/ \E m \in inbound : ServerReceives(m) \/ ServerReceivesAgain(m)
    \/ \E f \in Fingerprint : WatcherExpires(f)
    \/ ServerSends
    \/ SendFails
    \/ \E f \in Fingerprint : ClientSends(f)
    \/ \E d \in outbound : ClientReceives(d) \/ ClientReceivesAgain(d)
    \/ \E f \in Fingerprint : ClientRestarts(f)
    \/ Lose

Spec == Init /\ [][Next]_vars

\* A datagram with the event the client asks for arrives.
ReceivesWanted(f) ==
    \E d \in outbound :
        /\ d.to = f
        /\ \E e \in ToSet(d.events) : e.no = clients[f].nextWantedEventNo
        /\ ClientReceives(d)

\* Every client sends every 30 ms, the server sends whenever poll finds its socket
\* writable, and a datagram that is not lost is not held back for ever.
FairSpec ==
    /\ Spec
    /\ WF_vars(ServerSends)
    /\ \A f \in Fingerprint :
         /\ WF_vars(ClientSends(f))
         /\ WF_vars(\E m \in inbound : m.from = f /\ ServerReceives(m))
         /\ WF_vars(\E d \in outbound : d.to = f /\ ClientReceives(d))
         /\ WF_vars(ReceivesWanted(f))

-----------------------------------------------------------------------------
(* Properties *)

\* The types: queues and schedule stay consistent, each watcher has a queue, and the
\* network carries nothing but messages of clients and events of games.
TypeOK ==
    /\ Consistent(mq) /\ DOMAIN mq.queues = DOMAIN watchers
    /\ published \in Seq(1 .. GameLength)
    /\ \A f \in Fingerprint : clients[f].nextWantedEventNo \in Nat /\ sessions[f] \in Nat
    /\ \A m \in inbound : m.from \in Fingerprint /\ m.nextExpected \in Nat
    /\ \A d \in outbound : d.to \in Fingerprint /\ d.gameId \in DOMAIN published /\ d.events # <<>>
    /\ exited \subseteq Fingerprint

\* End to end: what an interface is told of a game is what was played, from its first
\* event on in order and without a gap, however the datagrams and the acknowledgements
\* went astray; and the names in it are those of the game.  The exception is the line of
\* NEW_GAME when NEW_GAME was not in the first datagram that the client got of the game:
\* it is written with the names of an earlier game, or none (client.cpp:69-103).
ToldAsPlayed ==
    \A f \in Fingerprint : \A i \in DOMAIN told[f] :
        LET t == told[f][i] IN
        /\ t.game = clients[f].gameId
        /\ t.game \in DOMAIN published
        /\ i <= published[t.game]
        /\ t.event = [no |-> i - 1, data |-> EventOf(t.game, i - 1)]
        /\ \/ t.event.data.type = "GAME_OVER"
           \/ t.names = t.game
           \/ t.event.data.type = "NEW_GAME" /\ ~clients[f].playersInGame

\* What Broadcast speaks of: the game a client is at, those it has seen, and the numbers
\* of the events its interface was told.
Follows  == [f \in Fingerprint |-> clients[f].gameId]
Followed == [f \in Fingerprint |-> clients[f].seenGameIds]

NumbersOf(t) == [i \in DOMAIN t |-> [game |-> t[i].game, no |-> t[i].event.no]]
Shown        == [f \in Fingerprint |-> NumbersOf(told[f])]

Watched == INSTANCE Broadcast WITH
    Watcher <- Fingerprint, follows <- Follows, followed <- Followed, shown <- Shown

\* The system implements Broadcast: whatever happens between the queues and the clients,
\* an interface is told of one game at a time, of each the beginning, which only grows,
\* and never again of a game that its client has left (client.cpp:69, 98-105).
KeepsBroadcast == Watched!BroadcastSpec

\* As long as there is no second game, every client that does not end is told whatever
\* was played, in spite of lost datagrams, failing sends and restarts.  (With a second
\* one a client may wait for ever, see MQManager!WaitingGameIsBroadcast.  A client that
\* starts with a made-up number may not be told either: Uninitialised = {0} for this.)
EverybodyIsTold ==
    [](Len(published) <= 1) =>
        []<>(\A f \in Fingerprint \ exited :
                published # <<>> => clients[f].nextWantedEventNo = published[1])

\* "A record with a correct checksum [...] but with senseless values" is the one reason
\* to end (additional_requirements.txt:10), and the server sends none.
EndsOnlyForNonsense == exited = {}
=============================================================================
