---------------------------- MODULE MQOperations ----------------------------
(***************************************************************************)
(* The operations of class MQManager (server_src/game.h:18, game.cpp:5-87) *)
(* as operators on one record, the state of a message-queue manager:       *)
(*                                                                         *)
(*   nextGames               games waiting to be broadcast, oldest first,  *)
(*                           each with its events not yet numbered         *)
(*   queues                  per registered client, the number of the next *)
(*                           event of the current game to send to it       *)
(*   clientsToServeSchedule  the round-robin order of the clients          *)
(*   currentGameEvents       the numbered events of the broadcast game     *)
(*   currentlyBroadcastedGameId                                            *)
(*                                                                         *)
(* Fingerprints, game identifiers and events are whatever the module that  *)
(* uses these operators chooses.                                           *)
(***************************************************************************)
EXTENDS Naturals, Sequences, SequencesExt

\* Partial maps (std::map) are functions; these are the map's assignment, its erase
\* and the empty map.
With(f, k, v) == [x \in DOMAIN f \cup {k} |-> IF x = k THEN v ELSE f[x]]
Without(f, S) == [x \in DOMAIN f \ S |-> f[x]]
EmptyMap == [x \in {} |-> 0]

Least(m, n) == IF m <= n THEN m ELSE n

\* A manager as constructed.  The constructor leaves the identifier of the
\* broadcast game uninitialised, so it is a parameter.
NewMQManager(id) ==
    [nextGames |-> <<>>, queues |-> EmptyMap, clientsToServeSchedule |-> <<>>,
     currentGameEvents |-> <<>>, currentlyBroadcastedGameId |-> id]

\* A manager that has the members of F registered (a game waits only once it has
\* an event), and what makes it consistent.
NumberedEvent(Data) == [no : Nat, data : Data]

WaitingGame(GameIds, Data) == [id : GameIds, events : Seq(Data) \ {<<>>}]

ManagerOf(F, GameIds, Data) ==
    [nextGames : Seq(WaitingGame(GameIds, Data)),
     queues : [F -> Nat],
     clientsToServeSchedule : Seq(F),
     currentGameEvents : Seq(NumberedEvent(Data)),
     currentlyBroadcastedGameId : GameIds]

IsManager(mq, Clients, GameIds, Data) ==
    \E F \in SUBSET Clients : mq \in ManagerOf(F, GameIds, Data)

Enumerates(s, S) == ToSet(s) = S /\ IsInjective(s)

QueuesInRange(mq) == \A f \in DOMAIN mq.queues : mq.queues[f] <= Len(mq.currentGameEvents)

Consistent(mq) ==
    /\ Enumerates(mq.clientsToServeSchedule, DOMAIN mq.queues)
    /\ QueuesInRange(mq)

-----------------------------------------------------------------------------

\* An event takes its number from its position in the broadcast game.
Numbered(events) == [i \in DOMAIN events |-> [no |-> i - 1, data |-> events[i]]]

\* MQManager::schedule
Schedule(mq, gameId, event) ==
    LET waiting == SelectInSeq(mq.nextGames, LAMBDA g : g.id = gameId) IN
    CASE gameId = mq.currentlyBroadcastedGameId ->
           [mq EXCEPT !.currentGameEvents = Append(@, [no |-> Len(@), data |-> event])]
      [] gameId # mq.currentlyBroadcastedGameId /\ waiting # 0 ->
           [mq EXCEPT !.nextGames[waiting].events = Append(@, event)]
      [] OTHER ->
           [mq EXCEPT !.nextGames = Append(@, [id |-> gameId, events |-> <<event>>])]

\* queue.second < currentGameEvents.size(), for one client and for any
IsPending(mq, f) == mq.queues[f] < Len(mq.currentGameEvents)

HasPendingMessages(mq) == \E f \in DOMAIN mq.queues : IsPending(mq, f)

IsEmpty(mq) == ~HasPendingMessages(mq) /\ mq.nextGames = <<>>

\* mutants: whatever the client claims; never back to what was lost
Ack_Unclamped(mq, f, nextExpected) ==
    IF mq.nextGames = <<>> THEN [mq EXCEPT !.queues[f] = nextExpected] ELSE mq

Ack_NeverBack(mq, f, nextExpected) ==
    IF mq.nextGames = <<>> /\ nextExpected > mq.queues[f]
    THEN [mq EXCEPT !.queues[f] = Least(Len(mq.currentGameEvents), nextExpected)]
    ELSE mq

\* MQManager::ack of a registered client
Ack(mq, f, nextExpected) ==
    IF mq.nextGames = <<>>
    THEN [mq EXCEPT !.queues[f] = Least(Len(mq.currentGameEvents), nextExpected)]
    ELSE mq

\* MQManager::ack writes through queues.find(f) without looking whether f is
\* there; for an unregistered f that is undefined behaviour.
AckIsUndefined(mq, f) == mq.nextGames = <<>> /\ f \notin DOMAIN mq.queues

\* mutants: the client keeps its turn; the client keeps its queue
DropQueue_KeepsTurn(mq, f) == [mq EXCEPT !.queues = Without(@, {f})]

DropQueue_KeepsQueue(mq, f) ==
    [mq EXCEPT !.clientsToServeSchedule = RemoveFirst(@, f)]

\* MQManager::dropQueue
DropQueue(mq, f) ==
    [mq EXCEPT !.queues = Without(@, {f}), !.clientsToServeSchedule = RemoveFirst(@, f)]

\* dropQueue for each client of a set, in any order
DropQueues(mq, S) == FoldSet(LAMBDA f, m : DropQueue(m, f), mq, S)

\* mutant: registering twice
AddQueue_NoCheck(mq, f, nextExpected) ==
    [mq EXCEPT !.queues = With(@, f, Least(Len(mq.currentGameEvents), nextExpected)),
               !.clientsToServeSchedule = Append(@, f)]

\* MQManager::addQueue
AddQueue(mq, f, nextExpected) ==
    IF f \in DOMAIN mq.queues
    THEN mq
    ELSE [mq EXCEPT !.queues = With(@, f, Least(Len(mq.currentGameEvents), nextExpected)),
                    !.clientsToServeSchedule = Append(@, f)]

-----------------------------------------------------------------------------

\* mutants: not waiting for the clients that are behind; the latest game first; the
\* events of the last game stay
AdvanceGame_Eager(mq) ==
    IF mq.nextGames # <<>>
    THEN [nextGames                  |-> Tail(mq.nextGames),
          queues                     |-> [f \in DOMAIN mq.queues |-> 0],
          clientsToServeSchedule     |-> mq.clientsToServeSchedule,
          currentGameEvents          |-> Numbered(Head(mq.nextGames).events),
          currentlyBroadcastedGameId |-> Head(mq.nextGames).id]
    ELSE mq

AdvanceGame_LatestFirst(mq) ==
    IF ~HasPendingMessages(mq) /\ mq.nextGames # <<>>
    THEN [mq EXCEPT !.nextGames = Front(@),
                    !.queues = [f \in DOMAIN @ |-> 0],
                    !.currentGameEvents = Numbered(Last(mq.nextGames).events),
                    !.currentlyBroadcastedGameId = Last(mq.nextGames).id]
    ELSE mq

AdvanceGame_KeepsEvents(mq) ==
    IF ~HasPendingMessages(mq) /\ mq.nextGames # <<>>
    THEN [mq EXCEPT !.nextGames = Tail(@),
                    !.queues = [f \in DOMAIN @ |-> 0],
                    !.currentGameEvents = @ \o Numbered(Head(mq.nextGames).events),
                    !.currentlyBroadcastedGameId = Head(mq.nextGames).id]
    ELSE mq

\* MQManager::getNextMessage, first half: when every client has everything, the
\* oldest waiting game becomes the broadcast one and all clients start over.
AdvanceGame(mq) ==
    IF ~HasPendingMessages(mq) /\ mq.nextGames # <<>>
    THEN [nextGames                  |-> Tail(mq.nextGames),
          queues                     |-> [f \in DOMAIN mq.queues |-> 0],
          clientsToServeSchedule     |-> mq.clientsToServeSchedule,
          currentGameEvents          |-> Numbered(Head(mq.nextGames).events),
          currentlyBroadcastedGameId |-> Head(mq.nextGames).id]
    ELSE mq

\* Second half: the loop rotates the schedule up to and including the first
\* client that is behind.  It calls front() on an empty deque when no client is
\* registered.
TurnOf(mq) == SelectInSeq(mq.clientsToServeSchedule, LAMBDA f : IsPending(mq, f))

Rotate(s, i) == SubSeq(s, i + 1, Len(s)) \o SubSeq(s, 1, i)

\* The client to serve next and the manager after getNextMessage.  How many
\* events the datagram takes (fromEvents) is the caller's choice, within what
\* there is to send.  The client's queue does not move.
Recipient(mq) == LET m == AdvanceGame(mq) IN m.clientsToServeSchedule[TurnOf(m)]

\* mutant: the schedule is not rotated
AfterGetNextMessage_NoRotation(mq) == AdvanceGame(mq)

AfterGetNextMessage(mq) ==
    LET m == AdvanceGame(mq) IN
    [m EXCEPT !.clientsToServeSchedule = Rotate(@, TurnOf(m))]

\* The possible datagrams for the next client: at least one event, in order,
\* from the first one it lacks.
NextMessages(mq) ==
    LET m     == AdvanceGame(mq)
        f     == Recipient(mq)
        first == m.queues[f]
    IN  {[to |-> f, gameId |-> m.currentlyBroadcastedGameId,
          events |-> SubSeq(m.currentGameEvents, first + 1, upTo), ack |-> upTo] :
            upTo \in (first + 1) .. Len(m.currentGameEvents)}
=============================================================================
