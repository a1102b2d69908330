----------------------------- MODULE MQManager -----------------------------
(***************************************************************************)
(* The message-queue manager as a state machine, driven by callers that    *)
(* keep to the order in which GameManager and Server call it:              *)
(*   - events are scheduled for the latest game only, a new game gets a    *)
(*     fresh identifier (here the next natural number);                    *)
(*   - only registered clients acknowledge;                                *)
(*   - getNextMessage is called when isEmpty() is false and somebody is    *)
(*     registered; its datagram is then sent, which fails or succeeds, and *)
(*     a success is acknowledged by the server itself (server.cpp:66).     *)
(* GameManager.tla shows how far the real callers keep to this.            *)
(*                                                                         *)
(* The k-th event scheduled for game g says <<g, k>>, so that no two       *)
(* events are alike and a lost or misplaced one shows.                     *)
(***************************************************************************)
EXTENDS MQOperations, FiniteSets

CONSTANTS
    Fingerprint,   \* client sockets
    InitialGameIds,\* what the uninitialised currentlyBroadcastedGameId may hold
    MaxGames,      \* bound: games scheduled
    MaxEvents,     \* bound: events of one game
    MaxCalls       \* bound: calls that register, drop, acknowledge or lose

ASSUME InitialGameIdsAssumption == InitialGameIds \subseteq Nat
ASSUME BoundsAssumption == MaxGames \in Nat /\ MaxEvents \in Nat /\ MaxCalls \in Nat

VARIABLES
    mq,         \* the manager
    calls,      \* how many bounded calls were made
    published,  \* history: for each game scheduled, how many events it has
    datagram,   \* history: the latest datagram handed out, or NoDatagram
    passedOver  \* history: for each client that is behind, who has been served
                \* since it was served itself or fell behind

vars == <<mq, calls, published, datagram, passedOver>>

EventData == Nat \X Nat

NoDatagram == [to |-> "nobody", gameId |-> 0, events |-> <<>>, ack |-> 0]

Datagram == [to : Fingerprint, gameId : Nat, events : Seq(NumberedEvent(EventData)), ack : Nat] \cup {NoDatagram}

Registered == DOMAIN mq.queues

Pending == {f \in Registered : IsPending(mq, f)}

\* The types; in particular only registered clients are in the schedule.
TypeOK ==
    /\ IsManager(mq, Fingerprint, Nat, EventData)
    /\ calls \in Nat
    /\ published \in Seq(Nat)
    /\ datagram \in Datagram
    /\ passedOver \in [Fingerprint -> SUBSET Fingerprint]

Init ==
    /\ \E id \in InitialGameIds : mq = NewMQManager(id)
    /\ calls = 0
    /\ published = <<>>
    /\ datagram = NoDatagram
    /\ passedOver = [f \in Fingerprint |-> {}]

-----------------------------------------------------------------------------

\* Who is behind after a step keeps its list, extended by the client just served.
PassOver(served) ==
    passedOver' = [f \in Fingerprint |->
                     CASE f \notin Pending' \/ f \in served -> {}
                       [] f \in Pending' \ served /\ f \in Pending -> passedOver[f] \cup served
                       [] OTHER -> served]

BoundedCall == calls < MaxCalls /\ calls' = calls + 1

\* saveEvent of a new game's first event
ScheduleNewGame ==
    LET g == Len(published) + 1 IN
    /\ g <= MaxGames
    /\ mq' = Schedule(mq, g, <<g, 1>>)
    /\ published' = Append(published, 1)
    /\ PassOver({})
    /\ UNCHANGED <<calls, datagram>>

\* saveEvent of a further event of the latest game
ScheduleEvent ==
    LET g == Len(published) IN
    /\ g # 0
    /\ published[g] < MaxEvents
    /\ mq' = Schedule(mq, g, <<g, published[g] + 1>>)
    /\ published' = [published EXCEPT ![g] = @ + 1]
    /\ PassOver({})
    /\ UNCHANGED <<calls, datagram>>

\* a client's message carries the number of the event it expects next
ClientAck(f, nextExpected) ==
    /\ BoundedCall
    /\ f \in Registered
    /\ mq' = Ack(mq, f, nextExpected)
    /\ PassOver({})
    /\ UNCHANGED <<published, datagram>>

Register(f, nextExpected) ==
    /\ BoundedCall
    /\ mq' = AddQueue(mq, f, nextExpected)
    /\ PassOver({})
    /\ UNCHANGED <<published, datagram>>

\* dropConnection of one client
Drop(f) ==
    /\ BoundedCall
    /\ mq' = DropQueue(mq, f)
    /\ PassOver({})
    /\ UNCHANGED <<published, datagram>>

CanSend == ~IsEmpty(mq) /\ Registered # {}

\* sendMessageToClient, sendto succeeds
SendSucceeds ==
    /\ CanSend
    /\ \E m \in NextMessages(mq) :
         /\ mq' = Ack(AfterGetNextMessage(mq), m.to, m.ack)
         /\ datagram' = m
         /\ PassOver({m.to})
    /\ UNCHANGED <<calls, published>>

\* sendMessageToClient, sendto fails: nothing is acknowledged
SendFails ==
    /\ BoundedCall
    /\ CanSend
    /\ \E m \in NextMessages(mq) :
         /\ mq' = AfterGetNextMessage(mq)
         /\ datagram' = m
         /\ PassOver({m.to})
    /\ UNCHANGED published

Next ==
    \/ ScheduleNewGame
    \/ ScheduleEvent
    \/ \E f \in Fingerprint, n \in 0 .. MaxEvents : ClientAck(f, n)
    \/ \E f \in Fingerprint, n \in 0 .. MaxEvents : Register(f, n)
    \/ \E f \in Fingerprint : Drop(f)
    \/ SendSucceeds
    \/ SendFails

Spec == Init /\ [][Next]_vars

\* The server's loop polls for POLLOUT whenever the manager is not empty
\* (server.cpp:113-116), so a datagram is eventually sent; the calls that
\* could disturb it for ever are bounded by MaxCalls.
FairSpec == Spec /\ WF_vars(SendSucceeds)

-----------------------------------------------------------------------------

\* The schedule, whose front getNextMessage takes to look up a queue, lists every
\* registered client exactly once; and no queue is beyond the events of the broadcast
\* game, from where getNextMessage reads on, although clients acknowledge what they like
\* and a change of game replaces those events.
QueuesConsistent == Consistent(mq)

\* The unbounded loop of getNextMessage ends whenever the server enters it with a
\* client registered: after the change of game, somebody in the schedule is behind.
GetNextMessageEnds == CanSend => TurnOf(AdvanceGame(mq)) # 0

\* Round robin: a client that was served while another is behind stays after
\* that one in the schedule until the other's turn.
ServedWaitBehind ==
    LET s == mq.clientsToServeSchedule IN
    \A f \in Pending : \A g \in passedOver[f] :
        \A i, j \in DOMAIN s : s[i] = f /\ s[j] = g => i < j

\* What it is for: the client served next has not been served since any other
\* client that waits was served or fell behind.
NoOvertaking ==
    [][SendSucceeds \/ SendFails =>
          \A f \in Pending \ {datagram'.to} : datagram'.to \notin passedOver[f]]_vars

-----------------------------------------------------------------------------

\* Nobody starves: a client that is behind is eventually handed a datagram,
\* unless it catches up or leaves before.
BehindIsServed ==
    \A f \in Fingerprint : (f \in Pending) ~> (datagram.to = f \/ f \notin Pending)

\* "The server sends such a message to all clients after a new event appears"
\* (protocol_client_server.txt): a game that waits does not wait for ever while
\* clients are registered.
WaitingGameIsBroadcast ==
    (mq.nextGames # <<>>) ~> (mq.nextGames = <<>> \/ Registered = {})

=============================================================================
