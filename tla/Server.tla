------------------------------- MODULE Server -------------------------------
(***************************************************************************)
(* The server's loop (Server::run, server_src/server.cpp) around the game  *)
(* manager: the tables of addresses and of the times clients were last     *)
(* heard of, the turn timer, reading and sending datagrams.                *)
(*                                                                         *)
(* A round of the loop takes up to three steps: the timer's, one datagram  *)
(* in, one datagram out.  poll may report any of them alone, so that the   *)
(* rounds are all sequences of such steps.  Time is left out: at any tick  *)
(* any sockets may have been silent for more than two seconds, be it that  *)
(* they were or that the system clock has jumped.                          *)
(***************************************************************************)
EXTENDS GameManager

VARIABLES
    clientAddrs,            \* the sockets whose address is known
    lastCommunicationTs     \* the sockets whose last datagram is timed

tables == <<clientAddrs, lastCommunicationTs>>
serverVars == <<vars, tables>>

ServerInit == Init /\ clientAddrs = {} /\ lastCommunicationTs = {}

\* The first part of readMessageFromClient, whatever the datagram says
NoteSender(f) ==
    /\ clientAddrs' = clientAddrs \cup {f}
    /\ lastCommunicationTs' = lastCommunicationTs \cup {f}

ReadMessage(f, m) == NoteSender(f) /\ HandleMessage(f, m)

\* A datagram that is no valid message
ReadNonsense(f) ==
    /\ Receives
    /\ NoteSender(f)
    /\ UNCHANGED vars

\* mutant: only those who are not watchers are dropped
Cleanup_PlayersOnly(silent) ==
    FoldSet(LAMBDA f, state : DropConnection(state, f), Connections, silent \ DOMAIN watchers)

\* cleanupObsoleteConnections drops the silent sockets one after another.
Cleanup(silent) ==
    FoldSet(LAMBDA f, state : DropConnection(state, f), Connections, silent)

\* The timer's tick: cleanupObsoleteConnections, then runTurn up to its loop.  A
\* connection dropped during a game takes no worm with it.
Tick ==
    /\ Receives
    /\ \E silent \in SUBSET lastCommunicationTs :
         /\ Become(Cleanup(silent))
         /\ clientAddrs' = clientAddrs \ silent
         /\ lastCommunicationTs' = lastCommunicationTs \ silent
    /\ IF gameStarted
       THEN loop' = "turn" /\ todo' = {n \in DOMAIN players : Plays(n)}
       ELSE UNCHANGED <<loop, todo>>
    /\ UNCHANGED <<gameVars, undefined, running>>

\* sendMessageToClient.  With nobody to send to getNextMessage still puts the next game on
\* air, before it asks for the first client of the empty schedule.
SendMessage ==
    /\ Receives
    /\ ~IsEmpty(mq)
    /\ IF DOMAIN mq.queues = {}
       THEN mq' = AdvanceGame(mq)
       ELSE \E m \in NextMessages(mq) :
              mq' \in {AfterGetNextMessage(mq), Ack(AfterGetNextMessage(mq), m.to, m.ack)}
    /\ MayBreak(DOMAIN mq.queues = {}, "nobodyToServe")
    /\ UNCHANGED <<gameVars, watchers, players, loop, todo, tables>>

ServerNext ==
    \/ \E f \in Fingerprint, m \in Message : ReadMessage(f, m)
    \/ \E f \in Fingerprint : ReadNonsense(f)
    \/ Tick
    \/ (PlacePlayer \/ MovePlayer) /\ UNCHANGED tables
    \/ SendMessage

ServerSpec == ServerInit /\ [][ServerNext]_serverVars

-----------------------------------------------------------------------------

\* sendMessageToClient looks the address of getNextMessage's client up without a test:
\* whoever has a queue has an address.  And it is timed, so that its queue, which the
\* next game waits for, goes when it falls silent.
QueuesAreAddressed ==
    DOMAIN mq.queues \subseteq clientAddrs /\ DOMAIN mq.queues \subseteq lastCommunicationTs

\* Games are broadcast in the order they were played, and only the latest one can
\* still get events: whatever waits before it is over.
GamesInOrder ==
    LET games == Games IN
    gameId # 0 =>
        /\ Last(games).id = gameId
        /\ \A i \in 1 .. Len(games) - 1 :
              /\ games[i].id + 1 = games[i + 1].id
              /\ games[i].id # 0 => Last(games[i].events) = GameOver

-----------------------------------------------------------------------------
(* What the requirements say and the code does not do *)

\* "No communication from a player for 2 seconds results in its disconnection", and a
\* larger session_id is "equivalent to disconnecting the existing client and connecting
\* a new one" (protocol_client_server.txt:137, 139): as long as a player is connected
\* its socket is timed and has a queue.
ConnectedAreServed ==
    undefined = "none" =>
        \A n \in DOMAIN players :
            ~players[n].disconnected =>
                players[n].fingerprint \in lastCommunicationTs \cap DOMAIN mq.queues
=============================================================================
