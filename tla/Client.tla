------------------------------- MODULE Client -------------------------------
(***************************************************************************)
(* A client between the server and the user interface: class Client, with  *)
(* its socket to the interface (class TcpSocket, common/sockets.cpp).  It  *)
(* is one thread: each branch of the body of its loop is an action.        *)
(*                                                                         *)
(* The server and the network are outside.  The log of a game is what the  *)
(* server publishes of it; a datagram carries a part of a log, and any     *)
(* datagram may arrive at any time, never, or several times.  When the     *)
(* checksum of a record is wrong the client keeps the records before it,   *)
(* which makes a shorter datagram.                                         *)
(*                                                                         *)
(* A line for the interface is two bytes, so that it can be cut.           *)
(***************************************************************************)
EXTENDS ClientOperations

CONSTANTS
    Game,           \* identifiers, all different
    LogLength,      \* events of a game
    Uninitialised,  \* what a member the constructor leaves out may hold
    Token,          \* keys and Newline: what the interface writes
    MaxTokens       \* bound: tokens read from the interface

ASSUME GamesAssumption == Game \subseteq Nat \ {NoGame} /\ LogLength \in Nat
ASSUME InputAssumption == Uninitialised \subseteq Nat /\ MaxTokens \in Nat

VARIABLES
    client,
    messageReady, turnDirection,
    outBuffer, inBuffer, unreadNewlines,
    exited,         \* "no", or why the process has ended
    told,           \* history: the events handed to writeData
    received,       \* history: the bytes the interface got
    tokens          \* how many tokens were read

inputVars == <<turnDirection, inBuffer, unreadNewlines, tokens>>
vars == <<client, told, inputVars, messageReady, outBuffer, exited, received>>

Newline == "newline"

\* Worms move and are eliminated, in some order that is not the same in all games.
Event(g, n) ==
    [no   |-> n,
     data |-> [game |-> g,
               type |-> CASE n = 0 -> "NEW_GAME"
                          [] n # 0 /\ n = LogLength - 1 -> "GAME_OVER"
                          [] OTHER -> IF (g + n) % 2 = 0 THEN "PIXEL" ELSE "PLAYER_ELIMINATED"]]

Part(g, from, upTo) ==
    [gameId |-> g, events |-> [i \in 1 .. upTo - from |-> Event(g, from + i - 1)]]

Datagram ==
    {Part(g, range[1], range[2]) : g \in Game,
         range \in {r \in (0 .. LogLength) \X (0 .. LogLength) : r[1] <= r[2]}}

Init ==
    /\ \E n \in Uninitialised : client = NewClient(n)
    /\ messageReady = FALSE /\ turnDirection = "straight"
    /\ outBuffer = <<>> /\ inBuffer = <<>> /\ unreadNewlines = 0
    /\ exited = "no" /\ told = <<>> /\ received = <<>> /\ tokens = 0

Runs == exited = "no"

Exit(why) ==
    /\ exited' = why
    /\ UNCHANGED <<client, told, inputVars, messageReady, outBuffer, received>>

-----------------------------------------------------------------------------
(* From the server to the interface *)

\* eventToMessageForGui: two bytes, none for GAME_OVER
Line(t) ==
    IF t.event.data.type = "GAME_OVER" THEN <<>>
    ELSE <<[game |-> t.game, no |-> t.event.no, half |-> 1],
           [game |-> t.game, no |-> t.event.no, half |-> 2]>>

Bytes(ts) == FlattenSeq([i \in DOMAIN ts |-> Line(ts[i])])

\* The client after it has read a datagram, and writeData of the lines
Show(c) ==
    /\ client' = Drain(c)
    /\ told' = told \o Told(c)
    /\ outBuffer' = outBuffer \o Bytes(Told(c))
    /\ UNCHANGED <<inputVars, messageReady, exited, received>>

Receives(d) == Runs /\ d \in Datagram

ReceiveOfCurrentGame(d) ==
    /\ Receives(d)
    /\ d.gameId = client.gameId
    /\ IF IsSenseless(client, d) THEN Exit("senseless") ELSE Show(ReadCurrentGame(client, d))

ReceiveOfNewGame(d) ==
    /\ Receives(d)
    /\ d.gameId \notin client.seenGameIds \cup {client.gameId}
    /\ Show(ReadNewGame(client, d))

\* A strayed one of an earlier game
ReceiveOfSeenGame(d) ==
    /\ Receives(d)
    /\ d.gameId \in client.seenGameIds \ {client.gameId}
    /\ UNCHANGED vars

\* mutant: the rest of the buffer is lost
AfterWrite_Cleared(buffer, n) == <<>>

\* What flushOutgoing keeps after n bytes were written
AfterWrite(buffer, n) == SubSeq(buffer, n + 1, Len(buffer))

\* mutant: one byte is not worth writing
HasPendingOutgoingData_Many(buffer) == Len(buffer) > 1

HasPendingOutgoingData(buffer) == buffer # <<>>

\* TcpSocket::flushOutgoing; the interface may have closed the connection.
FlushOutgoing ==
    /\ Runs
    /\ HasPendingOutgoingData(outBuffer)
    /\ \/ \E n \in 1 .. Len(outBuffer) :
            /\ received' = received \o SubSeq(outBuffer, 1, n)
            /\ outBuffer' = AfterWrite(outBuffer, n)
            /\ UNCHANGED <<client, told, inputVars, messageReady, exited>>
       \/ Exit("closed")

-----------------------------------------------------------------------------
(* From the interface to the server *)

\* TcpSocket::readline without a line in the buffer: one read
ReadFromGui ==
    /\ Runs
    /\ unreadNewlines = 0
    /\ \/ /\ tokens < MaxTokens
          /\ \E chunk \in BoundedSeq(Token, MaxTokens - tokens) :
               /\ chunk # <<>>
               /\ inBuffer' = inBuffer \o chunk
               /\ unreadNewlines' = Cardinality({i \in DOMAIN chunk : chunk[i] = Newline})
               /\ tokens' = tokens + Len(chunk)
          /\ UNCHANGED <<client, told, turnDirection, messageReady, outBuffer, exited, received>>
       \/ Exit("closed")

\* readUpdateFromGui of one line
Turned(direction, line) ==
    CASE line = <<"LEFT_KEY_DOWN">> -> "left"
      [] line = <<"RIGHT_KEY_DOWN">> -> "right"
      [] line = <<"LEFT_KEY_UP">> /\ direction = "left" -> "straight"
      [] line = <<"RIGHT_KEY_UP">> /\ direction = "right" -> "straight"
      [] OTHER -> direction

\* mutant: the newline stays in the buffer
AfterLine_KeepsNewline(buffer, i) == SubSeq(buffer, i, Len(buffer))

AfterLine(buffer, i) == SubSeq(buffer, i + 1, Len(buffer))

\* One round of the loop in readUpdateFromGui: readline takes the first line.
TakeLine(s) ==
    LET i == SelectInSeq(s.buffer, LAMBDA t : t = Newline) IN
    [buffer    |-> AfterLine(s.buffer, i),
     newlines  |-> s.newlines - 1,
     direction |-> Turned(s.direction, SubSeq(s.buffer, 1, i - 1))]

\* readUpdateFromGui with lines in the buffer: it goes on until none is left.
ReadUpdate ==
    /\ Runs
    /\ unreadNewlines > 0
    /\ LET after[n \in 0 .. unreadNewlines] ==
               IF n = 0
               THEN [buffer |-> inBuffer, newlines |-> unreadNewlines, direction |-> turnDirection]
               ELSE TakeLine(after[n - 1])
           end == after[unreadNewlines]
       IN
       /\ inBuffer' = end.buffer
       /\ unreadNewlines' = end.newlines
       /\ turnDirection' = end.direction
    /\ UNCHANGED <<client, told, tokens, messageReady, outBuffer, exited, received>>

\* The timer: enqueueMessageToServer
EnqueueMessageToServer ==
    /\ Runs
    /\ messageReady' = TRUE
    /\ UNCHANGED <<client, told, inputVars, outBuffer, exited, received>>

\* sendMessageToServer; when sendto fails the message stays ready.
SendMessageToServer ==
    /\ Runs
    /\ messageReady
    /\ messageReady' \in BOOLEAN
    /\ UNCHANGED <<client, told, inputVars, outBuffer, exited, received>>

Next ==
    \/ \E d \in Datagram : ReceiveOfCurrentGame(d)
    \/ \E d \in Datagram : ReceiveOfNewGame(d)
    \/ \E d \in Datagram : ReceiveOfSeenGame(d)
    \/ FlushOutgoing
    \/ ReadFromGui
    \/ ReadUpdate
    \/ EnqueueMessageToServer
    \/ SendMessageToServer

Spec == Init /\ [][Next]_vars

\* The loop polls for the interface as long as something waits for it, and the interface
\* reads.  Nothing is assumed of the server, which does not always send again what the
\* client asks for (see MQManager!WaitingGameIsBroadcast).
FairSpec == Spec /\ WF_vars(FlushOutgoing)

-----------------------------------------------------------------------------
(* Properties *)

\* The types; the client holds an event under the event's own number.
TypeOK ==
    /\ client.gameId \in Game \cup {NoGame} /\ client.seenGameIds \subseteq Game
    /\ client.playersInGame \in BOOLEAN /\ client.playerNames \in Game \cup {NoGame}
    /\ \A n \in DOMAIN client.events :
          n \in 0 .. LogLength - 1 /\ client.events[n] = Event(client.gameId, n)
    /\ client.nextWantedEventNo \in Nat /\ client.nextEventToSendNo \in Nat
    /\ messageReady \in BOOLEAN /\ turnDirection \in {"straight", "left", "right"}
    /\ inBuffer \in Seq(Token) /\ unreadNewlines \in Nat
    /\ exited \in {"no", "senseless", "closed"}

\* What the client asks for is the first event of its game it does not have,
\* whatever came early, late or twice, and all before it was told.
AsksForFirstMissing ==
    client.gameId # NoGame =>
        /\ client.nextWantedEventNo \notin DOMAIN client.events
        /\ 0 .. client.nextWantedEventNo - 1 \subseteq DOMAIN client.events
        /\ client.nextEventToSendNo = client.nextWantedEventNo

\* eventToMessageForGui looks a worm's player up without a test.  When it writes the line
\* of a worm, the names are those of the worm's game; so are those in the line of NEW_GAME,
\* unless NEW_GAME was not in the first datagram the client got of the game: then the
\* names at hand are those of an earlier game, or none (client.cpp:69-103).
LinesAreNamed ==
    \A i \in DOMAIN told :
        LET t == told[i] IN
        \/ t.event.data.type = "GAME_OVER"
        \/ t.names = t.game
        \/ t.event.data.type = "NEW_GAME" /\ ~(t.game = client.gameId /\ client.playersInGame)

\* However the socket cuts the lines, what the interface got and what still waits
\* are the lines of what was told, in order.
OutputIntact == received \o outBuffer = Bytes(told)

\* readline looks for a newline without regard to the end of the buffer: there are
\* as many as it counts, however the interface's lines were cut.
LinesCounted ==
    unreadNewlines = Cardinality({i \in DOMAIN inBuffer : inBuffer[i] = Newline})

\* Every byte of every line the client has written gets to the interface, however little
\* of the buffer a write takes and whatever is added to it meanwhile, unless the client
\* ends: no rest waits for the next line.
ToldIsShown ==
    \A n \in 1 .. 2 * LogLength * Cardinality(Game) :
        (Len(Bytes(told)) >= n) ~> (~Runs \/ Len(received) >= n)
=============================================================================
