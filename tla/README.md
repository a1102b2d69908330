# A verification development for screen-worms

screen-worms is a game of worms for many players.  The server keeps the game and
talks UDP to its clients; each client talks TCP to a user interface.  This
directory holds TLA+ modules translated from the C++ sources, the TLC runs that
check them on small instances, and proofs that TLAPS checks for all instances.
`PROJECT.json` maps every definition to the lines it models.

Sections 1-2 are the inventory and the plan, 3-6 what exists, 7 what does not.

## 1. The system

### Components, their state and operations

| component | state | operations | modules |
|---|---|---|---|
| message queues, `MQManager` (server_src/game.cpp:5-87) | the events of the game being broadcast, games that wait, per client the next event to send, the round-robin schedule | `schedule`, `isEmpty`, `getNextMessage`, `ack`, `addQueue`, `dropQueue` | `MQOperations`, `MQManager`, `EventFeed` |
| game manager, `GameManager` (game.cpp:89-345) | watchers by socket, players by name, the game in progress (worms, eaten pixels, count of the living) | `handleMessage`, `dropConnection`, `runTurn`, and inside them `startGame`, `eliminatePlayer`, `endGame`, `eraseDisconnectedPlayers` | `GameManager` |
| server loop, `Server` (server_src/server.cpp) | addresses and time stamps by socket | `run`: on a tick expire silent sockets and run a turn, read one datagram, send one datagram | `Server` |
| client, `Client` (client_src/client.cpp) | the current game, its events by number, the number wanted next, games seen | read from the server, read keys, send every 30 ms | `ClientOperations`, `Client`, `GuiFeed` |
| messages (common/messages.cpp) | none | choose the events of a datagram, encode, decode, validate | `Messages` |
| sockets (common/sockets.cpp) | a descriptor; for the interface's an output and an input buffer and a count of lines | constructors; `writeData`, `flushOutgoing`, `readline` | `Launch`; `Client` |
| timer (common/time_utils.cpp), generator (rng.h) | a descriptor; the last number | set an interval; `generateNext` | `Launch` |
| command line, configuration (getopt_wrapper.cpp, `*_config.cpp`, misc.h) | the parameters | parse, test, cast | `Launch` |
| checksum, fingerprint of an address | none | pure functions | none |

The way of an event through all of them, from the game over the queues, the network and the client to
the interface, is the module `Delivery`.

### How they interact

The server is one thread: `Server::run` polls the UDP socket and the turn timer
with a timeout of 5 ms, and a round of its loop may expire sockets and run a turn, then read
one datagram, then send one.  Everything else is a call from there:
`GameManager` puts events into its `MQManager` (`schedule`) and opens and closes
queues as clients come and go; the server takes datagrams out of it
(`getNextMessage`) and acknowledges those it could hand to the socket.  Clients
acknowledge too, by the number of the event they expect next, which may be smaller than
what the server believes: that is how lost events come again.  A client is
known by its socket (address and port), a player by its name; several names may
use a socket, and a socket has one queue, one address and one time stamp.

The client is one thread too: its loop polls the timer, the server's socket and the
interface's, reads lines of the interface into the turn direction, moves bytes from its
buffer to the interface, and reads datagrams into its table of events, from
which what is next in order becomes lines of the buffer.

### What is hard

- *Order of calls.*  Nothing stops a client from leaving, coming back, changing its name or
  its session in the middle of a game, or from falling silent while it still has a worm.
  Each handler is simple; long sequences of them are not tested.
- *Loops that call handlers.*  `runTurn`, `startGame` and `handleMessageFromPlayer` iterate
  over `players` and call functions that may erase from it.
- *Round robin and change of game.*  A game waits until all clients have the whole
  of the previous one.  One queue out of step blocks everybody.
- *Three tables of sockets.*  Queues, addresses and time stamps are changed in different
  functions and looked up in each other without a test.
- *Loss.*  `sendto` may fail after the schedule has moved; datagrams may be lost, late or twice, in
  both directions, and meet a client or a server that has gone on to another game or was restarted.
- *Limits.*  Sizes of datagrams, offsets of records, 64-bit and 32-bit arithmetic, truncation of
  parameters, nanoseconds around a whole second.
- *Starting.*  Any of the system calls of the constructors may fail, for any address.

### What makes each component correct

- Queues: the schedule lists each registered client once; queues stay within the events;
  `getNextMessage` ends; nobody is served twice while another waits; every client is given the
  events of a game in order, without a gap, and games in order; everybody is served eventually.
- Game manager: the events of a game are those of one whole game; the living are counted
  right; players who take part are numbered and stay until the end; no queue without an owner; a
  game starts as soon as it may.
- Server: addresses, time stamps and queues belong to the same sockets.
- Client: what the interface is shown is a prefix of one game after another, under the right names;
  what it asks for is what it lacks; no byte and no line is lost.
- All together: what any interface is told is what was played, and all of it is told in the end.
- Messages: a datagram is as full as its limit allows and never empty; what is encoded is decoded.
- Launch: a program runs with what its user wrote, holds the sockets it needs and no others, and its timer
  can be set.

`PROJECT.json` lists the hazards line by line with the properties that guard them.

## 2. Plan

1. `MQOperations` (operators on one record, no state, so that several modules
   can share them and lemmas can be stated about them), `MQManager` with
   `EventFeed` as its abstract specification.  *Done, with proofs of all its safety properties.*
2. `GameManager`, which uses `MQOperations`, and `Server` around it.  *Done, with proofs of all their safety properties.*
3. `Client` with its socket to the interface and the abstract `GuiFeed`; its operators in
   `ClientOperations`.  *Done, with proofs of all its safety properties and of the refinement.*
4. `Delivery`, the queues and clients joined by a network, with `Broadcast` as the
   abstract specification of the whole.  *Done, with proofs of its safety, end to end, and of the refinement.*
5. `Messages` and `Launch`.  *Done, with proofs of all their safety properties.*

Every safety property that a run checks is proved; liveness stays with TLC (section 6).

## 3. The modules

**`MQOperations`.**  `MQManager` as a record with the class's five members; one
operator per member function, returning the record after the call.
`std::map` is a partial function, the deque and the vectors are sequences.
`getNextMessage` is split like the code: `AdvanceGame` (lines 31-43), then the loop,
whose result is a rotation of the schedule up to the first client that is
behind (`TurnOf`).  `fromEvents` puts as many events in a datagram as fit;
here `NextMessages` allows every number from one up (`Messages` has the true sizes).  In all modules operators
named `X_Something` are deliberately wrong variants of `X`, used to show that the properties notice.

**`MQManager`.**  The record as a state machine under calls in the order the
server makes them: events only for the latest game, identifiers never used
before, acknowledgements only of registered clients, sending only when
somebody is registered.  `GameManager` and `Server` show that the last two are *not* always
kept (section 5).  `published`, `datagram` and `passedOver` are history
variables.  The uninitialised identifier of the broadcast game is any number of `InitialGameIds`.

**`EventFeed`.**  The promise: games in order, one on air, each client at a
position in it, datagrams of consecutive events from there.  `MC_MQManager`
instantiates it with the queues as positions.

**`GameManager`.**  All of `GameManager`, one action per path through a handler:

| code | actions |
|---|---|
| `handleMessageFromWatcher` | `WatcherJoins`, `WatcherAcknowledges`, `WatcherRestarts`, `MessageIgnored` |
| `handleMessageFromPlayer` | `PlayerPlays`, `PlayerJoins`, `MessageIgnored` |
| `dropConnection` called by the server | `ConnectionExpires` |
| `startGame` | `StartGame` (part of the above), then one `PlacePlayer` per player |
| `runTurn` | `RunTurn`, then one `MovePlayer` per worm |

The loops over the players of `startGame` and `runTurn` are cut into steps to keep the actions
small; no other action can happen between them (`Receives`).  Names are numbers, since the code visits
them in order.  Coordinates and headings are left out: a move stays in
its pixel or enters one of the eight around, on the board or not; the start is any pixel.
The generator gives each game a new identifier.  Any client may expire at any time.

*Undefined behaviour.*  Four places of the code write or read through an invalid
iterator, or take the front of an empty deque, in reachable states: three in `GameManager`
(`ackUnknown`, `eraseInTurn`, `eraseInMessage`), one in `Server` (`nobodyToServe`).  There the process either stops
(`running`) or goes on as if the access had done nothing; `undefined` records the kind.  Other
outcomes (corrupted memory) are possible and not followed: past the first undefined step
the properties speak of the benign outcome only.

**`Server`.**  `GameManager` with the tables `clientAddrs` and `lastCommunicationTs` and the parts of the loop:
`ReadMessage` and `ReadNonsense` note the sender before they look at the datagram, `Tick` drops the
silent sockets one after another (`Cleanup`) and begins a turn, `SendMessage` is `sendMessageToClient`, with any
datagram of `NextMessages`, whose `sendto` may fail; with nobody registered the next game still goes on air before the front of the
empty schedule is taken.  Time is any set of sockets that have been silent too long, so that jumps of the clock are in it.

**`ClientOperations`, `Client`.**  As for the queues, the class's members as a record with one operator
for each part of `processMessageFromServer`, then the class with its `TcpSocket` as a state machine, one action per branch
of the loop.  The server is a fixed log for each game; a datagram is a range of a log.  A range of *any* log may arrive at
any time and any number of times, so loss, repetition, delay and reordering need no
network.  A bad checksum makes the decoder keep the records before it: a shorter
range.  `ReceiveOfCurrentGame`, `ReceiveOfNewGame` and `ReceiveOfSeenGame` are the
paths of `processMessageFromServer`; its two loops are `Drain`.  A line is two bytes, so
that `FlushOutgoing` can cut it; the interface writes in chunks that cut lines, too.
`told` has the names each line was written with; it and `received` are histories.  All servers' values make sense: `exited =
"senseless"` is then the client's own mistake.

**`GuiFeed`.**  The promise to the interface: one game after another, none twice, each from its first
event on in order.  `MC_Client` maps `told` to it.

**`Delivery`.**  `MQOperations` and `ClientOperations` joined by two sets of datagrams.  The clients are
watchers: what players do besides is in `GameManager`, and their queues are not different.  `Publish` stands
for the game, `HandleMessage` is `handleMessageFromWatcher` again, as the modules that share only operators share no
actions.  Sets reorder and delay; a client sends as its timer expires, as long as fewer than `Requests` of its session's messages
are on their way.  As in `Client`, every line told carries the names it was written with.  A bounded number of faults (`MaxFaults`) loses or repeats a datagram,
makes `sendto` fail, lets a watcher expire or restarts a client, with a larger session, on the same socket.

**`Broadcast`.**  What the whole promises to those who watch, without queues or network: games are played, one after
another; a watcher follows one at a time, is told of it from its first event on, and never comes back to one it has left.
`Delivery` maps to it the games the clients are at, those they have seen and the numbers of the events their interfaces
were told.

**`Messages`.**  Datagrams as sequences of records with their sizes and offsets, which are the code's
numbers: 550 bytes, 13 bytes around the data of a record, 8 more for a NEW_GAME with names of every length.
A game is sent to one client until it has all of it; one record may be damaged on its way, in its `len` or
elsewhere.  Sums of lengths wrap at `WordSize` where the code's have 32 bits, so that a length near the largest passes the test;
what is then read outside of the datagram is undefined, and the client ends there or finds the checksum wrong.  `Arrive` is the other direction: any size cut to the buffer of 100 bytes.

**`Launch`.**  Both programs from their command line to their loop, and the server's starts of games: parse and test
parameters (a value may be digits and a valid player name at once), try the addresses of one socket after another, create and set the timer, draw numbers.  One run of a
constructor's loop is a step, in which any of its calls may fail.

**Proof modules.**  `DataTheorems` (least numbers, induction and recursion up to a number, remainders, `FlattenSeq`),
`MQOperationsProofs` (what each operation of the queues keeps, and which games they hold), `MQManagerProofs`, `GameProofs` (the
invariant of the game and of the server, and what clients are told of games), `ClientProofs`, `DeliveryProofs`, `MessagesProofs`,
`LaunchProofs`.  Section 6.

## 4. The runs

| run | module | instance | shows |
|---|---|---|---|
| `manager` | `MC_MQManager` | 3 clients, 2 games of 2 events, 3 bounded calls, fairness | schedule, queues and loop of the manager; refinement of `EventFeed`, no overtaking, nobody starves |
| `waiting_game` | `MC_MQManager` | 2 clients, fairness | *violation*: a waiting game may wait for ever |
| `game` | `MC_GameManager` | 2 sockets, 3 names, 1 game, board 2x1 | the rules of a game |
| `connections` | `MC_GameManager` | 2 sockets, 3 names, 2 sessions, room for 2 players, 1 game | players, watchers and queues, the table of players full |
| `undefined` | `MC_GameManager` | 2 sockets, 2 names, 2 sessions, 1 game | *violation*: undefined behaviour is reached |
| `server` | `MC_Server` | 2 sockets, 2 names, 2 games | the three tables of sockets; games go out in order; schedule and queues in step; no pixel taken twice or left from the first game |
| `unserved` | `MC_Server` | as `server` | *violation*: a connected player is neither timed nor served |
| `client` | `MC_Client` | 2 games of 3 events, 3 tokens of the interface, fairness | refinement of `GuiFeed`, the right names, no lost bytes or lines, everything told is shown |
| `delivery` | `Delivery` | 1 client, 2 games of 3 events, 2 datagrams on their way, 1 fault, fairness | what is told is what was played, under its own names, and everybody is told all of a game that no other follows; refinement of `Broadcast` |
| `nonsense` | `Delivery` | 1 client, 1 game | *violation*: the client ends over sound events |
| `messages` | `Messages` | 2, 24 or 25 players, names of 1 or 20 characters, up to 74 events, 1 damage, words of 1000 | sizes of datagrams, offsets, decoding, numbers of players |
| `launch` | `MC_Launch` | 7962 command lines, 2 addresses, 6 readings of the clock, 3 games | parameters, descriptors, timer, identifiers of games |

**Bounds.**  `MaxGames`, `MaxEvents`, `MaxCalls`, `Capacity`, `Requests`, `MaxFaults`, `MaxTokens`, `MaxDamages` and `MaxAddresses` bound
counters in guards.

- *Queues.*  Two games are
  needed for a change of game, and with the uninitialised identifier three games meet
  in the manager; two events make a client that is half way; three clients make one that is passed
  over by another while a third is served.  Three calls suffice to register two clients and lose, drop or
  acknowledge one.
- *Game manager and server.*  A third name joins a game in progress or is
  the third worm, and in `connections`, where two players are as many as there may be, it meets a full table; on a board of two pixels a worm can move once and crash off the board, into another and into itself.
  `game` keeps all sessions alike and `connections` has two, since the product of both is out of reach; so is a second game in either.
  `server` has two games of two players: two sockets
  expire in one tick or one after the other, the second game waits for the queues of the first and begins with what the first
  left in the manager's members; messages ask for event 0 or 1, back and ahead of what was sent.  States that differ in the kind of the
  latest undefined step only are one there (`VIEW`): no guard and none of its properties reads it.  `undefined` stops at the first undefined step.
  `game`, `connections` and `server` use the symmetry of sockets: no property tells them apart.
- *Client.*  Two games make the current one and a strayed one (or a newer one), and three events are the least with a gap
  between two known ones; the uninitialised number is 0 or 2, below and beyond what a first datagram
  brings.  `MaxTokens` makes up to two lines in up to three reads.  The order of the
  two halves of a line is the only thing about bytes that could go wrong.
- *Delivery.*  Two datagrams on their way overtake each other, one of an old game or session the new one's.  One
  fault is one loss, repetition, failing send, expiry or restart at any point of the two games; how several clients
  disturb each other is in `manager`.  `delivery` has one message of a session on its way at a time, since two (as in `nonsense`) take it
  beyond the time of a run: a message may be stale and arrive late, also after those of a newer session, but two of one session
  do not overtake each other there.  They do in the theorems, which hold for any number.
- *Messages.*  25 players with names of 20 characters make the longest NEW_GAME, of exactly 550 bytes; runs of 24
  events of a kind end datagrams at many offsets; the lengths of a damaged record are below, at and beyond those of the others.
  For 2^32, `WordSize` is 1000, and 995, 996 and 999 are the last length that does not wrap, the first that does and the largest there is.
- *Launch.*  Numbers at the limits of the parameters and of 8, 16, 32 and 64 bits, digits that are names and digits that are not, texts;
  `MaxUint32` is 2147483647 in the run, where TLC's integers end, and any number in the theorems; readings at which the first expiry is just
  before, at and after a whole second.  The generator runs with modulus 263, multiplier 4 and a word of 300, since
  279410273 * 4294967291 is beyond TLC's numbers: as in the code the modulus is a prime just below what a
  word holds, and the product needs a wider one.

**Deadlock** is not checked: bounded calls, games and messages run out, and after undefined behaviour the process may
have stopped.  In `messages` and `launch` the programs come to an end.

**Fairness.**  `FairSpec` of `MQManager` has weak fairness of `SendSucceeds`.  The loop asks poll for
POLLOUT whenever the manager is not empty (server.cpp:113-116), and a UDP socket is
writable again as soon as its buffer drains; a call that fails for one client does not
disable the next.  Failing sends are bounded by `MaxCalls`: a send that
fails for ever keeps its client behind, and the liveness properties do not claim otherwise.

`FairSpec` of `Client` has weak fairness of `FlushOutgoing` alone: poll is asked for POLLOUT while bytes are pending
(client.cpp:214-217), and the interface reads.  Nothing is assumed of the server: it does *not* always send again what a client asks
for, as `waiting_game` shows, so that `ToldIsShown` speaks only of what the client has told.

`FairSpec` of `Delivery` has weak fairness of the server's
sending (as above), of each client's sending (its timer), and of the arrival of what
is not lost: of some message of a client, of some datagram to it, and of those that bring it the event
it waits for.  A datagram is not held back for ever while others overtake it.  That the wanted event is on its way
again and again is what `EverybodyIsTold` then has to show, for as long as no second game is played: with one waiting, `ack` does nothing,
and the event may never come again (`waiting_game`).

Every property of a passing run has a mutant in `PROJECT.json`: a wrong
variant of one definition under which TLC reports the property violated.

## 5. Where the code departs from its requirements

With a run that shows it:

- *A waiting game can wait for ever* (`waiting_game`).  While a game waits, `ack` does nothing, not even
  for the server's own sends; a client that is behind at that moment stays behind, is sent the same
  datagram again and again, and the game is broadcast to nobody until the client leaves.
- *Undefined behaviour is reached by ordinary messages* (`undefined`).  Between games `handleMessageFromPlayer` drops a connection
  in a loop over the players, which erases the element it stands on (`eraseInMessage`).  That is where the run stops.
- *A player nobody serves* (`unserved`).  The silence of a watcher that plays, too, removes the watcher, its queue and its time stamp,
  not the player: it is never disconnected, and as it never gets ready no further game starts.  A client that restarts
  under another name during a game loses its queue when the game ends.
- *A client that misses the first datagram* (`nonsense`).  If the first datagram it gets of a game lacks NEW_GAME,
  it never takes in how many players there are, even if NEW_GAME comes with the next one; the next event of a worm ends it with a
  message about corrupted data.  A lost or overtaken datagram is enough; a made-up first wish
  (client.h:35) is another way there.

Met while modelling, without a run of their own:

- Three more places like that of `undefined`, all in the model.  A player who was silent during a game
  lost its queue and stays a player: its next message writes through `end()` (`ackUnknown`).  If the worm whose
  crash ends the game belongs to a disconnected player, `endGame` erases the element `runTurn` stands on
  (`eraseInTurn`).  When everybody left while a game waits, `getNextMessage` takes the
  front of an empty schedule (`nobodyToServe`, in `Server`).
- A client whose first datagram of a game lacks NEW_GAME, and which gets NEW_GAME in the next, writes its line with the names of an
  earlier game, or none (client.cpp:77-103, messages.cpp:289-291; protocol_client_gui.txt:19 wants the names of this one).
  `LinesAreNamed` and `ToldAsPlayed` name it as their exception; without the exception TLC finds both violated.
- A length of 2^32 - 4 or more wraps the sum at messages.cpp:70 and passes the test; lines 74-75 then read some 4 GB out of
  bounds.  `DecodedAsSent` says that only a damaged length leads there.
- The server exits, at its start or at the start of a game, when the first expiry of its timer falls on a whole
  second, and always with one turn a second (`-v 1`), which its limits allow (time_utils.cpp:25).  `RefusedOnWholeSecond` says
  that it does so at no other time.
- A record with a damaged length mostly ends the client before its checksum is looked at (messages.cpp:70;
  additional_requirements.txt:9 wants the records before it kept).
- Datagrams take up to 550 bytes (messages.h:11) where the protocol allows 548.
- A client whose uninitialised `nextWantedEventNo` (client.h:35) is beyond the events of the game tells the server that it has them:
  with `Uninitialised = {2}` TLC finds `EverybodyIsTold` violated.  `ToldAsPlayed` holds all the same.
- If the uninitialised identifier of the broadcast game (game.h:27) is that of a game that has to wait, this game's events
  are broadcast out of turn: `KeepsFeed` is checked and proved for other values only.
- A smaller session identifier is not ignored for a known name (game.cpp:121, protocol_client_server.txt:139).
- The expiry of any socket but a watcher's between games makes all players unready (game.cpp:293,
  additional_requirements.txt:22).
- With the seed 4294967291 all games have the identifier 0, and clients show the first one only; `GamesAreToldApart` says
  that its multiples are the only such seeds.

## 6. The proofs

Assumed are only the named assumptions on the constants in the modules (identifiers and bounds are
natural numbers, there are finitely many names, a game has at most 25 players whose names are no longer than 20, clocks read
less than a second, a 32-bit number can be larger than 65535, a word holds more than the size of a datagram).  `PrimeAssumption` is a fact of numbers: the generator's modulus is prime, and the powers of its multiplier do
not come back to 1 within a game's draws.  4294967291 is prime and the powers of 279410273 come back after 2147483645, which
was computed outside of TLA+; a game draws 76 numbers at most.  TLC evaluates the assumption for the small generator of the run.  `NotYetOnAir` and `NothingOnAir`, which
restrict the uninitialised identifier, are hypotheses of the theorems that need them.

| theorem | module | property |
|---|---|---|
| `TypeCorrect`, `ScheduleCorrect`, `GetNextMessageTerminates` | `MQManagerProofs` | `TypeOK`, `QueuesConsistent`, `GetNextMessageEnds` |
| `SendConsistent` | `MQOperationsProofs` | a send, and the acknowledgement of what was sent, keep any consistent manager consistent |
| `OrderCorrect`, `NobodyOvertakes` | `MQManagerProofs` | `ServedWaitBehind`, `NoOvertaking` |
| `FeedKept` | `MQManagerProofs` | `KeepsFeed` |
| `TypeCorrect`, `CountCorrect`, `NumbersCorrect`, `NoStartMissed` | `GameProofs` | `TypeOK`, `AliveCounted`, `WormsAreNumbered`, `NoMissedStart` |
| `QueuesOwned`, `WatchersServed`, `ScheduleCorrect` | `GameProofs` | `NoOrphanQueues`, `WatchersHaveQueues`, `QueuesConsistent` |
| `LogCorrect`, `PixelsCorrect`, `DeadAreSilent` | `GameProofs` | `LogIsAGame`, `PixelsTakenOnce`, `SilentAfterElimination` |
| `AddressesCorrect` | `GameProofs` | `QueuesAreAddressed` |
| `OrderCorrect` | `GameProofs` | `GamesInOrder` |
| `GameInServer`, `LogInServer` | `GameProofs` | the properties of the game again, for the server's steps |
| `TypeCorrect`, `NumbersCorrect`, `NamesCorrect` | `ClientProofs` | `TypeOK`, `AsksForFirstMissing`, `LinesAreNamed` |
| `OutputCorrect`, `LinesCorrect`, `PromiseKept` | `ClientProofs` | `OutputIntact`, `LinesCounted`, `KeepsGuiFeed` |
| `TypeCorrect`, `ToldCorrect`, `PromiseKept` | `DeliveryProofs` | `TypeOK`, `ToldAsPlayed`, `KeepsBroadcast` |
| `TypeCorrect`, `DatagramsFull`, `DecodedCorrect` | `MessagesProofs` | `TypeOK`, `AsManyAsFit`, `DecodedAsSent` |
| `NumbersCorrect`, `MessagesSound` | `MessagesProofs` | `NumbersMeanTheSame`, `OnlySoundMessages` |
| `TypeCorrect`, `DescriptorsCorrect`, `RefusalsCorrect` | `LaunchProofs` | `TypeOK`, `NoDescriptorIsLost`, `RefusedOnWholeSecond` |
| `ParametersCorrect`, `IdentifiersCorrect` | `LaunchProofs` | `RunsAsTold`, `GamesAreToldApart` |

They hold for any number of clients, players, games, events, calls, faults, addresses, any board and any uninitialised
numbers (but for `NotYetOnAir` and `NothingOnAir`).

**Queues.**  `MQOperationsProofs` has a lemma for each operator: it takes a consistent, well-typed manager to one.
*Consistent* is `Enumerates(schedule, DOMAIN queues)` (the schedule is injective and
its members are the registered clients) and `QueuesInRange`.  `MQManagerProofs` combines
them into `Inv`, in essence `TypeOK` and `QueuesConsistent`, which is
inductive: the schedule alone would not do, since `getNextMessage` indexes it and needs a
member that is behind, nor would the range, since `ack` is only defined for a client that has a queue.

**Order.**  `ServedWaitBehind` is inductive together with `Inv`: appending, removing and the rotation
of `getNextMessage` keep the order of those that stay, and the rotation stops at the first client that is behind, so that whoever was served
goes behind all that are passed over.  `NoOvertaking` follows, since the next one served comes first of all that are behind.

**Refinement of `EventFeed`.**  `FeedInv` says what the manager holds in terms of what was published: the
broadcast game's events are all of a published game's, the waiting games are those after it, whole, in order, and none is
missing.  Each action is then a step of the feed or a stutter; the change of game in `getNextMessage` is the feed's
`EverybodyThere`.  `NotYetOnAir` (no uninitialised identifier is that of a later game) is needed where a second game is scheduled.

The operations' part of this argument is in `MQOperationsProofs` (`IsFeed` and a lemma for each operation), since the next
theorems need it, too.

**The game.**  `GameInv` puts together what the handlers rely on without saying so.  While a loop over the players is running,
those still to be visited are players with a number, and in a turn they play (`LoopInv`); the count of the living
and the numbering alone would not do, since the loops index both.  Connections are `Owned`: every queue is a watcher's or a
player's socket, every watcher has one, and a disconnected player's socket is no watcher's.  The last part is the one that is not
obvious.  Without it, `eraseDisconnectedPlayers` could drop the queue of a watcher on the same socket;
it holds because `dropConnection` marks a player only if the socket is no watcher's and a watcher is taken in only on a
socket without players.  Between games nobody is disconnected and no game can start (`Idle`), which is `NoMissedStart`.

`DropQueues` is a fold; `DropConnections` and `Cleanup` repeat `dropConnection`.  What they
preserve is shown by a least counterexample: if some set or number broke it, so would one with a smaller one that does not, and a
single step leads from there.  That the recursive function exists at all is shown in the same way.

**What clients are told of a game.**  Every step of the game is told in one of five ways (`Story`): nothing, a new game, a pixel taken, a
death, or a death with the end.  `Tale` says what the events are of a game up to any time, `LogInv` that the dead in them
are those with a number that are no longer alive.  That is what excludes a second elimination, and what makes the
number of the eliminated one less than the players' when the last but one dies: numbers tell players apart, since they count
the smaller names.  `LogInv` also says that no game to come has events yet.

**The server.**  `ServerInv` adds the tables: whoever has a queue is in both.  `HandleMessage` registers its sender at most, and `Cleanup`
leaves no queue to the silent, whichever expire together.  Its `SendMessage` adds to the story that the next game goes on air;
`InTurn` says that the games held are numbered without a gap up to the latest and that all before it are over.  For that the
uninitialised identifier has to be 0 (`NothingOnAir`), which no game has: with that of a game to come the order is not kept.

**End to end.**  The invariant of `DeliveryProofs` follows an event on its way.  In the queues it is where `IsFeed` says
(`QueuesInv`); a datagram is cut from the game on air, so each event in it is one that was played and carries the number it was
played under (`NetworkInv`), which stays true however long the datagram is held back, since games only grow (`Longer`); a client keeps the
events of its game under those numbers, has counted no further than what was played, and has told exactly
what it has counted (`ClientsInv`).  As for the names (`NamesKnown`): a client that has no players of its game has told no event of a worm, since
it ends over one, and once it has them they stay its game's until it goes on to the next.  Losing, repeating and reordering datagrams then cannot break it, as it says the same of every
datagram; an acknowledgement only moves a queue; a restarted client begins with nothing told.  No `NotYetOnAir` is needed,
since `Delivery` starts with the identifier 0, which no game has.

**Refinement of `Broadcast`.**  `StoryIs` is the link: what was told up to the wanted number is the beginning of the game, of that
length.  Only a datagram that is read, and a restart, change what `Broadcast` sees of the clients.  A datagram of the game at hand makes the
wanted number larger, up to what was played (`Tell`), or leaves it where it is (a stutter); one of a game not seen starts its story (`GoOnTo`);
others are ignored.  Everything the server and the network do is a stutter, except for `Publish`, which is `Play`.

**Client.**  The invariant is that the table holds events of the current game under their numbers
and that all before the wanted number are there and were told (`HoldsItsGame`, `ToldUpTo`).  `FirstMissing` is the least number of a set
that is not empty by counting (`DataTheorems`); the uninitialised number matters only until the first datagram of a game
sets it to 0.  Names are taken in with the players, both for a game at a time, and without players the
client ends over an event of a worm: so a line of a worm has the names of its game, whatever the interface was told of earlier games.  What is told by one datagram is then a run of numbers, a step of `GuiFeed`.

For the interface's socket, `OutputIntact` is inductive with the types of its buffers: what is told adds its lines behind those that wait
(`FlattenConcat`), and a write moves bytes from one end to the other.  On the way in, `InputInv` counts: a read adds as many
newlines as its chunk has, and taking a line takes one, the first.

**Launch.**  `SocketsInv` follows the phases of the constructors: which sockets have a descriptor, and that the
open ones are those and different.  The timer's theorem rests on the bounds the configuration gives the interval: with 1 to
250 turns a second it is at most a second, and the sum with a reading below a second is carried right unless it *is* a second.
`ParametersCorrect` holds of every command line: among the options with one name one is the last and is the one kept, and to test
a number after its cast is as good as before, since what the cast would cut is tested first and the limits fit the types.
A name is tested and a host is not, whether they look like numbers or not.
`IdentifiersCorrect` is about two games in a row.  All draws between them multiply the number by one power of the multiplier, which is
not 1; were the two numbers the same, their difference, a product of two numbers that the prime modulus does not divide, would be
a multiple of it.  Only 0 of the field is mapped to itself, and only a seed that is a multiple of the modulus leads there
(`GeneratorInv`).

**Messages.**  Each record takes 13 bytes at least, so that the offsets rise strictly (`OffsetsRise`) and the decoder finds one record at most
where it stands.  The invariant of its loop (`ReadInv`) says that it stands behind the last record it has decoded, and that it throws or reads outside
only over a damaged length: a sound one fits in what is left, since the datagram is as long as its last offset, and its sum does not
wrap, since a word holds more than a datagram (`BufferFits`).
`fromEvents` stops at the first event that does not fit (`Picks`); that it takes one at least is `EventFits`, by 4 + 546 = 550 for
25 names of 20 characters.  Of the steps, `BufferInv` says that the datagram on its way carries the events behind those the client has, but for
damaged records, and `GotInv` that the client has the first ones.

**Induction.**  The library's induction theorems take an operator as a parameter, which the provers cannot instantiate.
`DataTheorems` states induction up to a number over the *set* of the numbers that have the property (`InductionTo`), and that a recursive
function exists, with the *function* of its steps as a parameter (`RecursionIn`); sets and functions are values, which the provers
can instantiate.  What `Written`, `FromEvents`, `Decode`, `NamesIn`, `AfterDraws` and `Bytes` compute is proved with these.

*Only model-checked.*  The liveness properties `BehindIsServed`, `ToldIsShown` and `EverybodyIsTold`: liveness under fairness is out of the prover's reach.

## 7. Not modelled

- The arithmetic of the checksum (crc32.cpp) and the fingerprint of an address (a formatted string): pure functions over bytes.  `Messages` takes
  a damaged record as detected, the other modules an address as a value of its own.
- The order of bytes in the numbers of messages, and getopt itself.
- Positions and headings as floating-point numbers.
- Reading the timer and the clock (`clearTimer`, `getCurrentTimestamp`): ticks and expiries may happen at any time.
- Logging and the wording of errors.
