------------------------------ MODULE Messages ------------------------------
(***************************************************************************)
(* The datagrams (common/messages.cpp) with their true sizes.  A game's    *)
(* events leave for one client in one datagram after another: fromEvents   *)
(* picks those that fit, encode writes them, the network may damage one    *)
(* record, and the client decodes what it got and asks for the rest.       *)
(*                                                                         *)
(* A buffer is the sequence of its records and the offsets they begin at,  *)
(* so that the arithmetic of sizes and offsets is the code's while bytes,  *)
(* their order in a number and the checksum's value are left out.  A       *)
(* checksum tells every damaged record from a sound one.                   *)
(***************************************************************************)
EXTENDS Naturals, Sequences, FiniteSets

MAX_UDP_DATA_FIELD_SIZE == 550
MAX_PLAYERS == 25
MAX_PLAYER_NAME_LENGTH == 20
INCOMING_MSG_BUFFER_SIZE == 100

CONSTANTS
    PlayerCounts, NameLengths,  \* of the players named in NEW_GAME
    Runs,                       \* how many events of a kind may follow each other
    Lengths,                    \* what a damaged len field may say
    WordSize,                   \* a uint32_t has that many values: 2 ^ 32 in the code
    MaxDamages                  \* bound: how many records the network damages

ASSUME CountsAssumption ==
    PlayerCounts \subseteq 1 .. MAX_PLAYERS /\ NameLengths \subseteq 1 .. MAX_PLAYER_NAME_LENGTH
ASSUME RunsAssumption == Runs \subseteq Nat /\ MaxDamages \in Nat
ASSUME WordAssumption ==
    /\ WordSize \in Nat /\ WordSize > MAX_UDP_DATA_FIELD_SIZE
    /\ Lengths \subseteq 0 .. WordSize - 1

VARIABLES
    log,        \* the events of a game
    got,        \* those the client has decoded
    buffer,     \* the datagram on its way, or NoBuffer
    damages,    \* how many records were damaged
    misled,     \* (history) a record came whose len field was damaged
    ended,      \* the client has ended over a datagram it could not decode
    arrived     \* the latest message that arrived at the server

vars == <<log, got, buffer, damages, misled, ended, arrived>>

-----------------------------------------------------------------------------
(* Events and records *)

Nul == 0

\* EventNewGame: every name, which is a number here, is followed by a zero byte.
PlayersField(count) ==
    [i \in 1 .. 2 * count |-> IF i % 2 = 1 THEN (i + 1) \div 2 ELSE Nul]

\* parsedPlayers: the names between the zero bytes
NamesIn(field) ==
    LET names[n \in 0 .. Len(field)] ==
            IF n = 0 THEN <<>>
            ELSE IF field[n] = Nul THEN names[n - 1] ELSE Append(names[n - 1], field[n])
    IN  names[Len(field)]

\* mutant: numbered from one
ParsedPlayers_FromOne(field) == NamesIn(field)

\* parsedPlayers: number -> name
ParsedPlayers(field) ==
    LET names == NamesIn(field) IN [number \in 0 .. Len(names) - 1 |-> names[number + 1]]

\* parsedPlayers throws unless the names are sorted and different.
PlayersAreSound(field) ==
    LET names == NamesIn(field) IN
    \A i, j \in DOMAIN names : i < j => names[i] < names[j]

\* The constructors of events; dataSize is what getEventDataSize says.
NewGame(count, length) ==
    [type |-> "NEW_GAME", players |-> count, dataSize |-> 8 + count * (length + 1)]
Pixel                  == [type |-> "PIXEL", dataSize |-> 9]
PlayerEliminated       == [type |-> "PLAYER_ELIMINATED", dataSize |-> 1]
GameOver               == [type |-> "GAME_OVER", dataSize |-> 0]

\* Event::getEncodedSize: len, event_no and event_type, the data, crc32
EncodedSize(event) == event.dataSize + 13

\* Event::encode, at an offset of the buffer
Record(event, no, at) ==
    [at |-> at, len |-> EncodedSize(event) - 8, eventNo |-> no, event |-> event, intact |-> TRUE]

-----------------------------------------------------------------------------
(* Datagrams *)

\* The bytes of a datagram once the first n events are in it
Written(events) ==
    LET written[n \in 0 .. Len(events)] ==
            IF n = 0 THEN 4 ELSE written[n - 1] + EncodedSize(events[n])
    IN  written

\* mutant: a full datagram is one event too full
FromEvents_Exclusive(events) ==
    LET picked[n \in 0 .. Len(events)] ==
            IF n = 0 THEN 0
            ELSE LET before == picked[n - 1] IN
                 IF before = n - 1 /\ Written(events)[n] < MAX_UDP_DATA_FIELD_SIZE
                 THEN n ELSE before
    IN  picked[Len(events)]

\* mutant: the event that no longer fits is taken too
FromEvents_Overfull(events) ==
    LET picked[n \in 0 .. Len(events)] ==
            IF n = 0 THEN 0
            ELSE LET before == picked[n - 1] IN
                 IF before = n - 1 /\ Written(events)[n - 1] <= MAX_UDP_DATA_FIELD_SIZE
                 THEN n ELSE before
    IN  picked[Len(events)]

\* ServerToClientMessage::fromEvents: how many events go into the next datagram
FromEvents(events) ==
    LET picked[n \in 0 .. Len(events)] ==
            IF n = 0 THEN 0
            ELSE LET before == picked[n - 1] IN
                 IF before = n - 1 /\ Written(events)[n] <= MAX_UDP_DATA_FIELD_SIZE
                 THEN n ELSE before
    IN  picked[Len(events)]

\* ServerToClientMessage::encode of events that are numbered from first on
Encode(events, first) ==
    [size    |-> Written(events)[Len(events)],
     records |-> [n \in 1 .. Len(events) |->
                     Record(events[n], first + n - 1, Written(events)[n - 1])]]

NoBuffer == [size |-> 0, records |-> <<>>]

\* The tests of Event's constructor before it looks at the checksum: the first sum,
\* eventHeaderSize + eventDataSize, has 32 bits, sizeof(uint32_t) is added to it with more.
IsImpossible(record, bytesLeft) ==
    record.len < 5 \/ ((record.len + 4) % WordSize) + 4 > bytesLeft

\* mutant: what a wrong checksum throws is not caught
ReadEvent_Uncaught(b, d) ==
    LET here == {n \in DOMAIN b.records : b.records[n].at = d.bytesRead} IN
    IF d.stopped \/ d.bytesRead >= b.size
    THEN d
    ELSE LET record == b.records[CHOOSE n \in here : TRUE] IN
         IF IsImpossible(record, b.size - d.bytesRead) \/ ~record.intact
         THEN [d EXCEPT !.throws = TRUE, !.stopped = TRUE]
         ELSE [d EXCEPT !.bytesRead = @ + record.len + 8,
                        !.events = Append(@, [eventNo |-> record.eventNo, event |-> record.event])]

\* One round of the loop in ServerToClientMessage's constructor from a buffer: a length
\* that is impossible throws, a wrong checksum ends the loop.  A length within 4 of
\* WordSize passes the test, and the checksum is looked for outside of the buffer.
ReadEvent(b, d) ==
    LET here == {n \in DOMAIN b.records : b.records[n].at = d.bytesRead} IN
    IF d.stopped \/ d.bytesRead >= b.size
    THEN d
    ELSE IF here = {}
    THEN [d EXCEPT !.throws = TRUE, !.stopped = TRUE]
    ELSE LET record == b.records[CHOOSE n \in here : TRUE] IN
         IF IsImpossible(record, b.size - d.bytesRead)
         THEN [d EXCEPT !.throws = TRUE, !.stopped = TRUE]
         ELSE IF record.len + 8 > b.size - d.bytesRead
         THEN [d EXCEPT !.outside = TRUE, !.stopped = TRUE]
         ELSE IF ~record.intact
         THEN [d EXCEPT !.stopped = TRUE]
         ELSE [d EXCEPT !.bytesRead = @ + record.len + 8,
                        !.events = Append(@, [eventNo |-> record.eventNo, event |-> record.event])]

\* The whole loop
Decode(b) ==
    LET after[n \in 0 .. Len(b.records) + 1] ==
            IF n = 0
            THEN [bytesRead |-> 4, events |-> <<>>,
                  throws |-> FALSE, outside |-> FALSE, stopped |-> FALSE]
            ELSE ReadEvent(b, after[n - 1])
    IN  after[Len(b.records) + 1]

NothingArrived == [size |-> 0, turn |-> 0, sound |-> FALSE, accepted |-> FALSE]

Init ==
    /\ \E n \in PlayerCounts, length \in NameLengths, p, q, r \in Runs :
         log = <<NewGame(n, length)>>
               \o [i \in 1 .. p |-> Pixel] \o [i \in 1 .. q |-> PlayerEliminated]
               \o [i \in 1 .. r |-> Pixel] \o <<GameOver>>
    /\ got = <<>>
    /\ buffer = NoBuffer
    /\ damages = 0
    /\ misled = FALSE
    /\ ended = FALSE
    /\ arrived = NothingArrived

Pending == SubSeq(log, Len(got) + 1, Len(log))

\* The client asked for the events it lacks, and they are sent.
Send ==
    /\ ~ended /\ buffer = NoBuffer
    /\ Pending # <<>>
    /\ buffer' = Encode(SubSeq(Pending, 1, FromEvents(Pending)), Len(got))
    /\ arrived' = NothingArrived
    /\ UNCHANGED <<log, got, damages, misled, ended>>

\* One record is damaged on its way, in its length or elsewhere.
Damage ==
    /\ damages < MaxDamages
    /\ \E n \in DOMAIN buffer.records : \E len \in Lengths \cup {buffer.records[n].len} :
         /\ buffer' = [buffer EXCEPT !.records[n].intact = FALSE, !.records[n].len = len]
         /\ misled' = (misled \/ len # buffer.records[n].len)
    /\ damages' = damages + 1
    /\ UNCHANGED <<log, got, ended, arrived>>

\* readMessageFromServer: to read outside of the buffer is undefined; the process ends
\* there, or finds no checksum that is right.
Receive ==
    /\ buffer # NoBuffer
    /\ LET decoded == Decode(buffer) IN
       \/ /\ decoded.throws \/ decoded.outside
          /\ ended' = TRUE /\ UNCHANGED got
       \/ /\ ~decoded.throws
          /\ got' = got \o decoded.events /\ UNCHANGED ended
    /\ buffer' = NoBuffer
    /\ UNCHANGED <<log, damages, misled, arrived>>

-----------------------------------------------------------------------------
(* Messages to the server *)

\* mutant: the buffer is as long as the longest message
BytesRead_Tight(size) == IF size <= 33 THEN size ELSE 33

\* recvfrom cuts a datagram to what the buffer takes.
BytesRead(size) ==
    IF size <= INCOMING_MSG_BUFFER_SIZE - 1 THEN size ELSE INCOMING_MSG_BUFFER_SIZE - 1

\* The constructor of ClientToServerMessage
Accepts(size, turn, sound) == BytesRead(size) \in 13 .. 33 /\ turn <= 2 /\ sound

\* Any datagram; sound says that all its bytes from the name on are printable.
Arrive ==
    /\ buffer = NoBuffer /\ got = <<>>
    /\ \E size \in {0, 12, 13, 14, 33, 34, 99, 100, 120}, turn \in 0 .. 3, sound \in BOOLEAN :
         arrived' = [size |-> size, turn |-> turn, sound |-> sound,
                     accepted |-> Accepts(size, turn, sound)]
    /\ UNCHANGED <<log, got, buffer, damages, misled, ended>>

Next == Send \/ Damage \/ Receive \/ Arrive

Spec == Init /\ [][Next]_vars

-----------------------------------------------------------------------------
(* Properties *)

\* The types; a datagram is no longer than the array encode writes it to.
TypeOK ==
    /\ Len(got) \in 0 .. Len(log)
    /\ buffer.size \in 0 .. MAX_UDP_DATA_FIELD_SIZE
    /\ damages \in 0 .. MaxDamages
    /\ misled \in BOOLEAN /\ ended \in BOOLEAN /\ arrived.accepted \in BOOLEAN

SizeOf(events) ==
    4 + 13 * Len(events)
      + 9 * Cardinality({i \in DOMAIN events : events[i].type = "PIXEL"})
      + Cardinality({i \in DOMAIN events : events[i].type = "PLAYER_ELIMINATED"})
      + (IF events # <<>> /\ events[1].type = "NEW_GAME" THEN events[1].dataSize ELSE 0)

\* A datagram carries as many of the pending events as the limit allows ("all but the
\* last must contain the maximal number of events"), and always one at least: with none
\* the client's queue in the server would not move, and getNextMessage would choose the
\* same client for ever.  NEW_GAME of 25 players with names of 20 characters just fits.
AsManyAsFit ==
    buffer # NoBuffer =>
        LET sent == Len(buffer.records) IN
        /\ sent > 0
        /\ sent = Len(Pending) \/ SizeOf(SubSeq(Pending, 1, sent + 1)) > MAX_UDP_DATA_FIELD_SIZE

\* What the client has is the beginning of the game, event for event, whatever was
\* damaged ("keep the first events with a correct checksum").  It ends over a datagram only
\* if the len field of a record was damaged: nothing the server encodes is refused where it
\* is decoded, and damage of any other byte costs the rest of its datagram only.
DecodedAsSent ==
    /\ \A i \in DOMAIN got : got[i] = [eventNo |-> i - 1, event |-> log[i]]
    /\ ended => misled

\* A worm has the same name everywhere: the server numbers the players in the order of
\* their names, and a client that has NEW_GAME finds each name under that number.
NumbersMeanTheSame ==
    \A i \in DOMAIN got : got[i].event.type = "NEW_GAME" =>
        LET names   == 1 .. got[i].event.players
            players == ParsedPlayers(PlayersField(got[i].event.players))
        IN  /\ PlayersAreSound(PlayersField(got[i].event.players))
            /\ \A name \in names : \E number \in DOMAIN players :
                  /\ players[number] = name
                  /\ number = Cardinality({other \in names : other < name})

\* Every message a client can compose is accepted, and nothing is accepted that no
\* client could have composed: a longer datagram is not cut to a sound message.
OnlySoundMessages ==
    arrived.accepted <=>
        \E nameLength \in 0 .. MAX_PLAYER_NAME_LENGTH :
            arrived.size = 13 + nameLength /\ arrived.turn \in 0 .. 2 /\ arrived.sound
=============================================================================
