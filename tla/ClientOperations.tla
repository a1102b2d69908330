-------------------------- MODULE ClientOperations --------------------------
(***************************************************************************)
(* How a client (class Client, client_src/client.cpp) turns datagrams of   *)
(* the server into lines for the user interface, as operators on one       *)
(* record, the members of the class that matter to it:                     *)
(*                                                                         *)
(*   gameId, seenGameIds                                                   *)
(*   playersInGame       whether it is more than 0, so that the players'   *)
(*                       numbers of a game make sense                      *)
(*   playerNames         the game whose names (and board size) are known   *)
(*   events              number -> event, of the current game              *)
(*   nextWantedEventNo, nextEventToSendNo                                  *)
(*                                                                         *)
(* A datagram is [gameId, events], an event [no, data] with data.type; the *)
(* values in it make sense for the players and the board of its game.      *)
(***************************************************************************)
EXTENDS Naturals, Sequences, SequencesExt

NoGame == 0

NoEvents == [n \in {} |-> 0]

\* A client as constructed; the constructor leaves nextWantedEventNo alone.
NewClient(n) ==
    [gameId |-> NoGame, seenGameIds |-> {}, playersInGame |-> FALSE, playerNames |-> NoGame,
     events |-> NoEvents, nextWantedEventNo |-> n, nextEventToSendNo |-> n]

\* validateEvent: the first senseless event of a datagram ends the process.  In the
\* first datagram of a game the events are read after the players.
IsValid(c, event) == event.data.type \in {"PIXEL", "PLAYER_ELIMINATED"} => c.playersInGame

IsSenseless(c, d) == d.gameId = c.gameId /\ \E e \in ToSet(d.events) : ~IsValid(c, e)

\* mutant: an event is kept under the next number
AddEvents_Renumbered(known, new) ==
    [n \in DOMAIN known \cup {e.no + 1 : e \in new} |->
        IF n \in DOMAIN known THEN known[n] ELSE CHOOSE e \in new : e.no + 1 = n]

\* readInEventsListOfCurrentGame of valid events
AddEvents(known, new) ==
    [n \in DOMAIN known \cup {e.no : e \in new} |->
        IF n \in DOMAIN known THEN known[n] ELSE CHOOSE e \in new : e.no = n]

ReadCurrentGame(c, d) == [c EXCEPT !.events = AddEvents(@, ToSet(d.events))]

\* mutants: the game is not recorded as seen; the players of the last game remain
ReadNewGame_Forgotten(c, d) ==
    LET known == \E e \in ToSet(d.events) : e.data.type = "NEW_GAME" IN
    [gameId            |-> d.gameId,
     seenGameIds       |-> c.seenGameIds,
     playersInGame     |-> known,
     playerNames       |-> IF known THEN d.gameId ELSE c.playerNames,
     events            |-> IF known THEN AddEvents(NoEvents, ToSet(d.events)) ELSE NoEvents,
     nextWantedEventNo |-> 0,
     nextEventToSendNo |-> 0]

ReadNewGame_KeepsPlayers(c, d) ==
    LET known == \E e \in ToSet(d.events) : e.data.type = "NEW_GAME" IN
    [gameId            |-> d.gameId,
     seenGameIds       |-> c.seenGameIds \cup {d.gameId},
     playersInGame     |-> c.playersInGame \/ known,
     playerNames       |-> IF known THEN d.gameId ELSE c.playerNames,
     events            |-> IF known THEN AddEvents(NoEvents, ToSet(d.events)) ELSE NoEvents,
     nextWantedEventNo |-> 0,
     nextEventToSendNo |-> 0]

\* A datagram of a game not seen before makes it the current one.  Without the
\* NEW_GAME event in it the others are not read.
ReadNewGame(c, d) ==
    LET known == \E e \in ToSet(d.events) : e.data.type = "NEW_GAME" IN
    [gameId            |-> d.gameId,
     seenGameIds       |-> c.seenGameIds \cup {d.gameId},
     playersInGame     |-> known,
     playerNames       |-> IF known THEN d.gameId ELSE c.playerNames,
     events            |-> IF known THEN AddEvents(NoEvents, ToSet(d.events)) ELSE NoEvents,
     nextWantedEventNo |-> 0,
     nextEventToSendNo |-> 0]

\* mutant: if for while
FirstMissing_OneStep(known, from) == IF from \in DOMAIN known THEN from + 1 ELSE from

\* The loop that raises nextWantedEventNo
FirstMissing(known, from) ==
    Min((from .. from + Cardinality(DOMAIN known)) \ DOMAIN known)

\* The end of processMessageFromServer: the numbers go up to the first event that is
\* missing, and the lines of the events before it are written.
Drain(c) ==
    LET upTo == FirstMissing(c.events, c.nextWantedEventNo) IN
    [c EXCEPT !.nextWantedEventNo = upTo, !.nextEventToSendNo = upTo]

\* What is told thereby: the events, each with its game and the names at hand
Told(c) ==
    [i \in 1 .. FirstMissing(c.events, c.nextWantedEventNo) - c.nextEventToSendNo |->
        [game  |-> c.gameId,
         names |-> c.playerNames,
         event |-> c.events[c.nextEventToSendNo + i - 1]]]
=============================================================================
