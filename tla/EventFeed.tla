----------------------------- MODULE EventFeed -----------------------------
(***************************************************************************)
(* What the message-queue manager promises, without saying how it takes    *)
(* turns or where it keeps the events.  There is one feed: the games ever  *)
(* published, in order, each a growing list of numbered events.  One game  *)
(* is on air.  A datagram carries consecutive events of the game on air,   *)
(* from the position of its recipient.  The next game goes on air when     *)
(* every registered client is at the end of the current one, and then all  *)
(* start from its beginning.                                               *)
(***************************************************************************)
EXTENDS Naturals, Sequences

CONSTANTS Client

VARIABLES
    published,  \* for each game, how many events it has
    onAir,      \* index of the game being broadcast, 0 before the first
    position,   \* for each registered client, how many events of it it was given
    datagram    \* the latest datagram

feedVars == <<published, onAir, position, datagram>>

EventsOf(g) == IF g = 0 THEN 0 ELSE published[g]

\* Event number n of game g is its (n+1)-th one.
Slice(g, from, upTo) ==
    [i \in 1 .. upTo - from |-> [no |-> from + i - 1, data |-> <<g, from + i>>]]

FeedInit ==
    /\ published = <<>>
    /\ onAir = 0
    /\ DOMAIN position = {}
    /\ datagram.events = <<>>

-----------------------------------------------------------------------------

\* An event is added to the latest game or opens a new one.  The first game may
\* go on air as it is opened.
Publish ==
    /\ \/ published' = Append(published, 1)
       \/ /\ published # <<>>
          /\ published' = [published EXCEPT ![Len(published)] = @ + 1]
    /\ onAir' \in {onAir, IF onAir = 0 THEN 1 ELSE onAir}
    /\ UNCHANGED <<position, datagram>>

\* A client joins, leaves, or says where it is; the others stay where they are.
Reposition(c) ==
    /\ DOMAIN position' \in {DOMAIN position \cup {c}, DOMAIN position \ {c}}
    /\ \A d \in DOMAIN position' :
         IF d = c THEN position'[d] \in 0 .. EventsOf(onAir) ELSE position'[d] = position[d]
    /\ UNCHANGED <<published, onAir, datagram>>

\* The game on air when the next datagram is made, and everybody's place in it.
EverybodyThere == \A c \in DOMAIN position : position[c] = EventsOf(onAir)

NextOnAir == IF EverybodyThere THEN onAir + 1 ELSE onAir

Place(c) == IF EverybodyThere THEN 0 ELSE position[c]

\* A datagram for c.  Its position moves to the end of the datagram, or stays if
\* the datagram may have to be sent again.
Deliver(c) ==
    /\ NextOnAir \in DOMAIN published
    /\ onAir' = NextOnAir
    /\ \E upTo \in Place(c) + 1 .. EventsOf(NextOnAir) :
         /\ datagram' = [to |-> c, gameId |-> NextOnAir, ack |-> upTo,
                         events |-> Slice(NextOnAir, Place(c), upTo)]
         /\ \E p \in {Place(c), upTo} :
              position' = [d \in DOMAIN position |-> IF d = c THEN p ELSE Place(d)]
    /\ UNCHANGED published

FeedNext ==
    \/ Publish
    \/ \E c \in Client : Reposition(c)
    \/ \E c \in DOMAIN position : Deliver(c)

FeedSpec == FeedInit /\ [][FeedNext]_feedVars
=============================================================================
