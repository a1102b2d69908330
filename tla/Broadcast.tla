------------------------------ MODULE Broadcast ------------------------------
(***************************************************************************)
(* What the system promises to those who watch, with no network and no     *)
(* queues in it.  Games are played, one after another.  A watcher follows  *)
(* one game at a time: it is told of it what was played, from the first    *)
(* event on, each event once, and nothing it was told is taken back.  It   *)
(* may leave the game for any it has not followed yet, and never comes     *)
(* back to one it has left.  Only a watcher that is started again forgets. *)
(***************************************************************************)
EXTENDS Naturals, Sequences

CONSTANTS Watcher, NoGame

VARIABLES
    published,  \* for each game played, how many events it has
    follows,    \* watcher -> the game it is told of, or NoGame
    followed,   \* watcher -> the games it has been told of since it was started
    shown       \* watcher -> what it was told of the game it follows

broadcastVars == <<published, follows, followed, shown>>

\* The first k events of the game g
Story(g, k) == [i \in 1 .. k |-> [game |-> g, no |-> i - 1]]

BroadcastInit ==
    /\ published = <<>>
    /\ follows = [w \in Watcher |-> NoGame]
    /\ followed = [w \in Watcher |-> {}]
    /\ shown = [w \in Watcher |-> <<>>]

\* A game goes on, or the next one begins.
Play ==
    /\ \/ published' = Append(published, 1)
       \/ /\ published # <<>>
          /\ published' = [published EXCEPT ![Len(published)] = @ + 1]
    /\ UNCHANGED <<follows, followed, shown>>

\* A watcher is told more of its game.
Tell(w) ==
    /\ follows[w] # NoGame
    /\ \E k \in Len(shown[w]) + 1 .. published[follows[w]] :
         shown' = [shown EXCEPT ![w] = Story(follows[w], k)]
    /\ UNCHANGED <<published, follows, followed>>

\* It goes on to a game it has not followed, and is told of it as far as is known.
GoOnTo(w, g) ==
    /\ g \notin followed[w]
    /\ follows' = [follows EXCEPT ![w] = g]
    /\ followed' = [followed EXCEPT ![w] = @ \cup {g}]
    /\ \E k \in 0 .. published[g] : shown' = [shown EXCEPT ![w] = Story(g, k)]
    /\ UNCHANGED published

StartAgain(w) ==
    /\ follows' = [follows EXCEPT ![w] = NoGame]
    /\ followed' = [followed EXCEPT ![w] = {}]
    /\ shown' = [shown EXCEPT ![w] = <<>>]
    /\ UNCHANGED published

BroadcastNext ==
    \/ Play
    \/ \E w \in Watcher :
         \/ Tell(w)
         \/ \E g \in DOMAIN published : GoOnTo(w, g)
         \/ StartAgain(w)

BroadcastSpec == BroadcastInit /\ [][BroadcastNext]_broadcastVars
=============================================================================
