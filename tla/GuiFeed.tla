------------------------------ MODULE GuiFeed ------------------------------
(***************************************************************************)
(* What a client promises its user interface: it tells one game after      *)
(* another, never the same game again, and of each game the events from    *)
(* the first one on, in order and without a gap, as far as they are shown. *)
(***************************************************************************)
EXTENDS Naturals, Sequences, SequencesExt

CONSTANTS Game, LogLength

VARIABLES told  \* the events told so far: [game, no]

Games == {told[i].game : i \in DOMAIN told}

\* The event to tell next of the game told last
NextNo == IF told = <<>> THEN 0 ELSE Last(told).no + 1

Part(g, from, upTo) == [i \in 1 .. upTo - from |-> [game |-> g, no |-> from + i - 1]]

GuiInit == told = <<>>

GoOn ==
    /\ told # <<>>
    /\ \E upTo \in NextNo + 1 .. LogLength :
         told' = told \o Part(Last(told).game, NextNo, upTo)

BeginGame ==
    \E g \in Game \ Games, upTo \in 1 .. LogLength : told' = told \o Part(g, 0, upTo)

GuiSpec == GuiInit /\ [][GoOn \/ BeginGame]_told
=============================================================================
