------------------------------ MODULE MC_Client ------------------------------
(* Client for TLC, and the promise to the interface it keeps.                *)
EXTENDS Client

\* Events told, without what they say
ToldEvents == [i \in DOMAIN told |-> [game |-> told[i].game, no |-> told[i].event.no]]

Gui == INSTANCE GuiFeed WITH told <- ToldEvents

\* The client keeps the promise of GuiFeed.
KeepsGuiFeed == Gui!GuiSpec
=============================================================================
