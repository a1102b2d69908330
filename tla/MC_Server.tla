----------------------------- MODULE MC_Server ------------------------------
(* Server for TLC. *)
EXTENDS Server, TLC

FingerprintSymmetry == Permutations(Fingerprint)

\* All but the kind of the latest undefined step, on which nothing depends: no guard and
\* none of the properties of the run "server" reads it.
WithoutKind == <<gameVars, watchers, players, mq, loop, todo, running, tables>>
=============================================================================
