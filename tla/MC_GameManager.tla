--------------------------- MODULE MC_GameManager ---------------------------
(* GameManager for TLC. *)
EXTENDS GameManager, TLC

FingerprintSymmetry == Permutations(Fingerprint)
=============================================================================
