---------------------------- MODULE MC_MQManager ----------------------------
(* Model checking MQManager: safety, refinement of EventFeed, liveness.      *)
EXTENDS MQManager, TLC

\* Clients are interchangeable.
FingerprintSymmetry == Permutations(Fingerprint)

\* The game on air is the one whose events are being broadcast.
OnAir == IF mq.currentGameEvents = <<>> THEN 0 ELSE mq.currentlyBroadcastedGameId

Feed == INSTANCE EventFeed WITH Client <- Fingerprint, onAir <- OnAir,
                                position <- mq.queues

\* The manager keeps the promise of EventFeed.
KeepsFeed == Feed!FeedSpec
=============================================================================
