-------------------------- MODULE MCEscrowHandlers --------------------------
(* Small instances of EscrowHandlers: the sets of operations the runs use. *)
EXTENDS EscrowHandlers, TLC

MCAllOps == AllOps

\* Delivery and release, with everything that can cross their path.
MCWorkerOps == {"EscrowShipped", "DisputeRaised", "AutoReleased",
                "autoRelease", "trackingPoll"}

MCDeliveryOps == {"EscrowShipped", "trackingPoll"}

MCEventOps == {"EscrowFunded", "EscrowCompleted", "DisputeRaised"}

ThreadSymmetry == Permutations(Threads)
=============================================================================
