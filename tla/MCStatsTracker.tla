--------------------------- MODULE MCStatsTracker ----------------------------
(* Instances of StatsTracker for TLC; Requests are interchangeable. *)
EXTENDS StatsTracker, TLC

Symmetry == Permutations(Requests)

==============================================================================
