-------------------------- MODULE MCTrafficReaders ---------------------------
(* Instances of TrafficReaders for TLC; Requests are interchangeable. *)
EXTENDS TrafficReaders, TLC

Symmetry == Permutations(Requests)

==============================================================================
