---------------------------- MODULE MCHubFleet ----------------------------
(* HubFleet for TLC: the probes and the operations are interchangeable. *)
EXTENDS HubFleet, TLC

Symmetry == Permutations(Requests) \cup Permutations(Operations) \cup Permutations(Urls)
=============================================================================
