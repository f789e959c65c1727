-------------------------- MODULE MCServerSessions --------------------------
(* Instances of ServerSessions for TLC. *)
EXTENDS ServerSessions, TLC

(* A Hub that is orderly, one that is ahead and one that omits starts. *)
MCNatures == {[skew |-> 0, omits |-> FALSE, overlap |-> 2], [skew |-> 1, omits |-> FALSE, overlap |-> 2],
              [skew |-> 0, omits |-> TRUE, overlap |-> 2]}

(* The servers are alike, and so are the probes. *)
Symmetry == Permutations(Servers) \cup Permutations(Probes)
=============================================================================
