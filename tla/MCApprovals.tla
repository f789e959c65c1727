---------------------------- MODULE MCApprovals ----------------------------
(* Instances of Approvals for TLC. *)
EXTENDS Approvals, TLC

(* No approval, approval with reasons, approval after review. *)
MCWorkflows ==
  {[approval |-> FALSE, review |-> FALSE, reason |-> FALSE],
   [approval |-> TRUE, review |-> FALSE, reason |-> TRUE],
   [approval |-> TRUE, review |-> TRUE, reason |-> FALSE]}

(***************************************************************************)
(* A behaviour is steady when its clients stay, its statements succeed and *)
(* the process is not stopped.                                             *)
(***************************************************************************)
VARIABLE steady

MCInit == Init /\ steady \in BOOLEAN

MCNext ==
  /\ Serve \/ (~steady /\ Interrupt)
  /\ UNCHANGED steady

MCSpec == MCInit /\ [][MCNext]_<<vars, steady>> /\ Fairness

(* In a steady behaviour the standing of a granted approval flows on: the    *)
(* handler that claimed it records an outcome, whether the remote call is    *)
(* sent, fails or has no credential to be sent with.                         *)
SteadyFlows ==
  \A a \in Ids :
    steady /\ approval[a].status = "executing" ~> approval[a].status # "executing"
=============================================================================
