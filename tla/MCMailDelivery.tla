--------------------------- MODULE MCMailDelivery ---------------------------
(***************************************************************************)
(* MailDelivery for TLC.  In a behaviour the collector either runs probes  *)
(* or the scan for expiring keys; requests and test mails, stops and kills *)
(* belong to both.                                                         *)
(***************************************************************************)
EXTENDS MailDelivery

VARIABLE about

MCvars == <<vars, about>>

MCInit == Init /\ about \in {"probes", "keys"}

MCNext ==
  /\ Next
  /\ UNCHANGED about
  /\ \/ about = "probes" /\ scan'.todo = {}
     \/ about = "keys" /\ \A c \in HubProbes : caller'[c].pc = "idle"

MCSpec == MCInit /\ [][MCNext]_MCvars /\ Fairness
=============================================================================
