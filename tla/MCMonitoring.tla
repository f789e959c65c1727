---------------------------- MODULE MCMonitoring ----------------------------
(***************************************************************************)
(* Monitoring for TLC.  Of the handlers, the collector and the dashboard's *)
(* readers a behaviour has MaxActors, any that it starts with: what can go *)
(* wrong here takes two of them and several forms.                         *)
(***************************************************************************)
EXTENDS Monitoring, TLC

CONSTANT MaxActors

VARIABLE active

MCvars == <<vars, active>>

MCInit ==
  /\ Init
  /\ active \in {A \in SUBSET (Processes \cup Readers) : Cardinality(A) = MaxActors}

MCNext ==
  /\ UNCHANGED active
  /\ \/ \E p \in Handlers \cap active : HandlerNext(p)
     \/ Collector \in active /\ IngestNext /\ UNCHANGED liveVars
     \/ \E r \in Readers \cap active : ReaderNext(r) /\ UNCHANGED ingestVars

MCSpec == MCInit /\ [][MCNext]_MCvars

Symmetry == Permutations(Handlers) \cup Permutations(Endpoints) \cup Permutations(Servers)
=============================================================================
