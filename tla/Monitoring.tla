----------------------------- MODULE Monitoring -----------------------------
(***************************************************************************)
(* Settings, collector and dashboard together: what a saved form means for *)
(* the secrets that are sent, the samples that are stored and the data     *)
(* that is shown.                                                          *)
(***************************************************************************)
EXTENDS Ingestion, LiveDashboard

vars == <<storeVars, ingestVars, liveVars>>

Init == StoreInit /\ IngestInit /\ LiveInit

HandlerNext(p) ==
  \/ StoreNext(p) /\ UNCHANGED <<ingestVars, liveVars>>
  \/ invalidateLiveSnapshot(p) /\ UNCHANGED ingestVars

Next ==
  \/ \E p \in Handlers : HandlerNext(p)
  \/ IngestNext /\ UNCHANGED liveVars
  \/ \E r \in Readers : ReaderNext(r) /\ UNCHANGED ingestVars

Spec == Init /\ [][Next]_vars

-----------------------------------------------------------------------------
(* Properties                                                               *)

Txn == [op : DOMAIN LockPlan \cup {"none", "saved"},
        need : {<<>>, <<"inventory">>} \cup {LockPlan[op] : op \in DOMAIN LockPlan},
        saved : Nat]
Owners == Processes \cup {Nobody}

(* Every variable keeps its type, and locks are held by transactions only. *)
TypeOK ==
  /\ \A s \in Sections : config[s] \in Row
  /\ \A i \in Integrations : secret[i] \in 0..(MaxForms + 1)
  /\ \A w \in Switches : features.on[w] \in BOOLEAN
  /\ \A pod \in Pods : inventory[pod] \in Servers \cup {NoServer}
  /\ \A p \in Processes : txn[p] \in Txn
  /\ \A l \in Locks :
       holder[l] \in Owners /\ (holder[l] # Nobody => txn[holder[l]].op \in DOMAIN LockPlan)
  /\ forms \in 1..(MaxForms + 1)
  /\ \A f \in 1..(MaxForms + 1) : boundTo[f] \in Endpoints \cup {NoEndpoint}
  /\ col.step \in {"idle", "plan", "ask", "asked", "save"} /\ col.job \in Jobs
  /\ cache.present \in BOOLEAN /\ liveMu \in Readers \cup {Nobody}
  /\ acknowledged \in Nat /\ features.version \in Nat

(* A stored secret is only ever sent to the endpoint it was entered for     *)
(* (validateStoredSecretBindings, the one-statement reads and the binding   *)
(* check of a test): whatever forms are saved, in whatever order, and       *)
(* however old the generation the collector still works with.               *)
SecretsMeetTheirEndpoint ==
  \A c \in GetSettingsAndSecret \cup integrationTest \cup CollectorCalls :
    c.secret # 0 => boundTo[c.secret] = c.endpoint

Waits(p, q) == txn[p].need # <<>> /\ holder[Head(txn[p].need)] = q

(* No set of transactions waits for itself: settings and roles are locked   *)
(* before the inventory, everywhere (settings.go:24-28).                    *)
NoDeadlock ==
  \A S \in (SUBSET Processes) \ {{}} : \E p \in S : \A q \in S : ~Waits(p, q)

(* What is stored was measured under the configuration, the secret and the  *)
(* attribution that are current when it is committed, and no sample of a    *)
(* monitoring feature is committed once that feature is off                 *)
(* (lockAndMatchIntegrationGeneration, featureEnabledForSave).              *)
StoredIsCurrent ==
  [][sample' \notin {sample, NoSample} =>
       /\ sample'.endpoint = config[Source[sample'.job]].endpoint
       /\ sample'.secret = secret[Source[sample'.job]]
       /\ sample'.server = sample'.owner
       /\ GateOpen(sample'.gate)]_vars

(* What the dashboard answers: nothing of a feature that is off when the    *)
(* answer is put together, however old the snapshot; and, to a request made *)
(* after a save of the switches was answered, data computed with those      *)
(* switches or newer ones, never a snapshot that a slower request computed  *)
(* before (cachedLiveSnapshot, invalidateLiveSnapshot).                     *)
DashboardHonoursSwitches ==
  [][\A r \in Readers :
       reader[r].step = "redact" /\ reader'[r] # reader[r] =>
         /\ \A w \in reader'[r].shown : features.on[w]
         /\ reader'[r].snapshot.version >= reader'[r].since]_vars
=============================================================================
