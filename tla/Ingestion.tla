----------------------------- MODULE Ingestion -----------------------------
(***************************************************************************)
(* The collector's three readers of integrations (collector.go) and the    *)
(* fenced transactions that store what they read (store/metrics.go).       *)
(*                                                                         *)
(* A job captures its settings, its secret and the inventory in one        *)
(* repeatable-read snapshot, the generation; asks the integration; and     *)
(* stores the answer only if, under the settings and inventory locks, the  *)
(* generation is still the current one.                                    *)
(***************************************************************************)
EXTENDS SettingsStore

VARIABLES
  col,      \* the collector: its step, its job and the job's generation
  sample    \* history: the sample the collector's last step stored, if any

ingestVars == <<col, sample>>

Jobs == {"kubernetes", "metrics", "llm"}

(* The integration a job asks, and the sections its generation covers. *)
Source == [kubernetes |-> "kubernetes", metrics |-> "prometheus", llm |-> "prometheus"]
SettingKeys == [kubernetes |-> {"kubernetes", "llm_usage"},
                metrics |-> {"prometheus"},
                llm |-> {"llm_usage", "prometheus"}]

(* collect runs its jobs in this order; a cycle follows a cycle. *)
NextJob == [kubernetes |-> "metrics", metrics |-> "llm", llm |-> "kubernetes"]

(* The switch that gates a job's samples; "none" if it has none.  GPU       *)
(* series are read by the metrics job among others.                        *)
Gates == [kubernetes |-> {"none"}, metrics |-> {"none", "gpu_monitoring"},
          llm |-> {"llm_usage_monitoring"}]
GateOpen(gate) == gate = "none" \/ features.on[gate]

(* configFingerprint and inventoryFingerprint of a job, as they are now. *)
ConfigOf(job) == [k \in SettingKeys[job] |-> config[k]]
GenerationOf(job) ==
  [config |-> ConfigOf(job), secret |-> secret[Source[job]], inventory |-> inventory]

NoGeneration == [config |-> <<>>, secret |-> 0, inventory |-> <<>>]
NoSample == [job |-> "none", endpoint |-> NoEndpoint, secret |-> 0,
             server |-> NoServer, owner |-> NoServer, gate |-> "none"]
NoAnswer == [pod |-> NoServer, server |-> NoServer]

(* A job runs if its integration is enabled; the llm job also needs its     *)
(* switch and a source.                                                     *)
Runs(job) ==
  /\ config[Source[job]].enabled
  /\ job = "llm" => features.on["llm_usage_monitoring"] /\ config["llm_usage"].enabled

Idle(job) == [step |-> "idle", job |-> job, generation |-> NoGeneration,
              gates |-> {}, gate |-> "none", answer |-> NoAnswer]

(* The next query of the job; the Kubernetes job has only one. *)
NextQuery == IF col.job = "kubernetes" THEN Idle(NextJob[col.job])
             ELSE [col EXCEPT !.step = "ask", !.answer = NoAnswer]

(* GetSettingsAndSecretGeneration. *)
ReadGeneration ==
  /\ col.step = "idle"
  /\ Runs(col.job)
  /\ col' = [col EXCEPT !.step = "plan", !.generation = GenerationOf(col.job)]
  /\ UNCHANGED <<storeVars, sample>>

SkipJob ==
  /\ col.step = "idle"
  /\ ~Runs(col.job)
  /\ col' = Idle(NextJob[col.job])
  /\ sample' = NoSample
  /\ UNCHANGED storeVars

(* The queries are chosen by one reading of the switches. *)
prometheusQueries ==
  /\ col.step = "plan"
  /\ col' = [col EXCEPT !.step = "ask", !.gates = {g \in Gates[col.job] : GateOpen(g)}]
  /\ UNCHANGED <<storeVars, sample>>

(* One query, to the endpoint of the generation and with its secret; the    *)
(* llm job reads its switch again before each.                              *)
Ask(gate) ==
  /\ col.step = "ask"
  /\ gate \in col.gates
  /\ col.job = "llm" => GateOpen(gate)
  /\ col' = [col EXCEPT !.step = "asked", !.gate = gate]
  /\ sample' = NoSample
  /\ UNCHANGED storeVars

(* The call the collector has out. *)
CollectorCalls ==
  IF col.step # "asked" THEN {}
  ELSE {[endpoint |-> col.generation.config[Source[col.job]].endpoint,
         secret |-> col.generation.secret]}

(* The answer: a sample of a Pod or, from Kubernetes, the server a Pod is   *)
(* reconciled to.  The costs that the llm job derives from token counts are *)
(* saved in a transaction of their own, like the answer of a further query. *)
Answer(pod, server) ==
  /\ col.step = "asked"
  /\ (server # NoServer) <=> (col.job = "kubernetes")
  /\ col' = [col EXCEPT !.step = "save", !.answer = [pod |-> pod, server |-> server]]
  /\ Begin(Collector, "store_samples")
  /\ UNCHANGED <<config, secret, features, inventory, holder, forms, boundTo, sample>>

(* The job has no further query. *)
NoMoreQueries ==
  /\ col.step = "ask"
  /\ col' = Idle(NextJob[col.job])
  /\ sample' = NoSample
  /\ UNCHANGED storeVars

(* A query that fails or times out is given up, not its job. *)
QueryFails ==
  /\ col.step = "asked"
  /\ col' = NextQuery
  /\ UNCHANGED <<storeVars, sample>>

(* Mutant: the secret alone identifies the configuration. *)
SecretCurrent == secret[Source[col.job]] = col.generation.secret

(* lockAndMatchIntegrationGeneration: the settings lock, the comparison of  *)
(* the configuration, the inventory lock, the comparison of the inventory.  *)
ConfigCurrent ==
  /\ ConfigOf(col.job) = col.generation.config
  /\ secret[Source[col.job]] = col.generation.secret
InventoryCurrent == inventory = col.generation.inventory

LockSettings ==
  /\ col.step = "save"
  /\ txn[Collector].need = LockPlan["store_samples"]
  /\ Take(Collector)
  /\ UNCHANGED <<config, secret, features, inventory, forms, boundTo, ingestVars>>

LockInventory ==
  /\ col.step = "save"
  /\ txn[Collector].need = Tail(LockPlan["store_samples"])
  /\ ConfigCurrent
  /\ Take(Collector)
  /\ UNCHANGED <<config, secret, features, inventory, forms, boundTo, ingestVars>>

(* An obsolete answer is dropped, and the rest of its job with it. *)
DiscardStale ==
  /\ col.step = "save"
  /\ \/ txn[Collector].need = Tail(LockPlan["store_samples"]) /\ ~ConfigCurrent
     \/ Ready(Collector, "store_samples") /\ ~InventoryCurrent
  /\ End(Collector)
  /\ col' = Idle(NextJob[col.job])
  /\ UNCHANGED <<config, secret, features, inventory, forms, boundTo, sample>>

(* A database error loses one query's answer only. *)
StoreFails ==
  /\ col.step = "save"
  /\ End(Collector)
  /\ col' = NextQuery
  /\ UNCHANGED <<config, secret, features, inventory, forms, boundTo, sample>>

(* updatePods: a Pod that reconciles to one server is written to its row. *)
updatePods(pod, server) ==
  /\ inventory' = [inventory EXCEPT ![pod] = server]
  /\ UNCHANGED sample

(* The sample as it is written, attributed by the inventory as it is now. *)
Attributed(pod) ==
  [job |-> col.job,
   endpoint |-> col.generation.config[Source[col.job]].endpoint,
   secret |-> col.generation.secret,
   server |-> inventory[pod],
   owner |-> col.generation.inventory[pod],
   gate |-> col.gate]

(* featureEnabledForSave: the switch is read again, in the transaction, and *)
(* its row locked until the commit.                                         *)
featureEnabledForSave(gate) == GateOpen(gate)

(* A series that resolves to no server is kept without one. *)
saveMetricPoints(pod) ==
  /\ sample' = IF featureEnabledForSave(col.gate) THEN Attributed(pod) ELSE sample
  /\ UNCHANGED inventory

(* Usage that resolves to no server is dropped. *)
resolveLLMIdentity(pod) == inventory[pod] # NoServer
saveLLMMetricPoints(pod) ==
  /\ sample' = IF featureEnabledForSave(col.gate) /\ resolveLLMIdentity(pod)
                THEN Attributed(pod) ELSE sample
  /\ UNCHANGED inventory

StoreAnswer ==
  LET pod == col.answer.pod
  IN
  /\ Ready(Collector, "store_samples")
  /\ InventoryCurrent
  /\ End(Collector)
  /\ col' = NextQuery
  /\ CASE col.job = "kubernetes" -> updatePods(pod, col.answer.server)
       [] col.job = "metrics" -> saveMetricPoints(pod)
       [] col.job = "llm" -> saveLLMMetricPoints(pod)
  /\ UNCHANGED <<config, secret, features, forms, boundTo>>

IngestInit ==
  /\ col = Idle("kubernetes")
  /\ sample = NoSample

IngestStep ==
  \/ ReadGeneration
  \/ SkipJob
  \/ prometheusQueries
  \/ \E gate \in Switches \cup {"none"} : Ask(gate)
  \/ \E pod \in Pods, server \in Servers \cup {NoServer} : Answer(pod, server)
  \/ LockSettings
  \/ LockInventory
  \/ DiscardStale
  \/ StoreAnswer

IngestNext == IngestStep \/ NoMoreQueries \/ QueryFails \/ StoreFails
=============================================================================
