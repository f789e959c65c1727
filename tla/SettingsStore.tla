--------------------------- MODULE SettingsStore ---------------------------
(***************************************************************************)
(* The settings and secrets of the integrations (store/settings.go), the   *)
(* administrator's form that changes them (api/core_handlers.go), and the  *)
(* advisory locks under which settings, roles and the Hub/server inventory *)
(* are written.                                                            *)
(*                                                                         *)
(* An endpoint stands for everything a stored secret is bound to: the      *)
(* canonical target URL (or SMTP host), TLS verification and, for OIDC,    *)
(* the client id.  A secret is named by the number of the form that        *)
(* submitted it, as its ciphertext is: entering the same value again gives *)
(* a new one.  The inventory is what attribution asks of it: the one       *)
(* server a Pod name resolves to.                                          *)
(*                                                                         *)
(* A transaction takes its locks one per step and holds all of them until  *)
(* it commits or rolls back.  The form it saves is chosen when it commits: *)
(* nothing depends on it before.                                           *)
(***************************************************************************)
EXTENDS Naturals, Sequences, FiniteSets

CONSTANTS
  Integrations,   \* sections whose secret is bound to an endpoint
  NeedsSecret,    \* sections that cannot be enabled without one (auth.oidc)
  Endpoints, NoEndpoint,
  Pods, Servers, NoServer,
  Handlers,       \* concurrent API requests and Hub probes
  Collector,      \* the collector's goroutine
  Nobody,
  MaxForms        \* forms submitted after the start

ASSUME SettingsAssumption ==
  /\ NeedsSecret \subseteq Integrations
  /\ {"kubernetes", "prometheus"} \subseteq Integrations
  /\ "llm_usage" \notin Integrations
  /\ NoEndpoint \notin Endpoints
  /\ NoServer \notin Servers
  /\ Collector \notin Handlers
  /\ Nobody \notin Handlers \cup {Collector}
  /\ MaxForms \in Nat

VARIABLES
  config,     \* settings rows of the sections
  secret,     \* secrets rows: the number of the form that submitted it, 0 if none
  features,   \* the features row, and how often it was written
  inventory,  \* Pod name -> the one server it resolves to
  holder,     \* who holds each advisory lock
  txn,        \* the transaction each process is in
  forms,      \* forms submitted, the initial configuration included
  boundTo     \* history: the endpoint each secret was entered for

storeVars == <<config, secret, features, inventory, holder, txn, forms, boundTo>>

Sections == Integrations \cup {"llm_usage"}
Processes == Handlers \cup {Collector}
Switches == {"gpu_monitoring", "llm_usage_monitoring"}

Row == [endpoint : Endpoints \cup {NoEndpoint}, enabled : BOOLEAN]

-----------------------------------------------------------------------------
(* What an administrator can submit                                         *)

(* A section, with or without its secret; a secret alone; the switches. *)
SectionForms == [kind : {"section"}, section : Sections, row : Row, withSecret : BOOLEAN]
SecretForms == [kind : {"secret"}, section : Integrations]
FeatureForms == [kind : {"features"}, on : [Switches -> BOOLEAN]]

(* settingsPut's validation: an enabled integration names its endpoint, and *)
(* llm_usage has neither endpoint nor secret.                               *)
validateSettingSection(form) ==
  /\ form.section \in Integrations =>
       (form.row.enabled => form.row.endpoint # NoEndpoint)
  /\ form.section = "llm_usage" => form.row.endpoint = NoEndpoint /\ ~form.withSecret

Forms == {form \in SectionForms : validateSettingSection(form)} \cup SecretForms \cup FeatureForms

storedIntegrationBindingMatches(candidate, saved) ==
  candidate # NoEndpoint /\ candidate = saved

SubmitsSecret(form) ==
  \/ form.kind = "secret"
  \/ form.kind = "section" /\ form.withSecret

(* Mutant: the binding only matters for an integration that is in use. *)
validateBindingsInUse(form) ==
  form.kind = "section" /\ form.section \in Integrations /\ ~form.withSecret =>
    (form.row.enabled /\ secret[form.section] # 0 =>
       storedIntegrationBindingMatches(form.row.endpoint, config[form.section].endpoint))

(* A section without its secret keeps the stored one, which has to meet the *)
(* endpoint it was saved with; auth.oidc may not be enabled without one.    *)
validateStoredSecretBindings(form) ==
  form.kind = "section" /\ form.section \in Integrations /\ ~form.withSecret =>
    /\ form.section \in NeedsSecret /\ form.row.enabled => secret[form.section] # 0
    /\ secret[form.section] # 0 =>
         storedIntegrationBindingMatches(form.row.endpoint, config[form.section].endpoint)

-----------------------------------------------------------------------------
(* Transactions and their locks                                             *)

Locks == {"settings", "rbac", "inventory"}

(* Mutant: role bindings lock the Hubs they name first. *)
LockPlanHubsFirst ==
  [save_settings |-> <<"settings">>,
   store_samples |-> <<"settings", "inventory">>,
   write_hub     |-> <<"inventory">>,
   delete_hub    |-> <<"rbac", "inventory">>,
   bind_roles    |-> <<"inventory", "rbac">>,
   save_role     |-> <<"rbac">>]

(* The advisory locks of each transaction, in the order it takes them. *)
LockPlan ==
  [save_settings |-> <<"settings">>,
   store_samples |-> <<"settings", "inventory">>,
   write_hub     |-> <<"inventory">>,
   delete_hub    |-> <<"rbac", "inventory">>,
   bind_roles    |-> <<"rbac", "inventory">>,
   save_role     |-> <<"rbac">>]

NoTxn == [op |-> "none", need |-> <<>>, saved |-> 0]

Begin(p, op) ==
  /\ txn[p] = NoTxn
  /\ txn' = [txn EXCEPT ![p] = [op |-> op, need |-> LockPlan[op], saved |-> 0]]

(* pg_advisory_xact_lock: waits until the lock is free. *)
Take(p) ==
  /\ txn[p].need # <<>>
  /\ holder[Head(txn[p].need)] = Nobody
  /\ holder' = [holder EXCEPT ![Head(txn[p].need)] = p]
  /\ txn' = [txn EXCEPT ![p].need = Tail(@)]

(* Mutant: the locks belong to the connection, not to the transaction. *)
ReleasedLast(p) == [l \in Locks |-> IF holder[l] = p /\ l # "settings" THEN Nobody ELSE holder[l]]

(* COMMIT and ROLLBACK give all the locks back. *)
Released(p) == [l \in Locks |-> IF holder[l] = p THEN Nobody ELSE holder[l]]

End(p) ==
  /\ holder' = Released(p)
  /\ txn' = [txn EXCEPT ![p] = NoTxn]

Ready(p, op) == txn[p].op = op /\ txn[p].need = <<>>

-----------------------------------------------------------------------------
(* The handlers                                                             *)

(* Saving settings, saving and probing Hubs, deleting one, changing roles. *)
BeginWrite(p, op) ==
  /\ op \in DOMAIN LockPlan \ {"store_samples"}
  /\ op = "save_settings" => forms <= MaxForms
  /\ Begin(p, op)
  /\ UNCHANGED <<config, secret, features, inventory, holder, forms, boundTo>>

(* UpdateSettingsAndSecrets inside its lock: nothing is written unless the  *)
(* bindings hold, everything is otherwise.  The handler goes on to drop the *)
(* live snapshot: its transaction is over, its request is not.              *)
UpdateSettingsAndSecrets(p, form) ==
  LET isSection == form.kind # "features"
      row == IF form.kind = "section" THEN form.row ELSE config[form.section]
  IN
  /\ Ready(p, "save_settings")
  /\ forms <= MaxForms
  /\ validateStoredSecretBindings(form)
  /\ forms' = forms + 1
  /\ config' = IF isSection THEN [config EXCEPT ![form.section] = row] ELSE config
  /\ features' = IF isSection THEN features
                 ELSE [on |-> form.on, version |-> features.version + 1]
  /\ IF SubmitsSecret(form)
       THEN /\ secret' = [secret EXCEPT ![form.section] = forms']
            /\ boundTo' = [boundTo EXCEPT ![forms'] = row.endpoint]
       ELSE UNCHANGED <<secret, boundTo>>
  /\ holder' = Released(p)
  /\ txn' = [txn EXCEPT ![p] =
               [op |-> "saved", need |-> <<>>, saved |-> features'.version]]
  /\ UNCHANGED <<inventory>>

(* ErrSettingsSecretReentry and ErrOIDCSecretRequired. *)
RefuseForm(p, form) ==
  /\ Ready(p, "save_settings")
  /\ ~validateStoredSecretBindings(form)
  /\ End(p)
  /\ UNCHANGED <<config, secret, features, inventory, forms, boundTo>>

(* A Hub's row or its servers change: a Pod name resolves to another server *)
(* or, ambiguous or gone, to none.                                          *)
WriteInventory(p) ==
  /\ Ready(p, "write_hub") \/ Ready(p, "delete_hub")
  /\ inventory' \in [Pods -> Servers \cup {NoServer}]
  /\ txn[p].op = "delete_hub" =>
       \A pod \in Pods : inventory'[pod] \in {inventory[pod], NoServer}
  /\ End(p)
  /\ UNCHANGED <<config, secret, features, forms, boundTo>>

WriteRoles(p) ==
  /\ Ready(p, "bind_roles") \/ Ready(p, "save_role")
  /\ End(p)
  /\ UNCHANGED <<config, secret, features, inventory, forms, boundTo>>

Acquire(p) ==
  /\ Take(p)
  /\ UNCHANGED <<config, secret, features, inventory, forms, boundTo>>

(* A database error or a cancelled request rolls a transaction back. *)
Rollback(p) ==
  /\ txn[p].op \notin {"none", "saved"}
  /\ End(p)
  /\ UNCHANGED <<config, secret, features, inventory, forms, boundTo>>

(* The calls that can be made now with a stored secret.  Chat, OIDC and     *)
(* mail read an integration's row and secret in one statement              *)
(* (GetSettingsAndSecret); a test of candidate values that brings no secret *)
(* borrows the stored one only for the endpoint it is stored with.          *)
GetSettingsAndSecret ==
  {[endpoint |-> config[i].endpoint, secret |-> secret[i]] :
     i \in {j \in Integrations : config[j].enabled}}

integrationBindingMatches(candidate, saved) ==
  candidate # NoEndpoint /\ saved # NoEndpoint /\ candidate = saved

integrationTest ==
  {[endpoint |-> t[1], secret |-> secret[t[2]]] :
     t \in {u \in Endpoints \X Integrations :
              secret[u[2]] # 0 => integrationBindingMatches(u[1], config[u[2]].endpoint)}}

-----------------------------------------------------------------------------
(* A fresh database, whose llm_usage section names its source already, or   *)
(* one whose integrations are configured.                                   *)
StoreInit ==
  /\ \E e \in Endpoints, set \in BOOLEAN :
       /\ config = [s \in Sections |->
                      [endpoint |-> IF set /\ s \in Integrations THEN e ELSE NoEndpoint,
                       enabled |-> set \/ s = "llm_usage"]]
       /\ secret = [i \in Integrations |-> IF set THEN 1 ELSE 0]
       /\ boundTo = [f \in 1..(MaxForms + 1) |-> IF set /\ f = 1 THEN e ELSE NoEndpoint]
       /\ features = [on |-> [w \in Switches |-> set], version |-> 0]
  /\ forms = 1
  /\ inventory \in [Pods -> Servers]
  /\ holder = [l \in Locks |-> Nobody]
  /\ txn = [p \in Processes |-> NoTxn]

StoreStep(p) ==
  \/ \E form \in Forms : UpdateSettingsAndSecrets(p, form) \/ RefuseForm(p, form)
  \/ WriteInventory(p)
  \/ WriteRoles(p)
  \/ Acquire(p)

StoreNext(p) ==
  \/ \E op \in DOMAIN LockPlan : BeginWrite(p, op)
  \/ StoreStep(p)
  \/ Rollback(p)
=============================================================================
