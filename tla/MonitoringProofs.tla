-------------------------- MODULE MonitoringProofs --------------------------
(***************************************************************************)
(* Theorems about Monitoring.  The invariant has a part for the advisory   *)
(* locks, one for the secrets and what they are bound to, one for the      *)
(* collector and its generation, and one for the cached snapshot.          *)
(***************************************************************************)
EXTENDS Monitoring, TLAPS

-----------------------------------------------------------------------------
(* The locks *)

Plans == {LockPlan[op] : op \in DOMAIN LockPlan}

(* The last lock of every plan that is not its first is the inventory's, so *)
(* a holder of anything has all its locks or waits for the inventory.       *)
HolderSound(l) ==
  holder[l] # Nobody =>
    /\ txn[holder[l]].op \in DOMAIN LockPlan
    /\ txn[holder[l]].need \in {<<>>, <<"inventory">>}
    /\ l = "inventory" => txn[holder[l]].need = <<>>

(* A transaction that reached a write holds the lock of what it writes, and *)
(* one without an operation needs none.                                     *)
TxnSound(p) ==
  /\ txn[p].op \notin DOMAIN LockPlan => txn[p].need = <<>>
  /\ txn[p].op = "save_settings" =>
       /\ txn[p].need \in {<<"settings">>, <<>>}
       /\ txn[p].need = <<>> => holder["settings"] = p
  /\ txn[p].op = "store_samples" =>
       /\ txn[p].need \in {<<"settings", "inventory">>, <<"inventory">>, <<>>}
       /\ txn[p].need # <<"settings", "inventory">> => holder["settings"] = p
       /\ txn[p].need = <<>> => holder["inventory"] = p

LockInv ==
  /\ holder \in [Locks -> Owners]
  /\ txn \in [Processes -> Txn]
  /\ \A l \in Locks : HolderSound(l)
  /\ \A p \in Processes : TxnSound(p)

LEMMA PlanForm ==
  /\ DOMAIN LockPlan = {"save_settings", "store_samples", "write_hub", "delete_hub", "bind_roles", "save_role"}
  /\ LockPlan["save_settings"] = <<"settings">>
  /\ LockPlan["store_samples"] = <<"settings", "inventory">>
  /\ LockPlan["write_hub"] = <<"inventory">>
  /\ LockPlan["delete_hub"] = <<"rbac", "inventory">>
  /\ LockPlan["bind_roles"] = <<"rbac", "inventory">>
  /\ LockPlan["save_role"] = <<"rbac">>
BY DEF LockPlan

Needs == {<<>>, <<"inventory">>, <<"settings">>, <<"rbac">>, <<"settings", "inventory">>, <<"rbac", "inventory">>}

LEMMA NeedForm ==
  ASSUME NEW n \in Needs
  PROVE  n # <<>> =>
           /\ Head(n) \in Locks
           /\ Tail(n) \in {<<>>, <<"inventory">>}
           /\ Head(n) = "inventory" => Tail(n) = <<>>
           /\ n = <<"settings", "inventory">> => Head(n) = "settings" /\ Tail(n) = <<"inventory">>
           /\ n = <<"settings">> => Head(n) = "settings"
           /\ n = <<"inventory">> => Head(n) = "inventory"
<1>1. CASE n = <<"inventory">>
      BY <1>1 DEF Locks
<1>2. CASE n = <<"settings">>
      BY <1>2 DEF Locks
<1>3. CASE n = <<"rbac">>
      BY <1>3 DEF Locks
<1>4. CASE n = <<"settings", "inventory">>
  <2>1. Head(n) = "settings" /\ Tail(n) = <<"inventory">>
        BY <1>4
  <2> QED
      BY <1>4, <2>1 DEF Locks
<1>5. CASE n = <<"rbac", "inventory">>
  <2>1. Head(n) = "rbac" /\ Tail(n) = <<"inventory">>
        BY <1>5
  <2> QED
      BY <1>5, <2>1 DEF Locks
<1> QED
    BY <1>1, <1>2, <1>3, <1>4, <1>5 DEF Needs

LEMMA TxnForm ==
  Txn = [op : DOMAIN LockPlan \cup {"none", "saved"}, need : Needs, saved : Nat]
<1>1. {<<>>, <<"inventory">>} \cup {LockPlan[op] : op \in DOMAIN LockPlan} = Needs
      BY PlanForm DEF Needs
<1> QED
    BY <1>1 DEF Txn

LEMMA NobodyElse == Nobody \notin Processes /\ Collector \in Processes /\ Handlers \subseteq Processes
BY SettingsAssumption DEF Processes

(* Among transactions that all wait for one another, the one that holds the *)
(* inventory waits for nothing.                                             *)
LEMMA LocksAreOrdered == LockInv => NoDeadlock
<1> SUFFICES ASSUME LockInv, NEW S \in (SUBSET Processes) \ {{}}
             PROVE  \E p \in S : \A q \in S : ~Waits(p, q)
    BY DEF NoDeadlock
<1> SUFFICES ASSUME \A p \in S : \E q \in S : Waits(p, q)
             PROVE  FALSE
    OBVIOUS
<1>1. \A p \in S : txn[p].need \in Needs
      BY TxnForm DEF LockInv
<1>2. ASSUME NEW p \in S, NEW q \in S, Waits(p, q)
      PROVE  /\ txn[q].need \in {<<>>, <<"inventory">>}
             /\ Head(txn[p].need) = "inventory" => txn[q].need = <<>>
  <2>1. Head(txn[p].need) \in Locks /\ holder[Head(txn[p].need)] = q
        BY <1>1, <1>2, NeedForm DEF Waits
  <2>2. q # Nobody
        BY NobodyElse
  <2> QED
      BY <2>1, <2>2 DEF LockInv, HolderSound
<1>p. PICK p \in S : TRUE
      OBVIOUS
<1>3. PICK q \in S : Waits(p, q)
      OBVIOUS
<1>4. PICK s \in S : Waits(q, s)
      OBVIOUS
<1>5. txn[q].need = <<"inventory">>
      BY <1>2, <1>3, <1>4 DEF Waits
<1>6. Head(txn[q].need) = "inventory"
      BY <1>5
<1>7. txn[s].need = <<>>
      BY <1>2, <1>4, <1>6
<1>8. PICK t \in S : Waits(s, t)
      OBVIOUS
<1> QED
    BY <1>7, <1>8 DEF Waits

LEMMA BeginKeeps ==
  ASSUME LockInv, NEW p \in Processes, NEW o \in DOMAIN LockPlan, Begin(p, o), holder' = holder
  PROVE  LockInv'
<1> DEFINE t == [op |-> o, need |-> LockPlan[o], saved |-> 0]
<1>1. txn[p].op = "none" /\ txn' = [txn EXCEPT ![p] = t]
      BY DEF Begin, NoTxn
<1>2. t \in Txn /\ t.op = o /\ t.need = LockPlan[o]
      BY DEF Txn
<1> HIDE DEF t
<1>3. txn' \in [Processes -> Txn] /\ holder' \in [Locks -> Owners]
      BY <1>1, <1>2 DEF LockInv
<1>4. \A l \in Locks : HolderSound(l)'
  <2> TAKE l \in Locks
  <2>1. holder[l] # p
        BY <1>1, NobodyElse, PlanForm DEF LockInv, HolderSound
  <2> QED
      BY <1>1, <2>1 DEF LockInv, HolderSound, Owners
<1>5. \A q \in Processes : TxnSound(q)'
  <2> TAKE q \in Processes
  <2>1. CASE q = p
    <3>1. txn'[p] = t
          BY <1>1 DEF LockInv
    <3>2. o = "save_settings" => t.need = <<"settings">> /\ t.need # <<>>
          BY <1>2, PlanForm
    <3>3. /\ o = "store_samples" => t.need = <<"settings", "inventory">>
          /\ <<"settings", "inventory">> # <<>>
          BY <1>2, PlanForm
    <3> QED
        BY <1>2, <2>1, <3>1, <3>2, <3>3 DEF TxnSound
  <2>2. CASE q # p
        BY <1>1, <2>2 DEF LockInv, TxnSound
  <2> QED
      BY <2>1, <2>2
<1> QED
    BY <1>3, <1>4, <1>5 DEF LockInv

LEMMA TakeKeeps ==
  ASSUME LockInv, NEW p \in Processes, Take(p)
  PROVE  LockInv'
<1> DEFINE n == txn[p].need
<1> DEFINE k == Head(n)
<1>1. /\ n # <<>> /\ holder[k] = Nobody /\ holder' = [holder EXCEPT ![k] = p]
      /\ txn' = [txn EXCEPT ![p].need = Tail(@)]
      BY DEF Take
<1>2. txn \in [Processes -> [op : DOMAIN LockPlan \cup {"none", "saved"}, need : Needs, saved : Nat]]
      BY TxnForm DEF LockInv
<1>3. n \in Needs /\ k \in Locks /\ txn[p].op \in DOMAIN LockPlan
      BY <1>1, <1>2, NeedForm DEF LockInv, TxnSound
<1>4. Tail(n) \in {<<>>, <<"inventory">>} /\ (k = "inventory" => Tail(n) = <<>>)
      BY <1>1, <1>3, NeedForm
<1>5. Tail(n) \in Needs
      BY <1>4 DEF Needs
<1>6. /\ txn'[p].need = Tail(n) /\ txn'[p].op = txn[p].op
      /\ \A q \in Processes : q # p => txn'[q] = txn[q]
      /\ txn' \in [Processes -> Txn]
      BY <1>1, <1>2, <1>5, TxnForm
<1>7. n = <<"settings", "inventory">> => k = "settings" /\ Tail(n) = <<"inventory">>
      BY <1>3, NeedForm
<1>8. (n = <<"settings">> => k = "settings") /\ (n = <<"inventory">> => k = "inventory")
      BY <1>3, NeedForm
<1>n. txn[p].op = "save_settings" => n = <<"settings">>
      BY <1>1, <1>3 DEF LockInv, TxnSound
<1> HIDE DEF n, k
<1>9. /\ holder' \in [Locks -> Owners] /\ holder'[k] = p
      /\ \A l \in Locks : l # k => holder'[l] = holder[l]
      BY <1>1, <1>3 DEF LockInv, Owners
<1>10. \A l \in Locks : HolderSound(l)'
  <2> TAKE l \in Locks
  <2>1. CASE l = k
        BY <1>3, <1>4, <1>6, <1>9, <2>1 DEF HolderSound
  <2>2. CASE l # k /\ holder[l] = p
        BY <1>1, <1>3, <1>4, <1>6, <1>9, <2>2, NobodyElse DEF LockInv, HolderSound, n
  <2>3. CASE l # k /\ holder[l] # p
        BY <1>6, <1>9, <2>3 DEF LockInv, HolderSound, Owners
  <2> QED
      BY <2>1, <2>2, <2>3
<1>11. \A q \in Processes : TxnSound(q)'
  <2> TAKE q \in Processes
  <2>1. CASE q = p
    <3>1. txn'[p].op = "save_settings" => Tail(n) = <<>> /\ holder'["settings"] = p
          BY <1>4, <1>6, <1>7, <1>8, <1>9, <1>n
    <3>2. ASSUME txn'[p].op = "store_samples"
          PROVE  /\ Tail(n) \in {<<"inventory">>, <<>>}
                 /\ holder'["settings"] = p
                 /\ Tail(n) = <<>> => holder'["inventory"] = p
      <4>1. \/ n = <<"settings", "inventory">>
            \/ n = <<"inventory">> /\ holder["settings"] = p
            BY <1>1, <1>6, <3>2 DEF LockInv, TxnSound, n
      <4>2. CASE n = <<"settings", "inventory">>
            BY <1>7, <1>9, <4>2
      <4>3. CASE n = <<"inventory">> /\ holder["settings"] = p
            BY <1>4, <1>8, <1>9, <4>3 DEF Locks
      <4> QED
          BY <4>1, <4>2, <4>3
    <3> QED
        BY <1>3, <1>6, <2>1, <3>1, <3>2 DEF TxnSound
  <2>2. CASE q # p
        BY <1>1, <1>6, <1>9, <2>2, NobodyElse DEF LockInv, TxnSound, Locks
  <2> QED
      BY <2>1, <2>2
<1> QED
    BY <1>6, <1>9, <1>10, <1>11 DEF LockInv

(* A transaction that ends gives its locks back. *)
LEMMA EndKeeps ==
  ASSUME LockInv, NEW p \in Processes, NEW t \in Txn, t.op \notin DOMAIN LockPlan, t.need = <<>>,
         txn' = [txn EXCEPT ![p] = t], holder' = Released(p)
  PROVE  LockInv'
<1>1. /\ txn' \in [Processes -> Txn] /\ txn'[p] = t
      /\ \A q \in Processes : q # p => txn'[q] = txn[q]
      BY DEF LockInv
<1>2. \A l \in Locks : holder'[l] = IF holder[l] = p THEN Nobody ELSE holder[l]
      BY DEF Released
<1>3. holder' \in [Locks -> Owners]
      BY DEF Released, LockInv, Owners
<1>4. \A l \in Locks : HolderSound(l)'
      BY <1>1, <1>2 DEF LockInv, HolderSound, Owners
<1>5. \A q \in Processes : TxnSound(q)'
  <2> TAKE q \in Processes
  <2>1. CASE q = p
        BY <1>1, <2>1, PlanForm DEF TxnSound
  <2>2. CASE q # p
        BY <1>1, <1>2, <2>2 DEF LockInv, TxnSound, Locks
  <2> QED
      BY <2>1, <2>2
<1> QED
    BY <1>1, <1>3, <1>4, <1>5 DEF LockInv

LEMMA NoTxnForm == NoTxn \in Txn /\ NoTxn.op = "none" /\ NoTxn.need = <<>> /\ NoTxn.op \notin DOMAIN LockPlan
BY PlanForm DEF NoTxn, Txn

LEMMA EndTyped == ASSUME LockInv, NEW p \in Processes, End(p) PROVE LockInv'
BY EndKeeps, NoTxnForm DEF End

LEMMA LockFrame ==
  ASSUME LockInv, holder' = holder, txn' = txn
  PROVE  LockInv'
BY DEF LockInv, HolderSound, TxnSound

(* A transaction that was saved holds nothing. *)
LEMMA AnsweredKeeps ==
  ASSUME LockInv, NEW p \in Processes, txn[p].op = "saved",
         txn' = [txn EXCEPT ![p] = NoTxn], holder' = holder
  PROVE  LockInv'
<1>1. \A l \in Locks : holder[l] # p
      BY NobodyElse, PlanForm DEF LockInv, HolderSound
<1>2. holder' = Released(p)
      BY <1>1 DEF LockInv, Released
<1> QED
    BY <1>2, EndKeeps, NoTxnForm

-----------------------------------------------------------------------------
(* What is stored *)

FormNumbers == 1..(MaxForms + 1)
Switched == [Switches -> BOOLEAN]
Snapshots == [on : Switched, version : Nat]

StoreTyped ==
  /\ config \in [Sections -> Row]
  /\ secret \in [Integrations -> 0..(MaxForms + 1)]
  /\ features \in Snapshots
  /\ inventory \in [Pods -> Servers \cup {NoServer}]
  /\ forms \in FormNumbers
  /\ boundTo \in [FormNumbers -> Endpoints \cup {NoEndpoint}]

(* Secrets are numbered by forms that were submitted, and the one of an     *)
(* integration was entered for the endpoint the integration has now.        *)
SecretSound(i) ==
  /\ secret[i] <= forms
  /\ secret[i] # 0 => boundTo[secret[i]] = config[i].endpoint

StoreInv == StoreTyped /\ \A i \in Integrations : SecretSound(i)

LEMMA FormsApart ==
  ASSUME NEW form \in Forms
  PROVE  /\ form.kind \in {"section", "secret", "features"}
         /\ form.kind = "section" =>
              /\ form \in SectionForms
              /\ form.section \in Sections /\ form.row \in Row /\ form.withSecret \in BOOLEAN
              /\ form.withSecret => form.section \in Integrations
         /\ form.kind = "secret" => form.section \in Integrations
         /\ form.kind = "features" => form.on \in Switched
<1>1. CASE form \in SectionForms /\ validateSettingSection(form)
      BY <1>1, SettingsAssumption DEF SectionForms, validateSettingSection, Sections
<1>2. CASE form \in SecretForms
      BY <1>2 DEF SecretForms
<1>3. CASE form \in FeatureForms
      BY <1>3 DEF FeatureForms, Switched
<1> QED
    BY <1>1, <1>2, <1>3 DEF Forms

(* What one form writes. *)
LEMMA UpdateForm ==
  ASSUME StoreInv, NEW p \in Processes, NEW form \in Forms, UpdateSettingsAndSecrets(p, form)
  PROVE  /\ forms' = forms + 1 /\ forms' \in FormNumbers /\ forms < forms'
         /\ features' \in Snapshots /\ features'.version >= features.version
         /\ inventory' = inventory
         /\ txn[p].op = "save_settings" /\ txn[p].need = <<>>
         /\ holder' = Released(p)
         /\ txn' = [txn EXCEPT ![p] = [op |-> "saved", need |-> <<>>, saved |-> features'.version]]
<1>1. forms \in Nat /\ forms + 1 \in FormNumbers
      BY SettingsAssumption DEF UpdateSettingsAndSecrets, StoreInv, StoreTyped, FormNumbers
<1>2. features' \in Snapshots /\ features'.version >= features.version
  <2>1. CASE form.kind # "features"
        BY <2>1 DEF UpdateSettingsAndSecrets, StoreInv, StoreTyped, Snapshots
  <2>2. CASE form.kind = "features"
    <3>1. features' = [on |-> form.on, version |-> features.version + 1] /\ form.on \in Switched
          BY <2>2, FormsApart DEF UpdateSettingsAndSecrets
    <3> QED
        BY <3>1 DEF StoreInv, StoreTyped, Snapshots
  <2> QED
      BY <2>1, <2>2
<1> QED
    BY <1>1, <1>2 DEF UpdateSettingsAndSecrets, Ready

(* A new secret is bound to the row's endpoint; a row that keeps its secret *)
(* keeps its endpoint.                                                      *)
LEMMA UpdateKeeps ==
  ASSUME StoreInv, NEW p \in Processes, NEW form \in Forms, UpdateSettingsAndSecrets(p, form)
  PROVE  /\ StoreInv'
         /\ \A n \in FormNumbers : n <= forms => boundTo'[n] = boundTo[n]
<1>1. forms' = forms + 1 /\ forms' \in FormNumbers /\ forms \in Nat /\ features' \in Snapshots
      /\ inventory' = inventory /\ forms \in FormNumbers
      BY UpdateForm DEF StoreInv, StoreTyped, FormNumbers
<1> DEFINE x == form.section
<1> DEFINE row == IF form.kind = "section" THEN form.row ELSE config[x]
<1>2. CASE form.kind = "features"
  <2>1. config' = config /\ secret' = secret /\ boundTo' = boundTo
        BY <1>2 DEF UpdateSettingsAndSecrets, SubmitsSecret
  <2>2. StoreTyped'
        BY <1>1, <2>1 DEF StoreInv, StoreTyped
  <2>3. \A i \in Integrations : SecretSound(i)'
    <3> TAKE i \in Integrations
    <3>1. SecretSound(i) /\ secret[i] \in Nat
          BY DEF StoreInv, StoreTyped
    <3> QED
        BY <1>1, <2>1, <3>1 DEF SecretSound
  <2> QED
      BY <2>1, <2>2, <2>3 DEF StoreInv
<1>3. CASE form.kind # "features"
  <2>1. x \in Sections /\ row \in Row /\ (SubmitsSecret(form) => x \in Integrations)
        BY <1>3, FormsApart DEF StoreInv, StoreTyped, Sections, SubmitsSecret
  <2>2. config' = [config EXCEPT ![x] = row]
        BY <1>3 DEF UpdateSettingsAndSecrets
  <2>3. IF SubmitsSecret(form)
        THEN secret' = [secret EXCEPT ![x] = forms'] /\ boundTo' = [boundTo EXCEPT ![forms'] = row.endpoint]
        ELSE secret' = secret /\ boundTo' = boundTo
        BY DEF UpdateSettingsAndSecrets
  <2>4. ~SubmitsSecret(form) /\ x \in Integrations /\ secret[x] # 0 => row.endpoint = config[x].endpoint
        BY <1>3, FormsApart DEF UpdateSettingsAndSecrets, validateStoredSecretBindings, SubmitsSecret,
                                storedIntegrationBindingMatches
  <2> HIDE DEF x, row
  <2>5. row.endpoint \in Endpoints \cup {NoEndpoint}
        BY <2>1 DEF Row
  <2>6. \A s \in Sections : config'[s] = IF s = x THEN row ELSE config[s]
        BY <2>1, <2>2 DEF StoreInv, StoreTyped
  <2>7. StoreTyped'
    <3>1. config' \in [Sections -> Row]
          BY <2>1, <2>2 DEF StoreInv, StoreTyped
    <3>2. secret' \in [Integrations -> 0..(MaxForms + 1)] /\ boundTo' \in [FormNumbers -> Endpoints \cup {NoEndpoint}]
      <4>1. CASE SubmitsSecret(form)
            BY <1>1, <2>1, <2>3, <2>5, <4>1, SettingsAssumption DEF StoreInv, StoreTyped, FormNumbers
      <4>2. CASE ~SubmitsSecret(form)
            BY <2>3, <4>2 DEF StoreInv, StoreTyped
      <4> QED
          BY <4>1, <4>2
    <3> QED
        BY <1>1, <3>1, <3>2 DEF StoreInv, StoreTyped
  <2>8. \A n \in FormNumbers : n <= forms => boundTo'[n] = boundTo[n]
    <3> TAKE n \in FormNumbers
    <3>1. n \in Nat
          BY DEF FormNumbers
    <3>2. n <= forms => n # forms'
          BY <1>1, <3>1
    <3> QED
        BY <2>3, <3>2 DEF StoreInv, StoreTyped
  <2>9. \A i \in Integrations : SecretSound(i)'
    <3> TAKE i \in Integrations
    <3>1. /\ SecretSound(i) /\ secret[i] \in Nat /\ secret[i] \in 0..(MaxForms + 1) /\ i \in Sections
          BY SettingsAssumption DEF StoreInv, StoreTyped, Sections
    <3>2. CASE SubmitsSecret(form) /\ i = x
      <4>1. secret'[i] = forms' /\ boundTo'[forms'] = row.endpoint
            BY <1>1, <2>3, <3>2 DEF StoreInv, StoreTyped
      <4> QED
          BY <1>1, <2>6, <3>1, <3>2, <4>1 DEF SecretSound
    <3>3. CASE SubmitsSecret(form) /\ i # x
      <4>1. secret'[i] = secret[i] /\ config'[i] = config[i]
            BY <2>3, <2>6, <3>1, <3>3 DEF StoreInv, StoreTyped
      <4>2. secret[i] # 0 => secret[i] \in FormNumbers
            BY <3>1 DEF FormNumbers
      <4> QED
          BY <1>1, <2>8, <3>1, <4>1, <4>2 DEF SecretSound
    <3>4. CASE ~SubmitsSecret(form)
          BY <1>1, <2>3, <2>4, <2>6, <3>1, <3>4 DEF SecretSound
    <3> QED
        BY <3>2, <3>3, <3>4
  <2> QED
      BY <2>7, <2>8, <2>9 DEF StoreInv
<1> QED
    BY <1>2, <1>3

SavedSound == \A p \in Processes : txn[p].saved <= features.version

(* What the handlers' transactions mean to the collector and the dashboard: *)
(* numbers only grow, a secret stays bound, and the settings change under   *)
(* their lock only.                                                         *)
StoreEffect(p) ==
  /\ LockInv' /\ StoreInv' /\ SavedSound'
  /\ features'.version >= features.version
  /\ forms' >= forms
  /\ \A n \in FormNumbers : n <= forms => boundTo'[n] = boundTo[n]
  /\ (config' = config /\ secret' = secret) \/ holder["settings"] = p
  /\ txn'[Collector] = txn[Collector]

(* Steps that write none of the settings. *)
LEMMA QuietStore ==
  ASSUME StoreInv, UNCHANGED <<config, secret, features, forms, boundTo>>,
         inventory' \in [Pods -> Servers \cup {NoServer}]
  PROVE  StoreInv'
BY DEF StoreInv, StoreTyped, SecretSound

LEMMA SavedKeeps ==
  ASSUME LockInv, SavedSound, StoreInv, NEW p \in Processes, NEW t, t.saved <= features.version,
         txn' = [txn EXCEPT ![p] = t], features' = features
  PROVE  SavedSound'
BY DEF LockInv, SavedSound

LEMMA TakeSaves ==
  ASSUME LockInv, SavedSound, NEW p \in Processes, Take(p), features' = features
  PROVE  SavedSound'
BY DEF LockInv, SavedSound, Take, Txn

LEMMA VersionTyped ==
  ASSUME StoreInv
  PROVE  /\ features.version \in Nat /\ 0 <= features.version
         /\ NoTxn.saved <= features.version
         /\ forms \in Nat
BY DEF StoreInv, StoreTyped, Snapshots, NoTxn, FormNumbers

(* Steps of a handler that end or begin a transaction or take a lock. *)
LEMMA QuietEffect ==
  ASSUME LockInv, StoreInv, SavedSound, NEW p \in Handlers, LockInv', SavedSound',
         UNCHANGED <<config, secret, features, forms, boundTo>>,
         inventory' \in [Pods -> Servers \cup {NoServer}],
         \A q \in Processes : q # p => txn'[q] = txn[q]
  PROVE  StoreEffect(p)
<1>1. StoreInv'
      BY QuietStore
<1>2. p # Collector /\ Collector \in Processes
      BY SettingsAssumption, NobodyElse
<1> QED
    BY <1>1, <1>2, VersionTyped DEF StoreEffect

LEMMA EndEffect ==
  ASSUME LockInv, StoreInv, SavedSound, NEW p \in Handlers, End(p),
         UNCHANGED <<config, secret, features, forms, boundTo>>,
         inventory' \in [Pods -> Servers \cup {NoServer}]
  PROVE  StoreEffect(p)
<1>1. p \in Processes
      BY NobodyElse
<1>2. LockInv'
      BY <1>1, EndTyped
<1>3. txn' = [txn EXCEPT ![p] = NoTxn]
      BY DEF End
<1>4. SavedSound'
      BY <1>1, <1>3, VersionTyped, SavedKeeps
<1>5. \A q \in Processes : q # p => txn'[q] = txn[q]
      BY <1>3 DEF LockInv
<1> QED
    BY <1>2, <1>4, <1>5, QuietEffect

LEMMA HandlerEffect ==
  ASSUME LockInv, StoreInv, SavedSound, NEW p \in Handlers, StoreNext(p)
  PROVE  StoreEffect(p)
<1>p. p \in Processes /\ p # Collector /\ Collector \in Processes
      BY NobodyElse, SettingsAssumption
<1>i. inventory \in [Pods -> Servers \cup {NoServer}]
      BY DEF StoreInv, StoreTyped
<1>1. ASSUME NEW form \in Forms, UpdateSettingsAndSecrets(p, form)
      PROVE  StoreEffect(p)
  <2> DEFINE t == [op |-> "saved", need |-> <<>>, saved |-> features'.version]
  <2>1. /\ forms' = forms + 1 /\ forms \in Nat
        /\ features' \in Snapshots /\ features'.version >= features.version
        /\ txn[p].op = "save_settings" /\ txn[p].need = <<>>
        /\ holder' = Released(p) /\ txn' = [txn EXCEPT ![p] = t]
        BY <1>p, <1>1, UpdateForm, VersionTyped
  <2>2. StoreInv' /\ \A n \in FormNumbers : n <= forms => boundTo'[n] = boundTo[n]
        BY <1>p, <1>1, UpdateKeeps
  <2>3. features'.version \in Nat /\ features.version \in Nat
        BY <2>1 DEF Snapshots, StoreInv, StoreTyped
  <2>4. t \in Txn /\ t.op \notin DOMAIN LockPlan /\ t.need = <<>> /\ t.saved = features'.version
        BY <2>3, PlanForm DEF Txn
  <2> HIDE DEF t
  <2>5. LockInv'
        BY <1>p, <2>1, <2>4, EndKeeps
  <2>6. SavedSound'
        BY <1>p, <2>1, <2>3, <2>4 DEF SavedSound, LockInv, Txn
  <2>7. holder["settings"] = p /\ txn'[Collector] = txn[Collector]
        BY <1>p, <2>1 DEF LockInv, TxnSound
  <2> QED
      BY <2>1, <2>2, <2>3, <2>5, <2>6, <2>7 DEF StoreEffect
<1>2. ASSUME NEW form \in Forms, RefuseForm(p, form)
      PROVE  StoreEffect(p)
      BY <1>2, <1>i, EndEffect DEF RefuseForm
<1>3. CASE WriteInventory(p)
      BY <1>3, EndEffect DEF WriteInventory
<1>4. CASE WriteRoles(p)
      BY <1>4, <1>i, EndEffect DEF WriteRoles
<1>5. CASE Rollback(p)
      BY <1>5, <1>i, EndEffect DEF Rollback
<1>6. CASE Acquire(p)
  <2>1. Take(p) /\ UNCHANGED <<config, secret, features, inventory, forms, boundTo>>
        BY <1>6 DEF Acquire
  <2>2. \A q \in Processes : q # p => txn'[q] = txn[q]
        BY <2>1 DEF Take, LockInv
  <2> QED
      BY <1>p, <1>i, <2>1, <2>2, TakeKeeps, TakeSaves, QuietEffect
<1>7. ASSUME NEW op \in DOMAIN LockPlan, BeginWrite(p, op)
      PROVE  StoreEffect(p)
  <2> DEFINE t == [op |-> op, need |-> LockPlan[op], saved |-> 0]
  <2>1. /\ Begin(p, op) /\ UNCHANGED <<config, secret, features, inventory, holder, forms, boundTo>>
        /\ txn' = [txn EXCEPT ![p] = t] /\ t.saved = 0
        BY <1>7 DEF BeginWrite, Begin
  <2> HIDE DEF t
  <2>2. \A q \in Processes : q # p => txn'[q] = txn[q]
        BY <2>1 DEF LockInv
  <2>3. SavedSound'
        BY <1>p, <2>1, VersionTyped, SavedKeeps
  <2> QED
      BY <1>p, <1>i, <2>1, <2>2, <2>3, BeginKeeps, QuietEffect
<1> QED
    BY <1>1, <1>2, <1>3, <1>4, <1>5, <1>6, <1>7 DEF StoreNext, StoreStep

-----------------------------------------------------------------------------
(* The collector *)

ServerOrNone == Servers \cup {NoServer}
Configs == UNION {[SettingKeys[job] -> Row] : job \in Jobs}
Generations == [config : Configs \cup {<<>>}, secret : 0..(MaxForms + 1),
                inventory : [Pods -> ServerOrNone] \cup {<<>>}]
SampleGates == Switches \cup {"none"}
Collectors == [step : {"idle", "plan", "ask", "asked", "save"}, job : Jobs,
               generation : Generations, gates : SUBSET SampleGates, gate : SampleGates,
               answer : [pod : Pods \cup {NoServer}, server : ServerOrNone]]

(* However old a generation is, its secret and its endpoint go together. *)
GenerationSound ==
  col.step # "idle" =>
    /\ col.generation.secret <= forms
    /\ col.generation.secret # 0 =>
         boundTo[col.generation.secret] = col.generation.config[Source[col.job]].endpoint

(* Samples are stored in the collector's transaction, and once it has both  *)
(* locks the generation's configuration is the current one.                 *)
Fenced ==
  /\ txn[Collector].op \in {"none", "store_samples"}
  /\ col.step = "save" <=> txn[Collector].op = "store_samples"
  /\ col.step = "save" /\ txn[Collector].need = <<>> => ConfigCurrent

ColInv == col \in Collectors /\ GenerationSound /\ Fenced

LEMMA JobForm ==
  ASSUME NEW job \in Jobs
  PROVE  /\ Source[job] \in Integrations /\ Source[job] \in Sections
         /\ Source[job] \in SettingKeys[job] /\ SettingKeys[job] \subseteq Sections
         /\ NextJob[job] \in Jobs /\ Gates[job] \subseteq SampleGates
BY SettingsAssumption DEF Jobs, Source, SettingKeys, Sections, NextJob, Gates, SampleGates, Switches

LEMMA IdleForm ==
  ASSUME NEW job \in Jobs
  PROVE  Idle(job) \in Collectors /\ Idle(job).step = "idle"
<1>1. NoGeneration \in Generations
      BY SettingsAssumption DEF NoGeneration, Generations
<1>2. NoAnswer \in [pod : Pods \cup {NoServer}, server : ServerOrNone]
      BY DEF NoAnswer, ServerOrNone
<1> QED
    BY <1>1, <1>2 DEF Idle, Collectors, SampleGates

LEMMA NextQueryForm ==
  ASSUME ColInv
  PROVE  /\ NextQuery \in Collectors
         /\ \/ NextQuery.step = "idle"
            \/ NextQuery.step = "ask" /\ NextQuery.job = col.job /\ NextQuery.generation = col.generation
<1>1. CASE col.job = "kubernetes"
      BY <1>1, JobForm, IdleForm DEF NextQuery, ColInv, Collectors
<1>2. CASE col.job # "kubernetes"
  <2>1. NoAnswer \in [pod : Pods \cup {NoServer}, server : ServerOrNone]
        BY DEF NoAnswer, ServerOrNone
  <2> QED
      BY <1>2, <2>1 DEF NextQuery, ColInv, Collectors
<1> QED
    BY <1>1, <1>2

(* Handlers leave the collector's generation as it is, and cannot write the *)
(* settings while it holds their lock.                                      *)
LEMMA ColKept ==
  ASSUME ColInv, LockInv, StoreInv, NEW p \in Handlers, StoreEffect(p), col' = col
  PROVE  ColInv'
<1>1. p # Collector /\ Collector \in Processes
      BY SettingsAssumption, NobodyElse
<1>2. forms \in Nat /\ forms' \in Nat /\ forms' >= forms
      BY DEF StoreEffect, StoreInv, StoreTyped, FormNumbers
<1>3. col.generation.secret \in 0..(MaxForms + 1)
      BY DEF ColInv, Collectors, Generations
<1>4. GenerationSound'
  <2>1. col.step # "idle" /\ col.generation.secret # 0 =>
          boundTo'[col.generation.secret] = boundTo[col.generation.secret]
        BY <1>2, <1>3 DEF StoreEffect, ColInv, GenerationSound, FormNumbers
  <2> QED
      BY <1>2, <1>3, <2>1 DEF ColInv, GenerationSound
<1>5. Fenced'
  <2>1. txn'[Collector] = txn[Collector]
        BY DEF StoreEffect
  <2>2. ASSUME col.step = "save", txn[Collector].need = <<>>
        PROVE  config' = config /\ secret' = secret /\ ConfigCurrent
    <3>1. txn[Collector].op = "store_samples" /\ ConfigCurrent
          BY <2>2 DEF ColInv, Fenced
    <3>2. holder["settings"] = Collector
        <4>1. txn[Collector].need # <<"settings", "inventory">>
            BY <2>2
      <4> QED
          BY <1>1, <3>1, <4>1 DEF LockInv, TxnSound
    <3> QED
        BY <1>1, <3>1, <3>2 DEF StoreEffect
  <2> QED
      BY <2>1, <2>2 DEF ColInv, Fenced, ConfigCurrent, ConfigOf
<1> QED
    BY <1>4, <1>5 DEF ColInv

(* What a step of the collector leaves to show. *)
IngestEffect ==
  /\ LockInv' /\ StoreInv' /\ SavedSound' /\ ColInv'
  /\ UNCHANGED <<config, secret, features, forms, boundTo>>

(* Steps without a transaction. *)
LEMMA ColMoves ==
  ASSUME LockInv, StoreInv, SavedSound, ColInv, UNCHANGED storeVars,
         col.step # "save", col' \in Collectors, col'.step # "save", GenerationSound'
  PROVE  IngestEffect
<1>1. LockInv' /\ StoreInv' /\ SavedSound'
      BY LockFrame DEF storeVars, StoreInv, StoreTyped, SecretSound, SavedSound
<1>2. Fenced'
      BY DEF ColInv, Fenced, storeVars
<1> QED
    BY <1>1, <1>2 DEF IngestEffect, ColInv, storeVars

(* The end of the collector's transaction. *)
LEMMA ColEnds ==
  ASSUME LockInv, StoreInv, SavedSound, ColInv, End(Collector),
         UNCHANGED <<config, secret, features, forms, boundTo>>,
         inventory' \in [Pods -> Servers \cup {NoServer}],
         col' \in Collectors, col'.step # "save", GenerationSound'
  PROVE  IngestEffect
<1>1. Collector \in Processes /\ txn' = [txn EXCEPT ![Collector] = NoTxn]
      BY NobodyElse DEF End
<1>2. LockInv' /\ StoreInv' /\ SavedSound'
      BY <1>1, EndTyped, QuietStore, SavedKeeps, VersionTyped
<1>3. Fenced'
      BY <1>1, NoTxnForm DEF Fenced, LockInv
<1> QED
    BY <1>2, <1>3 DEF IngestEffect, ColInv

LEMMA IngestKeeps ==
  ASSUME LockInv, StoreInv, SavedSound, ColInv, IngestNext
  PROVE  IngestEffect
<1>c. /\ Collector \in Processes /\ col \in Collectors /\ col.job \in Jobs
      /\ inventory \in [Pods -> Servers \cup {NoServer}]
      BY NobodyElse DEF ColInv, Collectors, StoreInv, StoreTyped
<1>1. CASE ReadGeneration
  <2>1. GenerationOf(col.job) \in Generations
    <3>1. ConfigOf(col.job) \in [SettingKeys[col.job] -> Row]
          BY <1>c, JobForm DEF ConfigOf, StoreInv, StoreTyped
    <3>2. ConfigOf(col.job) \in Configs
          BY <1>c, <3>1 DEF Configs
    <3>3. secret[Source[col.job]] \in 0..(MaxForms + 1)
          BY <1>c, JobForm DEF StoreInv, StoreTyped
    <3> QED
        BY <1>c, <3>2, <3>3 DEF GenerationOf, Generations, ServerOrNone
  <2> DEFINE g == GenerationOf(col.job)
  <2>2. /\ g.secret = secret[Source[col.job]]
        /\ g.config[Source[col.job]].endpoint = config[Source[col.job]].endpoint
        BY <1>c, JobForm DEF GenerationOf, ConfigOf
  <2>3. SecretSound(Source[col.job])
        BY <1>c, JobForm DEF StoreInv
  <2> HIDE DEF g
  <2>4. col' = [col EXCEPT !.step = "plan", !.generation = g] /\ UNCHANGED storeVars
        BY <1>1 DEF ReadGeneration, g
  <2>5. col' \in Collectors /\ col'.step = "plan" /\ col'.generation = g /\ col'.job = col.job
        BY <1>c, <2>1, <2>4 DEF Collectors, g
  <2>6. GenerationSound'
        BY <2>2, <2>3, <2>4, <2>5 DEF GenerationSound, SecretSound, storeVars
  <2> QED
      BY <1>1, <2>4, <2>5, <2>6, ColMoves DEF ReadGeneration
<1>2. CASE SkipJob \/ NoMoreQueries
  <2>1. /\ col' = Idle(NextJob[col.job]) /\ UNCHANGED storeVars /\ col.step # "save"
        BY <1>2 DEF SkipJob, NoMoreQueries
  <2>2. col' \in Collectors /\ col'.step = "idle"
        BY <1>c, <2>1, JobForm, IdleForm
  <2> QED
      BY <2>1, <2>2, ColMoves DEF GenerationSound
<1>3. CASE prometheusQueries
  <2>1. /\ col' = [col EXCEPT !.step = "ask", !.gates = {g \in Gates[col.job] : GateOpen(g)}]
        /\ UNCHANGED storeVars /\ col.step = "plan"
        BY <1>3 DEF prometheusQueries
  <2>2. {g \in Gates[col.job] : GateOpen(g)} \in SUBSET SampleGates
        BY <1>c, JobForm
  <2>3. col' \in Collectors /\ col'.step = "ask" /\ col'.generation = col.generation /\ col'.job = col.job
        BY <1>c, <2>1, <2>2 DEF Collectors
  <2> QED
      BY <2>1, <2>3, ColMoves DEF GenerationSound, ColInv, storeVars
<1>4. ASSUME NEW gate \in Switches \cup {"none"}, Ask(gate)
      PROVE  IngestEffect
  <2>1. /\ col' = [col EXCEPT !.step = "asked", !.gate = gate]
        /\ UNCHANGED storeVars /\ col.step = "ask"
        BY <1>4 DEF Ask
  <2>2. col' \in Collectors /\ col'.step = "asked" /\ col'.generation = col.generation /\ col'.job = col.job
        BY <1>c, <2>1 DEF Collectors, SampleGates
  <2> QED
      BY <2>1, <2>2, ColMoves DEF GenerationSound, ColInv, storeVars
<1>5. ASSUME NEW pod \in Pods, NEW server \in Servers \cup {NoServer}, Answer(pod, server)
      PROVE  IngestEffect
  <2> DEFINE a == [pod |-> pod, server |-> server]
  <2> DEFINE t == [op |-> "store_samples", need |-> LockPlan["store_samples"], saved |-> 0]
  <2>1. /\ col' = [col EXCEPT !.step = "save", !.answer = a] /\ col.step = "asked"
        /\ Begin(Collector, "store_samples") /\ txn' = [txn EXCEPT ![Collector] = t]
        /\ UNCHANGED <<config, secret, features, inventory, holder, forms, boundTo>>
        /\ t.saved = 0 /\ t.op = "store_samples" /\ t.need = <<"settings", "inventory">>
        BY <1>5, PlanForm DEF Answer, Begin
  <2>2. a \in [pod : Pods \cup {NoServer}, server : ServerOrNone]
        BY DEF ServerOrNone
  <2> HIDE DEF a, t
  <2>3. col' \in Collectors /\ col'.step = "save" /\ col'.generation = col.generation /\ col'.job = col.job
        BY <1>c, <2>1, <2>2 DEF Collectors
  <2>4. LockInv' /\ SavedSound' /\ StoreInv'
        BY <1>c, <2>1, PlanForm, BeginKeeps, SavedKeeps, VersionTyped, QuietStore
  <2>5. t.need # <<>>
        BY <2>1
  <2>6. Fenced'
        BY <1>c, <2>1, <2>3, <2>5 DEF Fenced, LockInv
  <2>7. GenerationSound'
        BY <2>1, <2>3 DEF GenerationSound, ColInv
  <2> QED
      BY <2>1, <2>3, <2>4, <2>6, <2>7 DEF IngestEffect, ColInv
<1>6. CASE LockSettings \/ LockInventory
  <2>1. /\ Take(Collector) /\ UNCHANGED <<config, secret, features, inventory, forms, boundTo, col>>
        /\ col.step = "save" /\ txn' = [txn EXCEPT ![Collector].need = Tail(@)]
        BY <1>6 DEF LockSettings, LockInventory, Take, ingestVars
  <2>2. LockInv' /\ SavedSound' /\ StoreInv'
        BY <1>c, <2>1, TakeKeeps, TakeSaves, QuietStore
  <2>3. /\ txn'[Collector].op = txn[Collector].op
        /\ txn'[Collector].need = Tail(txn[Collector].need)
        BY <1>c, <2>1 DEF LockInv, Txn
  <2>4. txn'[Collector].need = <<>> => ConfigCurrent
    <3>1. CASE LockSettings
      <4>1. txn[Collector].need = <<"settings", "inventory">>
            BY <3>1, PlanForm DEF LockSettings
      <4>2. Tail(txn[Collector].need) # <<>>
            BY <4>1
      <4> QED
          BY <2>3, <4>2
    <3>2. CASE LockInventory
          BY <3>2 DEF LockInventory
    <3> QED
        BY <1>6, <3>1, <3>2
  <2>5. Fenced'
        BY <2>1, <2>3, <2>4 DEF ColInv, Fenced, ConfigCurrent, ConfigOf
  <2> QED
      BY <2>1, <2>2, <2>5 DEF IngestEffect, ColInv, GenerationSound
<1>7. CASE DiscardStale
  <2>1. /\ End(Collector) /\ col' = Idle(NextJob[col.job])
        /\ UNCHANGED <<config, secret, features, inventory, forms, boundTo>>
        BY <1>7 DEF DiscardStale
  <2>2. col' \in Collectors /\ col'.step = "idle"
        BY <1>c, <2>1, JobForm, IdleForm
  <2> QED
      BY <1>c, <2>1, <2>2, ColEnds DEF GenerationSound
<1>8. CASE StoreFails \/ StoreAnswer
  <2>1. /\ End(Collector) /\ col' = NextQuery /\ col.step # "idle"
        /\ UNCHANGED <<config, secret, features, forms, boundTo>>
        BY <1>8 DEF StoreFails, StoreAnswer, Ready, ColInv, Fenced
  <2>2. col' \in Collectors /\ col'.step # "save" /\ GenerationSound'
        BY <2>1, NextQueryForm DEF GenerationSound, ColInv
  <2>3. inventory' \in [Pods -> Servers \cup {NoServer}]
    <3>1. CASE StoreFails
          BY <1>c, <3>1 DEF StoreFails
    <3>2. CASE StoreAnswer
      <4>1. col.answer.server \in Servers \cup {NoServer}
        <5>1. col.answer \in [pod : Pods \cup {NoServer}, server : ServerOrNone]
              BY <1>c DEF Collectors
        <5> QED
            BY <5>1 DEF ServerOrNone
      <4>2. CASE col.job = "kubernetes"
        <5>1. inventory' = [inventory EXCEPT ![col.answer.pod] = col.answer.server]
              BY <3>2, <4>2 DEF StoreAnswer, updatePods
        <5> QED
            BY <1>c, <4>1, <5>1
      <4>3. CASE col.job = "metrics"
            BY <1>c, <3>2, <4>3 DEF StoreAnswer, saveMetricPoints
      <4>4. CASE col.job = "llm"
            BY <1>c, <3>2, <4>4 DEF StoreAnswer, saveLLMMetricPoints
      <4> QED
          BY <1>c, <4>2, <4>3, <4>4 DEF Jobs
    <3> QED
        BY <1>8, <3>1, <3>2
  <2> QED
      BY <2>1, <2>2, <2>3, ColEnds
<1>9. CASE QueryFails
  <2>1. col' = NextQuery /\ UNCHANGED storeVars /\ col.step = "asked"
        BY <1>9 DEF QueryFails
  <2>2. col' \in Collectors /\ col'.step # "save" /\ GenerationSound'
        BY <2>1, NextQueryForm DEF GenerationSound, ColInv, storeVars
  <2> QED
      BY <2>1, <2>2, ColMoves
<1> QED
    BY <1>1, <1>2, <1>3, <1>4, <1>5, <1>6, <1>7, <1>8, <1>9 DEF IngestNext, IngestStep

-----------------------------------------------------------------------------
(* The dashboard *)

ReaderStates == [step : {"rest", "read", "fill", "redact", "answered"}, snapshot : Snapshots,
                 since : Nat, shown : SUBSET Switches]

(* A snapshot that is cached, or about to be, is not older than any save    *)
(* that was answered; the mutex keeps saves from being answered meanwhile.  *)
ReaderSound(r) ==
  /\ reader[r].since <= acknowledged
  /\ reader[r].step = "fill" => liveMu = r /\ reader[r].snapshot.version >= acknowledged
  /\ reader[r].step = "redact" => reader[r].snapshot.version >= reader[r].since

LiveTyped ==
  /\ cache \in [snapshot : Snapshots, present : BOOLEAN]
  /\ liveMu \in Readers \cup {Nobody}
  /\ reader \in [Readers -> ReaderStates]
  /\ acknowledged \in Nat

DashInv ==
  /\ LiveTyped
  /\ acknowledged <= features.version
  /\ cache.present => cache.snapshot.version >= acknowledged
  /\ \A r \in Readers : ReaderSound(r)

LEMMA LiveForms ==
  /\ NoSnapshot \in Snapshots
  /\ NoCache \in [snapshot : Snapshots, present : BOOLEAN] /\ NoCache.present = FALSE
  /\ AtRest \in ReaderStates /\ AtRest.step = "rest" /\ AtRest.since = 0
<1>1. NoSnapshot \in Snapshots
      BY DEF NoSnapshot, Snapshots, Switched
<1> QED
    BY <1>1 DEF NoCache, AtRest, ReaderStates

(* Saves that are not answered yet. *)
LEMMA DashKept ==
  ASSUME DashInv, StoreInv, StoreInv', features'.version >= features.version, UNCHANGED liveVars
  PROVE  DashInv'
<1>1. features.version \in Nat /\ features'.version \in Nat /\ acknowledged \in Nat
      BY DEF StoreInv, StoreTyped, Snapshots, DashInv, LiveTyped
<1>2. acknowledged' <= features'.version
      BY <1>1 DEF DashInv, liveVars
<1> QED
    BY <1>2 DEF DashInv, LiveTyped, ReaderSound, liveVars

LEMMA ReaderKeeps ==
  ASSUME DashInv, StoreInv, NEW r \in Readers, ReaderNext(r)
  PROVE  DashInv' /\ UNCHANGED storeVars
<1>1. /\ reader \in [Readers -> ReaderStates] /\ acknowledged \in Nat /\ acknowledged <= features.version
      /\ cache \in [snapshot : Snapshots, present : BOOLEAN] /\ liveMu \in Readers \cup {Nobody}
      /\ reader[r] \in ReaderStates /\ reader[r].snapshot \in Snapshots /\ reader[r].since \in Nat
      BY DEF DashInv, LiveTyped, ReaderStates
<1>2. features \in Snapshots /\ features.version \in Nat
      BY DEF StoreInv, StoreTyped, Snapshots
<1>3. ASSUME NEW v \in ReaderStates, reader' = [reader EXCEPT ![r] = v], ReaderSound(r)',
             acknowledged' = acknowledged, UNCHANGED storeVars,
             cache' \in [snapshot : Snapshots, present : BOOLEAN],
             cache'.present => cache'.snapshot.version >= acknowledged,
             \/ liveMu' = liveMu
             \/ liveMu = Nobody /\ liveMu' = r
             \/ reader[r].step = "fill" /\ liveMu' = Nobody
      PROVE  DashInv' /\ UNCHANGED storeVars
  <2>1. LiveTyped'
        BY <1>1, <1>3 DEF LiveTyped
  <2>2. \A q \in Readers : ReaderSound(q)'
    <3> TAKE q \in Readers
    <3>1. CASE q = r
          BY <1>3, <3>1
    <3>2. CASE q # r
      <4>1. reader'[q] = reader[q] /\ ReaderSound(q) /\ ReaderSound(r) /\ q # Nobody
            BY <1>1, <1>3, <3>2, LiveAssumption DEF DashInv
      <4> QED
          BY <1>3, <3>2, <4>1 DEF ReaderSound
    <3> QED
        BY <3>1, <3>2
  <2> QED
      BY <1>1, <1>3, <2>1, <2>2 DEF DashInv, storeVars
<1>4. CASE StartRead(r)
  <2> DEFINE v == [AtRest EXCEPT !.step = "read", !.since = acknowledged]
  <2>1. v \in ReaderStates /\ v.step = "read" /\ v.since = acknowledged
        BY <1>1, LiveForms DEF ReaderStates
  <2> HIDE DEF v
  <2>2. reader' = [reader EXCEPT ![r] = v] /\ UNCHANGED <<cache, liveMu, acknowledged, storeVars>>
        BY <1>4 DEF StartRead, v
  <2>3. ReaderSound(r)'
        BY <1>1, <2>1, <2>2 DEF ReaderSound
  <2> QED
      BY <1>1, <1>3, <2>1, <2>2, <2>3 DEF DashInv
<1>5. CASE UseCache(r)
  <2> DEFINE v == [reader[r] EXCEPT !.step = "redact", !.snapshot = cache.snapshot]
  <2>1. /\ v \in ReaderStates /\ v.step = "redact" /\ v.snapshot = cache.snapshot
        /\ v.since = reader[r].since
        BY <1>1 DEF ReaderStates
  <2>2. /\ reader' = [reader EXCEPT ![r] = v] /\ UNCHANGED <<cache, liveMu, acknowledged, storeVars>>
        /\ cache.present
        BY <1>1, <1>5 DEF UseCache, ReaderStates
  <2> HIDE DEF v
  <2>3. cache.snapshot.version \in Nat
        BY <1>1 DEF Snapshots
  <2>4. ReaderSound(r)'
        BY <1>1, <2>1, <2>2, <2>3 DEF ReaderSound, DashInv
  <2> QED
      BY <1>1, <1>3, <2>1, <2>2, <2>4 DEF DashInv
<1>6. CASE LiveSnapshot(r)
  <2> DEFINE v == [reader[r] EXCEPT !.step = "fill", !.snapshot = features]
  <2>1. /\ v \in ReaderStates /\ v.step = "fill" /\ v.snapshot = features
        /\ v.since = reader[r].since
        BY <1>1, <1>2 DEF ReaderStates
  <2>2. /\ reader' = [reader EXCEPT ![r] = v] /\ UNCHANGED <<cache, acknowledged, storeVars>>
        /\ liveMu = Nobody /\ liveMu' = r
        BY <1>1, <1>6 DEF LiveSnapshot, ReaderStates
  <2> HIDE DEF v
  <2>3. ReaderSound(r)'
        BY <1>1, <1>2, <2>1, <2>2 DEF ReaderSound, DashInv
  <2> QED
      BY <1>1, <1>3, <2>1, <2>2, <2>3 DEF DashInv
<1>7. CASE FillCache(r)
  <2> DEFINE v == [reader[r] EXCEPT !.step = "redact"]
  <2> DEFINE c == [snapshot |-> reader[r].snapshot, present |-> TRUE]
  <2>1. /\ v \in ReaderStates /\ v.step = "redact" /\ v.snapshot = reader[r].snapshot
        /\ v.since = reader[r].since
        /\ c \in [snapshot : Snapshots, present : BOOLEAN] /\ c.snapshot = reader[r].snapshot
        BY <1>1 DEF ReaderStates
  <2>2. /\ reader' = [reader EXCEPT ![r] = v] /\ UNCHANGED <<acknowledged, storeVars>>
        /\ reader[r].step = "fill" /\ liveMu' = Nobody /\ cache' = c
        BY <1>1, <1>7 DEF FillCache, ReaderStates
  <2> HIDE DEF v, c
  <2>3. reader[r].snapshot.version >= acknowledged /\ reader[r].since <= acknowledged
        BY <2>2 DEF DashInv, ReaderSound
  <2>4. reader[r].snapshot.version \in Nat
        BY <1>1 DEF Snapshots
  <2>5. ReaderSound(r)'
        BY <1>1, <2>1, <2>2, <2>3, <2>4 DEF ReaderSound
  <2> QED
      BY <1>1, <1>3, <2>1, <2>2, <2>3, <2>5
<1>8. CASE ReadFails(r) \/ EndRead(r)
  <2>1. /\ reader' = [reader EXCEPT ![r] = AtRest] /\ UNCHANGED <<cache, acknowledged, storeVars>>
        /\ liveMu' = liveMu \/ (reader[r].step = "fill" /\ liveMu' = Nobody)
        BY <1>8 DEF ReadFails, EndRead
  <2>2. ReaderSound(r)'
        BY <1>1, <2>1, LiveForms DEF ReaderSound
  <2> QED
      BY <1>1, <1>3, <2>1, <2>2, LiveForms DEF DashInv
<1>9. ASSUME NEW readable \in BOOLEAN, redactDisabledMonitoring(r, readable)
      PROVE  DashInv' /\ UNCHANGED storeVars
  <2> DEFINE s == {w \in Shown(reader[r].snapshot) : readable /\ features.on[w]}
  <2> DEFINE v == [reader[r] EXCEPT !.step = "answered", !.shown = s]
  <2>0. s \in SUBSET Switches
        BY DEF Shown
  <2>1. reader' = [reader EXCEPT ![r] = v] /\ UNCHANGED <<cache, liveMu, acknowledged, storeVars>>
        BY <1>1, <1>9 DEF redactDisabledMonitoring, ReaderStates
  <2> HIDE DEF s
  <2>2. v \in ReaderStates /\ v.step = "answered" /\ v.since = reader[r].since
        BY <1>1, <2>0 DEF ReaderStates
  <2> HIDE DEF v
  <2>3. ReaderSound(r)'
        BY <1>1, <2>1, <2>2 DEF ReaderSound, DashInv
  <2> QED
      BY <1>1, <1>3, <2>1, <2>2, <2>3 DEF DashInv
<1> QED
    BY <1>4, <1>5, <1>6, <1>7, <1>8, <1>9 DEF ReaderNext

-----------------------------------------------------------------------------
(* The whole *)

MonInv == LockInv /\ StoreInv /\ SavedSound /\ ColInv /\ DashInv

(* The end of a save: the snapshot is dropped and the save answered. *)
LEMMA InvalidateKeeps ==
  ASSUME MonInv, NEW p \in Handlers, invalidateLiveSnapshot(p), UNCHANGED ingestVars
  PROVE  MonInv'
<1>1. /\ p \in Processes /\ p # Collector /\ Collector \in Processes
      BY NobodyElse, SettingsAssumption
<1>2. /\ txn[p].op = "saved" /\ txn' = [txn EXCEPT ![p] = NoTxn] /\ holder' = holder
      /\ UNCHANGED <<config, secret, features, inventory, forms, boundTo>>
      /\ liveMu = Nobody /\ cache' = NoCache /\ liveMu' = liveMu /\ reader' = reader
      /\ acknowledged' = IF txn[p].saved > acknowledged THEN txn[p].saved ELSE acknowledged
      BY DEF invalidateLiveSnapshot
<1>3. LockInv'
      BY <1>1, <1>2, AnsweredKeeps DEF MonInv
<1>4. \A q \in Processes : q # p => txn'[q] = txn[q]
      BY <1>2 DEF MonInv, LockInv
<1>5. StoreInv' /\ SavedSound'
      BY <1>1, <1>2, QuietStore, SavedKeeps, VersionTyped DEF MonInv, StoreInv, StoreTyped
<1>6. StoreEffect(p)
      BY <1>1, <1>2, <1>3, <1>4, <1>5, VersionTyped DEF StoreEffect, MonInv
<1>7. ColInv'
      BY <1>6, ColKept DEF MonInv, ingestVars
<1>8. txn[p].saved \in Nat /\ txn[p].saved <= features.version
      BY <1>1 DEF MonInv, LockInv, Txn, SavedSound
<1>9. /\ acknowledged \in Nat /\ acknowledged' \in Nat
      /\ acknowledged <= acknowledged' /\ acknowledged' <= features.version
      BY <1>2, <1>8 DEF MonInv, DashInv, LiveTyped
<1>10. LiveTyped' /\ ~cache'.present
       BY <1>2, <1>9, LiveForms DEF MonInv, DashInv, LiveTyped
<1>11. \A r \in Readers : ReaderSound(r)'
  <2> TAKE r \in Readers
  <2>1. ReaderSound(r) /\ r # Nobody /\ reader[r].since \in Nat
        BY LiveAssumption DEF MonInv, DashInv, LiveTyped, ReaderStates
  <2> QED
      BY <1>2, <1>9, <2>1 DEF ReaderSound
<1> QED
    BY <1>2, <1>3, <1>5, <1>7, <1>9, <1>10, <1>11 DEF MonInv, DashInv

LEMMA MonNext == MonInv /\ [Next]_vars => MonInv'
<1> SUFFICES ASSUME MonInv, [Next]_vars PROVE MonInv'
    OBVIOUS
<1>1. ASSUME NEW p \in Handlers, StoreNext(p), UNCHANGED <<ingestVars, liveVars>>
      PROVE  MonInv'
  <2>1. StoreEffect(p)
        BY <1>1, HandlerEffect DEF MonInv
  <2>2. ColInv'
        BY <1>1, <2>1, ColKept DEF MonInv, ingestVars
  <2>3. DashInv'
        BY <1>1, <2>1, DashKept DEF MonInv, StoreEffect
  <2> QED
      BY <2>1, <2>2, <2>3 DEF MonInv, StoreEffect
<1>2. ASSUME NEW p \in Handlers, invalidateLiveSnapshot(p), UNCHANGED ingestVars
      PROVE  MonInv'
      BY <1>2, InvalidateKeeps
<1>3. CASE IngestNext /\ UNCHANGED liveVars
  <2>1. IngestEffect
        BY <1>3, IngestKeeps DEF MonInv
  <2>2. DashInv'
        BY <1>3, <2>1, DashKept, VersionTyped DEF MonInv, IngestEffect
  <2> QED
      BY <2>1, <2>2 DEF MonInv, IngestEffect
<1>4. ASSUME NEW r \in Readers, ReaderNext(r), UNCHANGED ingestVars
      PROVE  MonInv'
  <2>1. DashInv' /\ UNCHANGED storeVars
        BY <1>4, ReaderKeeps DEF MonInv
  <2>2. LockInv' /\ StoreInv' /\ SavedSound'
        BY <2>1, LockFrame DEF MonInv, storeVars, StoreInv, StoreTyped, SecretSound, SavedSound
  <2>3. ColInv'
        BY <1>4, <2>1 DEF MonInv, ColInv, GenerationSound, Fenced, ConfigCurrent, ConfigOf, ingestVars, storeVars
  <2> QED
      BY <2>1, <2>2, <2>3 DEF MonInv
<1>5. CASE UNCHANGED vars
  <2>1. LockInv' /\ StoreInv' /\ SavedSound'
        BY <1>5, LockFrame DEF MonInv, vars, storeVars, StoreInv, StoreTyped, SecretSound, SavedSound
  <2>2. ColInv'
        BY <1>5 DEF MonInv, ColInv, GenerationSound, Fenced, ConfigCurrent, ConfigOf, ingestVars, storeVars, vars
  <2>3. DashInv'
        BY <1>5, <2>1, DashKept, VersionTyped DEF MonInv, vars, storeVars
  <2> QED
      BY <2>1, <2>2, <2>3 DEF MonInv
<1> QED
    BY <1>1, <1>2, <1>3, <1>4, <1>5 DEF Next, HandlerNext

LEMMA MonStart == Init => MonInv
<1> SUFFICES ASSUME Init PROVE MonInv
    OBVIOUS
<1>1. LockInv
  <2>1. holder \in [Locks -> Owners] /\ (\A l \in Locks : holder[l] = Nobody)
        BY DEF Init, StoreInit, Owners
  <2>2. txn \in [Processes -> Txn] /\ (\A p \in Processes : txn[p] = NoTxn)
        BY NoTxnForm DEF Init, StoreInit
  <2> QED
      BY <2>1, <2>2, NoTxnForm DEF LockInv, HolderSound, TxnSound
<1>2. StoreInv
  <2>1. PICK e \in Endpoints, set \in BOOLEAN :
          /\ config = [s \in Sections |->
                         [endpoint |-> IF set /\ s \in Integrations THEN e ELSE NoEndpoint,
                          enabled |-> set \/ s = "llm_usage"]]
          /\ secret = [i \in Integrations |-> IF set THEN 1 ELSE 0]
          /\ boundTo = [f \in 1..(MaxForms + 1) |-> IF set /\ f = 1 THEN e ELSE NoEndpoint]
          /\ features = [on |-> [w \in Switches |-> set], version |-> 0]
        BY DEF Init, StoreInit
  <2>2. forms = 1 /\ inventory \in [Pods -> Servers]
        BY DEF Init, StoreInit
  <2>3. config \in [Sections -> Row]
        BY <2>1 DEF Row
  <2>4. secret \in [Integrations -> 0..(MaxForms + 1)] /\ forms \in FormNumbers
        BY <2>1, <2>2, SettingsAssumption DEF FormNumbers
  <2>5. boundTo \in [FormNumbers -> Endpoints \cup {NoEndpoint}]
        BY <2>1 DEF FormNumbers
  <2>6. features \in Snapshots
        BY <2>1 DEF Snapshots, Switched
  <2>7. \A i \in Integrations : SecretSound(i)
    <3> TAKE i \in Integrations
    <3>1. i \in Sections /\ 1 \in 1..(MaxForms + 1)
          BY SettingsAssumption DEF Sections
    <3> QED
        BY <2>1, <2>2, <3>1 DEF SecretSound
  <2> QED
      BY <2>2, <2>3, <2>4, <2>5, <2>6, <2>7 DEF StoreInv, StoreTyped
<1>3. SavedSound
      BY <1>2, VersionTyped DEF Init, StoreInit, SavedSound
<1>4. ColInv
      BY IdleForm, NobodyElse, NoTxnForm DEF Init, StoreInit, IngestInit, ColInv, GenerationSound, Fenced, Jobs
<1>5. DashInv
      BY <1>2, LiveForms, VersionTyped DEF Init, LiveInit, DashInv, LiveTyped, ReaderSound
<1> QED
    BY <1>1, <1>2, <1>3, <1>4, <1>5 DEF MonInv

LEMMA MonAlways == Spec => []MonInv
BY MonStart, MonNext, PTL DEF Spec

LEMMA MonTyped == MonInv => TypeOK
<1> SUFFICES ASSUME MonInv PROVE TypeOK
    OBVIOUS
<1>1. /\ \A s \in Sections : config[s] \in Row
      /\ \A i \in Integrations : secret[i] \in 0..(MaxForms + 1)
      /\ \A pod \in Pods : inventory[pod] \in Servers \cup {NoServer}
      /\ forms \in 1..(MaxForms + 1)
      /\ \A f \in 1..(MaxForms + 1) : boundTo[f] \in Endpoints \cup {NoEndpoint}
      BY DEF MonInv, StoreInv, StoreTyped, FormNumbers
<1>2. (\A w \in Switches : features.on[w] \in BOOLEAN) /\ features.version \in Nat
      BY DEF MonInv, StoreInv, StoreTyped, Snapshots, Switched
<1>3. /\ \A p \in Processes : txn[p] \in Txn
      /\ \A l \in Locks :
           holder[l] \in Owners /\ (holder[l] # Nobody => txn[holder[l]].op \in DOMAIN LockPlan)
      BY DEF MonInv, LockInv, HolderSound
<1>4. col.step \in {"idle", "plan", "ask", "asked", "save"} /\ col.job \in Jobs
      BY DEF MonInv, ColInv, Collectors
<1>5. cache.present \in BOOLEAN /\ liveMu \in Readers \cup {Nobody} /\ acknowledged \in Nat
      BY DEF MonInv, DashInv, LiveTyped
<1> QED
    BY <1>1, <1>2, <1>3, <1>4, <1>5 DEF TypeOK

(* Every variable keeps its type and locks are held by transactions, for    *)
(* any number of handlers, dashboard readers, Pods and servers.             *)
THEOREM TypeCorrect == Spec => []TypeOK
BY MonAlways, MonTyped, PTL

(* No stored secret is ever sent to an endpoint it was not entered for,     *)
(* whatever forms were saved in between and however old the generation of   *)
(* the collector (validateStoredSecretBindings, GetSettingsAndSecret).      *)
THEOREM SecretsStayBound == Spec => []SecretsMeetTheirEndpoint
<1>1. MonInv => SecretsMeetTheirEndpoint
  <2> SUFFICES ASSUME MonInv PROVE SecretsMeetTheirEndpoint
      OBVIOUS
  <2>1. \A i \in Integrations : secret[i] # 0 => boundTo[secret[i]] = config[i].endpoint
        BY DEF MonInv, StoreInv, SecretSound
  <2>2. ASSUME NEW c \in GetSettingsAndSecret, c.secret # 0 PROVE boundTo[c.secret] = c.endpoint
        BY <2>1, <2>2 DEF GetSettingsAndSecret
  <2>3. ASSUME NEW c \in integrationTest, c.secret # 0 PROVE boundTo[c.secret] = c.endpoint
    <3>1. PICK t \in Endpoints \X Integrations :
            /\ secret[t[2]] # 0 => integrationBindingMatches(t[1], config[t[2]].endpoint)
            /\ c.endpoint = t[1] /\ c.secret = secret[t[2]]
          BY <2>3 DEF integrationTest
    <3> QED
        BY <2>1, <2>3, <3>1 DEF integrationBindingMatches
  <2>4. ASSUME NEW c \in CollectorCalls, c.secret # 0 PROVE boundTo[c.secret] = c.endpoint
        BY <2>4 DEF CollectorCalls, MonInv, ColInv, GenerationSound
  <2> QED
      BY <2>2, <2>3, <2>4 DEF SecretsMeetTheirEndpoint
<1> QED
    BY <1>1, MonAlways, PTL

(* The transactions never wait for one another in a circle, however many    *)
(* there are: whoever waits for the inventory holds what precedes it        *)
(* (settings.go, LockPlan).                                                 *)
THEOREM LocksNeverDeadlock == Spec => []NoDeadlock
<1>1. MonInv => NoDeadlock
      BY LocksAreOrdered DEF MonInv
<1> QED
    BY <1>1, MonAlways, PTL

(* A sample is stored with the collector's locks held, after both           *)
(* comparisons: it belongs to the settings, the secret and the attribution  *)
(* of the moment, and its switch is on (lockAndMatchIntegrationGeneration). *)
THEOREM SamplesAreCurrent == Spec => StoredIsCurrent
<1> DEFINE Stored == sample' \notin {sample, NoSample} =>
                       /\ sample'.endpoint = config[Source[sample'.job]].endpoint
                       /\ sample'.secret = secret[Source[sample'.job]]
                       /\ sample'.server = sample'.owner
                       /\ GateOpen(sample'.gate)
<1>1. MonInv /\ [Next]_vars => [Stored]_vars
  <2> SUFFICES ASSUME MonInv, Next, sample' \notin {sample, NoSample} PROVE Stored
      OBVIOUS
  <2>1. StoreAnswer
    <3>1. ~(UNCHANGED ingestVars)
          BY DEF ingestVars
    <3>2. IngestNext
          BY <3>1 DEF Next, HandlerNext
    <3> QED
        BY <3>2 DEF IngestNext, IngestStep, ReadGeneration, SkipJob, prometheusQueries, Ask, Answer,
                    LockSettings, LockInventory, DiscardStale, NoMoreQueries, QueryFails, StoreFails, ingestVars
  <2>2. /\ txn[Collector].need = <<>> /\ txn[Collector].op = "store_samples" /\ InventoryCurrent
        BY <2>1 DEF StoreAnswer, Ready
  <2>3. ConfigCurrent /\ col.job \in Jobs
        BY <2>2 DEF MonInv, ColInv, Fenced, Collectors
  <2>4. PICK pod : sample' = Attributed(pod) /\ GateOpen(col.gate)
        BY <2>1, <2>3 DEF StoreAnswer, updatePods, saveMetricPoints, saveLLMMetricPoints, Jobs,
                          featureEnabledForSave
  <2>5. /\ sample'.job = col.job /\ sample'.gate = col.gate /\ sample'.secret = col.generation.secret
        /\ sample'.endpoint = col.generation.config[Source[col.job]].endpoint
        /\ sample'.server = inventory[pod] /\ sample'.owner = col.generation.inventory[pod]
        BY <2>4 DEF Attributed
  <2>6. col.generation.config[Source[col.job]] = config[Source[col.job]]
        BY <2>3, JobForm DEF ConfigCurrent, ConfigOf
  <2> QED
      BY <2>2, <2>3, <2>4, <2>5, <2>6 DEF ConfigCurrent, InventoryCurrent
<1> QED
    BY <1>1, MonAlways, PTL DEF Spec, StoredIsCurrent

(* The dashboard answers nothing of a feature that is off, and never data   *)
(* computed before a save that had been answered when it was asked          *)
(* (redactDisabledMonitoring, cachedLiveSnapshot, invalidateLiveSnapshot).  *)
THEOREM DashboardIsHonest == Spec => DashboardHonoursSwitches
<1> DEFINE Honest == \A r \in Readers :
                       reader[r].step = "redact" /\ reader'[r] # reader[r] =>
                         /\ \A w \in reader'[r].shown : features.on[w]
                         /\ reader'[r].snapshot.version >= reader'[r].since
<1>1. MonInv /\ [Next]_vars => [Honest]_vars
  <2> SUFFICES ASSUME MonInv, Next, NEW r \in Readers, reader[r].step = "redact", reader'[r] # reader[r]
               PROVE  /\ \A w \in reader'[r].shown : features.on[w]
                      /\ reader'[r].snapshot.version >= reader'[r].since
      OBVIOUS
  <2>1. reader \in [Readers -> ReaderStates]
        BY DEF MonInv, DashInv, LiveTyped
  <2>2. PICK q \in Readers : ReaderNext(q)
        BY DEF Next, HandlerNext, liveVars, invalidateLiveSnapshot
  <2>3. q = r
        BY <2>1, <2>2 DEF ReaderNext, StartRead, UseCache, LiveSnapshot, FillCache, ReadFails,
                          redactDisabledMonitoring, EndRead
  <2>4. PICK readable \in BOOLEAN : redactDisabledMonitoring(r, readable)
        BY <2>2, <2>3 DEF ReaderNext, StartRead, UseCache, LiveSnapshot, FillCache, ReadFails, EndRead
  <2>5. /\ reader'[r].shown = {w \in Shown(reader[r].snapshot) : readable /\ features.on[w]}
        /\ reader'[r].snapshot = reader[r].snapshot /\ reader'[r].since = reader[r].since
        BY <2>1, <2>4 DEF redactDisabledMonitoring, ReaderStates
  <2>6. reader[r].snapshot.version >= reader[r].since
        BY DEF MonInv, DashInv, ReaderSound
  <2> QED
      BY <2>5, <2>6
<1> QED
    BY <1>1, MonAlways, PTL DEF Spec, DashboardHonoursSwitches
=============================================================================
