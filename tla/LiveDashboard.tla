--------------------------- MODULE LiveDashboard ---------------------------
(***************************************************************************)
(* The live snapshot that the dashboard and its event stream share         *)
(* (api/core_handlers.go): computed at most every four seconds under a     *)
(* mutex, dropped when settings are saved, and stripped of what is         *)
(* switched off every time it is handed out.  The age of a snapshot is     *)
(* left open: any request may find it expired.                             *)
(***************************************************************************)
EXTENDS SettingsStore

CONSTANT Readers   \* dashboard requests and stream ticks

ASSUME LiveAssumption == Nobody \notin Readers

VARIABLES
  cache,         \* the cached snapshot: the switches it was computed with
  liveMu,        \* who holds the mutex of the cache
  reader,        \* each reader's step and the snapshot in its hands
  acknowledged   \* history: the newest features row whose save was answered

liveVars == <<cache, liveMu, reader, acknowledged>>

NoSnapshot == [on |-> [w \in Switches |-> FALSE], version |-> 0]
NoCache == [snapshot |-> NoSnapshot, present |-> FALSE]
AtRest == [step |-> "rest", snapshot |-> NoSnapshot, since |-> 0, shown |-> {}]

(* The parts of a snapshot that belong to a switch. *)
Shown(snapshot) == {w \in Switches : snapshot.on[w]}

StartRead(r) ==
  /\ reader[r].step = "rest"
  /\ reader' = [reader EXCEPT ![r] = [AtRest EXCEPT !.step = "read", !.since = acknowledged]]
  /\ UNCHANGED <<cache, liveMu, acknowledged, storeVars>>

UseCache(r) ==
  /\ reader[r].step = "read"
  /\ liveMu = Nobody
  /\ cache.present
  /\ reader' = [reader EXCEPT ![r].step = "redact", ![r].snapshot = cache.snapshot]
  /\ UNCHANGED <<cache, liveMu, acknowledged, storeVars>>

(* Mutant: the database is read without the mutex. *)
LiveSnapshotUnlocked(r) ==
  /\ reader[r].step = "read"
  /\ reader' = [reader EXCEPT ![r].step = "fill", ![r].snapshot = features]
  /\ UNCHANGED <<cache, liveMu, acknowledged, storeVars>>

(* LiveSnapshot reads the database with the mutex held. *)
LiveSnapshot(r) ==
  /\ reader[r].step = "read"
  /\ liveMu = Nobody
  /\ liveMu' = r
  /\ reader' = [reader EXCEPT ![r].step = "fill", ![r].snapshot = features]
  /\ UNCHANGED <<cache, acknowledged, storeVars>>

FillCache(r) ==
  /\ reader[r].step = "fill"
  /\ cache' = [snapshot |-> reader[r].snapshot, present |-> TRUE]
  /\ liveMu' = Nobody
  /\ reader' = [reader EXCEPT ![r].step = "redact"]
  /\ UNCHANGED <<acknowledged, storeVars>>

ReadFails(r) ==
  /\ reader[r].step = "fill"
  /\ liveMu' = Nobody
  /\ reader' = [reader EXCEPT ![r] = AtRest]
  /\ UNCHANGED <<cache, acknowledged, storeVars>>

(* redactDisabledMonitoring with the switches as they are now; if they      *)
(* cannot be read they count as off.                                        *)
redactDisabledMonitoring(r, readable) ==
  /\ reader[r].step = "redact"
  /\ reader' = [reader EXCEPT ![r].step = "answered",
                 ![r].shown = {w \in Shown(reader[r].snapshot) : readable /\ features.on[w]}]
  /\ UNCHANGED <<cache, liveMu, acknowledged, storeVars>>

EndRead(r) ==
  /\ reader[r].step = "answered"
  /\ reader' = [reader EXCEPT ![r] = AtRest]
  /\ UNCHANGED <<cache, liveMu, acknowledged, storeVars>>

(* The end of settingsPut: the snapshot is dropped, under the mutex, before *)
(* the save is answered.                                                    *)
invalidateLiveSnapshot(p) ==
  /\ txn[p].op = "saved"
  /\ liveMu = Nobody
  /\ cache' = NoCache
  /\ acknowledged' = IF txn[p].saved > acknowledged THEN txn[p].saved ELSE acknowledged
  /\ txn' = [txn EXCEPT ![p] = NoTxn]
  /\ UNCHANGED <<config, secret, features, inventory, holder, forms, boundTo,
                 liveMu, reader>>

LiveInit ==
  /\ cache = NoCache
  /\ liveMu = Nobody
  /\ reader = [r \in Readers |-> AtRest]
  /\ acknowledged = 0

ReaderNext(r) ==
  \/ StartRead(r)
  \/ UseCache(r)
  \/ LiveSnapshot(r)
  \/ FillCache(r)
  \/ ReadFails(r)
  \/ \E readable \in BOOLEAN : redactDisabledMonitoring(r, readable)
  \/ EndRead(r)
=============================================================================
