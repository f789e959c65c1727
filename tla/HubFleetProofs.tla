--------------------------- MODULE HubFleetProofs ---------------------------
(***************************************************************************)
(* Proofs about HubFleet for any number of Hubs, URLs, users, requests and *)
(* operations: type correctness, the binding of tokens to endpoints, and   *)
(* the provenance of everything materialised from a remote Hub.            *)
(***************************************************************************)
EXTENDS HubFleet, TLAPS

(* Requests and operations that have started name a Hub. *)
InFlightNameHubs ==
  /\ \A r \in Requests : req[r].pc # "idle" => req[r].hub \in Hubs
  /\ \A o \in Operations : op[o].pc # "idle" => op[o].hub \in Hubs

(* Present rows have an id the sequence has issued. *)
IdsIssued == \A h \in Hubs : hub[h].present => h <= hubSeq

(* Only tokens already entered are in use, so a new one overwrites nothing. *)
SecretsIssued ==
  /\ \A h \in Hubs : hub[h].present => hub[h].secret \in 1 .. secretSeq
  /\ \A r \in Requests :
       req[r].pc \notin {"idle", "queued"} => req[r].cred.secret \in 1 .. secretSeq
  /\ \A o \in Operations : op[o].pc = "sent" => op[o].cred.secret \in 1 .. secretSeq

(* While the row an operation names is the same incarnation, it still comes *)
(* from the authority it came from when the operation was asked for.        *)
OperationsRemember ==
  \A o \in Operations : op[o].pc = "asked" =>
    LET row == server[op[o].hub][op[o].name]
    IN  /\ op[o].inc <= row.inc
        /\ row.present /\ row.inc = op[o].inc => row.from = op[o].asked

TypeInv == TypeOK /\ InFlightNameHubs

(* The inductive invariant: each property needs the auxiliary ones beside it. *)
SafetyInv ==
  /\ TypeInv
  /\ IdsIssued
  /\ SecretsIssued
  /\ TokenBinding
  /\ MaterialisedFromCurrentAuthority
  /\ HealthFromCurrentAuthority
  /\ OperationsRemember
  /\ OperationReachesItsAuthority

LEMMA RowTypes ==
  /\ NoHub \in HubRow
  /\ NoUser \in UserRow
  /\ NoCredential \in Credential
  /\ IdleRequest \in Request
  /\ IdleOperation \in Operation
<1>1. NoHub \in HubRow /\ NoUser \in UserRow /\ NoCredential \in Credential
  BY BoundAssumption DEF NoHub, HubRow, NoUser, UserRow, NoCredential, Credential, Statuses
<1>2. IdleRequest \in Request
  BY <1>1, BoundAssumption DEF IdleRequest, Request, Phases, Kinds, Statuses
<1>3. IdleOperation \in Operation
  BY <1>1, BoundAssumption, NameAssumption DEF IdleOperation, Operation
<1> QED BY <1>1, <1>2, <1>3

LEMMA CredentialType ==
  ASSUME NEW row \in HubRow
  PROVE  CredentialOf(row) \in Credential
BY DEF HubRow, Credential, CredentialOf

LEMMA InitTypes == Init => TypeInv
<1> SUFFICES ASSUME Init PROVE TypeInv
  OBVIOUS
<1>1. hub \in [Hubs -> HubRow] /\ user \in [Hubs -> [Names -> UserRow]]
  BY RowTypes DEF Init
<1>2. server \in [Hubs -> [Names -> ServerRow]]
  BY DEF Init, ServerRow
<1>3. req \in [Requests -> Request] /\ op \in [Operations -> Operation]
  BY RowTypes DEF Init
<1>4. entered \in [0 .. MaxSecrets -> Endpoint]
  BY DEF Init, Endpoint
<1>5. InFlightNameHubs
  BY DEF Init, InFlightNameHubs, IdleRequest, IdleOperation
<1>6. hubSeq \in 0 .. MaxHubs /\ secretSeq \in 0 .. MaxSecrets
  BY BoundAssumption DEF Init
<1> QED BY <1>1, <1>2, <1>3, <1>4, <1>5, <1>6 DEF TypeInv, TypeOK

(***************************************************************************)
(* Every step keeps the types, one lemma per group of actions.             *)
(***************************************************************************)
LEMMA DroppedTypes ==
  ASSUME NEW rows \in [Names -> ServerRow]
  PROVE  /\ ServersDropped(rows) \in [Names -> ServerRow]
         /\ UsersDropped \in [Names -> UserRow]
BY RowTypes DEF ServersDropped, UsersDropped, ServerRow

LEMMA SyncedTypes ==
  ASSUME NEW users \in [Names -> UserRow], NEW rows \in [Names -> ServerRow],
         NEW seen \in SUBSET Names, NEW up \in SUBSET Names, NEW from \in Urls \cup {NoUrl}
  PROVE  /\ SyncedUsers(users, seen, from) \in [Names -> UserRow]
         /\ SyncedServers(rows, up, from) \in [Names -> ServerRow]
<1>1. SyncedUsers(users, seen, from) \in [Names -> UserRow]
  BY DEF SyncedUsers, UserRow
<1>2. ASSUME NEW n \in Names
      PROVE  SyncedServers(rows, up, from)[n] \in ServerRow
  <2>1. rows[n].inc \in Nat /\ rows[n].inc + 1 \in Nat
    BY DEF ServerRow
  <2>2. CASE n \in up
    BY <2>1, <2>2 DEF SyncedServers, ServerRow
  <2>3. CASE n \notin up
    BY <2>3 DEF SyncedServers, ServerRow
  <2> QED BY <2>2, <2>3
<1> QED BY <1>1, <1>2 DEF SyncedServers

(* What a snapshot does to one row: it is rewritten, or only marked stopped. *)
LEMMA SyncedRows ==
  ASSUME NEW users, NEW rows, NEW seen, NEW up, NEW from, NEW n \in Names,
         users[n] \in UserRow, rows[n] \in ServerRow
  PROVE  /\ SyncedUsers(users, seen, from)[n].present =>
              \/ SyncedUsers(users, seen, from)[n].from = from
              \/ users[n].present /\ SyncedUsers(users, seen, from)[n].from = users[n].from
         /\ SyncedServers(rows, up, from)[n].present =>
              \/ SyncedServers(rows, up, from)[n].from = from
              \/ rows[n].present /\ SyncedServers(rows, up, from)[n].from = rows[n].from
         /\ rows[n].present => SyncedServers(rows, up, from)[n].inc = rows[n].inc
         /\ ~rows[n].present =>
              \/ SyncedServers(rows, up, from)[n].inc = rows[n].inc + 1
              \/ /\ SyncedServers(rows, up, from)[n].inc = rows[n].inc
                 /\ ~SyncedServers(rows, up, from)[n].present
<1> DEFINE u == SyncedUsers(users, seen, from)[n]
           s == SyncedServers(rows, up, from)[n]
<1>0. users[n] \in UserRow /\ rows[n] \in ServerRow
  OBVIOUS
<1>1. u.present => u.from = from \/ (users[n].present /\ u.from = users[n].from)
  <2>1. CASE n \in seen
    BY <2>1 DEF SyncedUsers
  <2>2. CASE n \notin seen
    <3>1. u = [users[n] EXCEPT !.active = FALSE]
      BY <2>2 DEF SyncedUsers
    <3> QED BY <1>0, <3>1 DEF UserRow
  <2> QED BY <2>1, <2>2
<1>2. CASE n \in up
  <2>1. s = [present |-> TRUE, from |-> from, running |-> TRUE,
             inc |-> IF rows[n].present THEN rows[n].inc ELSE rows[n].inc + 1]
    BY <1>2 DEF SyncedServers
  <2>2. s.from = from /\ s.inc = (IF rows[n].present THEN rows[n].inc ELSE rows[n].inc + 1)
    BY <2>1
  <2> HIDE DEF s, u
  <2> QED BY <1>1, <2>2 DEF s, u
<1>3. CASE n \notin up
  <2>1. s = [rows[n] EXCEPT !.running = FALSE]
    BY <1>3 DEF SyncedServers
  <2>2. s.from = rows[n].from /\ s.present = rows[n].present /\ s.inc = rows[n].inc
    BY <1>0, <2>1 DEF ServerRow
  <2> QED BY <1>1, <2>2
<1> QED BY <1>2, <1>3

LEMMA EnterSecretTypes ==
  ASSUME TypeOK, NEW url \in Urls, NEW tls \in TlsModes,
         EnterSecret([url |-> url, tls |-> tls])
  PROVE  /\ secretSeq' \in 0 .. MaxSecrets
         /\ entered' \in [0 .. MaxSecrets -> Endpoint]
BY BoundAssumption, TlsAssumption DEF TypeOK, EnterSecret, Endpoint

LEMMA AdministrateTypes == TypeInv /\ Administrate => TypeInv'
<1> SUFFICES ASSUME TypeInv, Administrate PROVE TypeInv'
  OBVIOUS
<1> USE DEF TypeInv, TypeOK
<1>1. ASSUME NEW url \in Urls, NEW tls \in TlsModes, NEW enabled \in BOOLEAN,
             CreateHub(url, tls, enabled)
      PROVE  TypeInv'
  <2>1. secretSeq' \in 0 .. MaxSecrets /\ entered' \in [0 .. MaxSecrets -> Endpoint]
    BY <1>1, EnterSecretTypes DEF CreateHub
  <2>2. hubSeq' \in 0 .. MaxHubs /\ hubSeq + 1 \in Hubs
    BY <1>1, BoundAssumption DEF CreateHub, Hubs
  <2>3. [present |-> TRUE, url |-> url, tls |-> tls, enabled |-> enabled,
         secret |-> secretSeq + 1, status |-> "unknown", version |-> NoUrl] \in HubRow
    BY <1>1, BoundAssumption, TlsAssumption DEF CreateHub, EnterSecret, HubRow, Statuses
  <2>4. hub' \in [Hubs -> HubRow]
    BY <1>1, <2>2, <2>3 DEF CreateHub
  <2>5. UNCHANGED <<user, server, req, op>>
    BY <1>1 DEF CreateHub
  <2> QED BY <2>1, <2>2, <2>4, <2>5 DEF InFlightNameHubs
<1>2. ASSUME NEW h \in Hubs, NEW url \in Urls, NEW tls \in TlsModes, NEW enabled \in BOOLEAN,
             NEW newToken \in BOOLEAN, UpdateHub(h, url, tls, enabled, newToken)
      PROVE  TypeInv'
  <2>1. secretSeq' \in 0 .. MaxSecrets /\ entered' \in [0 .. MaxSecrets -> Endpoint]
    <3>1. CASE newToken
      BY <1>2, <3>1, EnterSecretTypes DEF UpdateHub
    <3>2. CASE ~newToken
      BY <1>2, <3>2 DEF UpdateHub
    <3> QED BY <3>1, <3>2
  <2>2. newToken => secretSeq + 1 \in 0 .. MaxSecrets
    BY <1>2, BoundAssumption DEF UpdateHub, EnterSecret
  <2>3. [present |-> TRUE, url |-> url, tls |-> tls, enabled |-> enabled,
         secret  |-> IF newToken THEN secretSeq + 1 ELSE hub[h].secret,
         status  |-> IF ReplaceTarget(h, url) THEN "unknown" ELSE hub[h].status,
         version |-> IF ReplaceTarget(h, url) THEN NoUrl ELSE hub[h].version] \in HubRow
    BY <1>2, <2>2, TlsAssumption DEF HubRow, Statuses
  <2>4. hub' \in [Hubs -> HubRow]
    BY <1>2, <2>3 DEF UpdateHub
  <2>5. user' \in [Hubs -> [Names -> UserRow]] /\ server' \in [Hubs -> [Names -> ServerRow]]
    BY <1>2, DroppedTypes DEF UpdateHub
  <2>6. UNCHANGED <<hubSeq, req, op>>
    BY <1>2 DEF UpdateHub
  <2> QED BY <2>1, <2>4, <2>5, <2>6 DEF InFlightNameHubs
<1>3. ASSUME NEW h \in Hubs, DeleteHub(h)
      PROVE  TypeInv'
  <2>1. hub' \in [Hubs -> HubRow]
    BY <1>3, RowTypes DEF DeleteHub
  <2>2. user' \in [Hubs -> [Names -> UserRow]] /\ server' \in [Hubs -> [Names -> ServerRow]]
    BY <1>3, DroppedTypes DEF DeleteHub
  <2>3. UNCHANGED <<hubSeq, secretSeq, entered, req, op>>
    BY <1>3 DEF DeleteHub
  <2> QED BY <2>1, <2>2, <2>3 DEF InFlightNameHubs
<1> QED BY <1>1, <1>2, <1>3 DEF Administrate

LEMMA RequestTypes ==
  ASSUME TypeInv, NEW r \in Requests,
         \/ Step(r) \/ LoseHealth(r)
         \/ \E kind \in Kinds, h \in Hubs : StartRequest(r, kind, h)
  PROVE  TypeInv'
<1> USE DEF TypeInv, TypeOK
<1> DEFINE Others == UNCHANGED <<hub, user, server, hubSeq, secretSeq, entered, op>>
<1>0. ASSUME Others, NEW q \in Request, req' = [req EXCEPT ![r] = q],
             q.pc # "idle" => q.hub \in Hubs
      PROVE  TypeInv'
  <2>1. req' \in [Requests -> Request]
    BY <1>0
  <2>2. InFlightNameHubs'
    BY <1>0 DEF InFlightNameHubs
  <2> QED BY <1>0, <2>1, <2>2
<1>1. ASSUME Others, Finish(r) PROVE TypeInv'
  BY <1>0, <1>1, RowTypes DEF Finish, IdleRequest
<1>2. ASSUME Others, NEW pc \in Phases, Move(r, pc), req[r].pc # "idle" PROVE TypeInv'
  <2>1. [req[r] EXCEPT !.pc = pc] \in Request
    BY DEF Request
  <2>2. req' = [req EXCEPT ![r] = [req[r] EXCEPT !.pc = pc]]
    BY <1>2 DEF Move
  <2>3. [req[r] EXCEPT !.pc = pc].hub \in Hubs
    BY <1>2 DEF InFlightNameHubs, Request
  <2> QED BY <1>0, <1>2, <2>1, <2>2, <2>3
<1>3. ASSUME NEW kind \in Kinds, NEW h \in Hubs, StartRequest(r, kind, h) PROVE TypeInv'
  <2> DEFINE q == [IdleRequest EXCEPT !.pc = "queued", !.kind = kind, !.hub = h]
  <2>0. h \in 0 .. MaxHubs
    BY BoundAssumption DEF Hubs
  <2>1. q \in Request /\ q.hub \in Hubs
    BY <2>0, RowTypes DEF Request, Phases
  <2> QED BY <1>0, <1>3, <2>1 DEF StartRequest
<1>4. CASE ReadCredential(r)
  <2>1. hub[req[r].hub] \in HubRow /\ req[r].hub \in Hubs
    BY <1>4 DEF ReadCredential, InFlightNameHubs
  <2>2. CASE Finish(r)
    BY <1>1, <1>4, <2>2 DEF ReadCredential
  <2>3. CASE req' = [req EXCEPT ![r].pc = "info", ![r].cred = CredentialOf(hub[req[r].hub])]
    <3> DEFINE q == [req[r] EXCEPT !.pc = "info", !.cred = CredentialOf(hub[req[r].hub])]
    <3>1. q \in Request /\ q.hub \in Hubs
      BY <2>1, CredentialType DEF Request, Phases
    <3>2. req' = [req EXCEPT ![r] = q]
      BY <2>3
    <3> QED BY <1>0, <1>4, <3>1, <3>2 DEF ReadCredential
  <2> QED BY <1>4, <2>2, <2>3 DEF ReadCredential
<1>5. CASE Info(r)
  BY <1>2, <1>5 DEF Info, Phases
<1>6. CASE FetchUsers(r)
  <2>1. CASE Move(r, "unhealthy")
    BY <1>2, <1>6, <2>1 DEF FetchUsers, Phases
  <2>2. ASSUME NEW seen \in SUBSET Names, NEW up \in SUBSET seen,
               req' = [req EXCEPT ![r].pc = "sync", ![r].seen = seen, ![r].up = up]
        PROVE  TypeInv'
    <3> DEFINE q == [req[r] EXCEPT !.pc = "sync", !.seen = seen, !.up = up]
    <3>1. q \in Request /\ q.hub \in Hubs
      BY <1>6 DEF FetchUsers, Request, Phases, InFlightNameHubs
    <3>2. req' = [req EXCEPT ![r] = q]
      BY <2>2
    <3> QED BY <1>0, <1>6, <3>1, <3>2 DEF FetchUsers
  <2> QED BY <1>6, <2>1, <2>2 DEF FetchUsers
<1>7. CASE SyncHubUsers(r)
  <2> DEFINE h == req[r].hub
             cred == req[r].cred
  <2>1. /\ h \in Hubs /\ cred.url \in Urls \cup {NoUrl}
        /\ req[r].seen \in SUBSET Names /\ req[r].up \in SUBSET Names
    BY <1>7 DEF SyncHubUsers, InFlightNameHubs, Request, Credential
  <2>2. user' \in [Hubs -> [Names -> UserRow]] /\ server' \in [Hubs -> [Names -> ServerRow]]
    <3>0. /\ SyncedUsers(user[h], req[r].seen, cred.url) \in [Names -> UserRow]
          /\ SyncedServers(server[h], req[r].up, cred.url) \in [Names -> ServerRow]
      <4>1. user[h] \in [Names -> UserRow] /\ server[h] \in [Names -> ServerRow]
        BY <2>1
      <4> HIDE DEF h, cred
      <4> QED BY <2>1, <4>1, SyncedTypes, Zenon
    <3>1. \/ UNCHANGED <<user, server>>
          \/ /\ user' = [user EXCEPT ![h] = SyncedUsers(user[h], req[r].seen, cred.url)]
             /\ server' = [server EXCEPT ![h] = SyncedServers(server[h], req[r].up, cred.url)]
      BY <1>7 DEF SyncHubUsers
    <3> QED BY <2>1, <3>0, <3>1
  <2>3. req' \in [Requests -> Request]
    <3>1. CASE Finish(r)
      BY <3>1, RowTypes DEF Finish
    <3>2. ASSUME NEW pc \in {"healthy", "unhealthy"},
                 req' = [req EXCEPT ![r].pc = pc, ![r].seen = {}, ![r].up = {}]
          PROVE  req' \in [Requests -> Request]
      <4>1. [req[r] EXCEPT !.pc = pc, !.seen = {}, !.up = {}] \in Request
        BY <3>2 DEF Request, Phases
      <4> QED BY <3>2, <4>1
    <3> QED BY <1>7, <3>1, <3>2 DEF SyncHubUsers
  <2>4. InFlightNameHubs'
    <3>1. \A q \in Requests \ {r} : req'[q] = req[q]
      BY <1>7 DEF SyncHubUsers, Finish
    <3>2. req'[r].pc # "idle" => req'[r].hub = req[r].hub
      BY <1>7, <2>1 DEF SyncHubUsers, Finish, IdleRequest, Request
    <3>3. op' = op
      BY <1>7 DEF SyncHubUsers
    <3> QED BY <2>1, <3>1, <3>2, <3>3 DEF InFlightNameHubs
  <2> QED BY <1>7, <2>2, <2>3, <2>4 DEF SyncHubUsers
<1>8. CASE UpdateHubHealth(r)
  <2>1. req[r].hub \in Hubs /\ req[r].cred.url \in Urls \cup {NoUrl}
    BY <1>8 DEF UpdateHubHealth, InFlightNameHubs, Request, Credential
  <2>2. hub' \in [Hubs -> HubRow]
    <3> DEFINE ok == req[r].pc = "healthy"
               h == req[r].hub
               row == [hub[h] EXCEPT !.status = IF ok THEN "healthy" ELSE "degraded",
                                     !.version = IF ok THEN req[r].cred.url ELSE @]
    <3>1. row \in HubRow
      <4>1. hub[h] \in HubRow
        BY <2>1
      <4>2. CASE ok
        BY <2>1, <4>1, <4>2 DEF HubRow, Statuses
      <4>3. CASE ~ok
        BY <4>1, <4>3 DEF HubRow, Statuses
      <4> QED BY <4>2, <4>3
    <3>2. hub' = [hub EXCEPT ![h] = row]
      BY <1>8, <2>1 DEF UpdateHubHealth
    <3> QED BY <2>1, <3>1, <3>2
  <2>3. req' \in [Requests -> Request] /\ InFlightNameHubs'
    <3> DEFINE q == [req[r] EXCEPT !.pc = "notify", !.ok = (req[r].pc = "healthy")]
    <3>1. q \in Request /\ q.hub \in Hubs
      BY <2>1 DEF Request, Phases, HubRow
    <3>2. req' = [req EXCEPT ![r] = q]
      BY <1>8 DEF UpdateHubHealth
    <3> QED BY <1>8, <3>1, <3>2 DEF InFlightNameHubs, UpdateHubHealth
  <2> QED BY <1>8, <2>2, <2>3 DEF UpdateHubHealth
<1>9. CASE DiscardHealth(r) \/ LoseHealth(r) \/ NotifyHubHealth(r)
  BY <1>1, <1>9 DEF DiscardHealth, LoseHealth, NotifyHubHealth
<1> QED BY <1>3, <1>4, <1>5, <1>6, <1>7, <1>8, <1>9 DEF Step

LEMMA OperateTypes == TypeInv /\ (Operate \/ Restart) => TypeInv'
<1> SUFFICES ASSUME TypeInv, Operate \/ Restart PROVE TypeInv'
  OBVIOUS
<1> USE DEF TypeInv, TypeOK
<1>1. ASSUME NEW o \in Operations, NEW h \in Hubs, NEW n \in Names, AskOperation(o, h, n)
      PROVE  TypeInv'
  <2> DEFINE q == [IdleOperation EXCEPT !.pc = "asked", !.hub = h, !.name = n,
                     !.inc = server[h][n].inc, !.asked = server[h][n].from]
  <2>0. h \in 0 .. MaxHubs /\ server[h][n].inc \in Nat
        /\ server[h][n].from \in Urls \cup {NoUrl}
    BY BoundAssumption DEF Hubs, ServerRow
  <2>1. q \in Operation /\ q.hub \in Hubs
    BY <2>0, RowTypes DEF Operation
  <2> QED BY <1>1, <2>1 DEF AskOperation, InFlightNameHubs
<1>2. ASSUME NEW o \in Operations, SendOperation(o)
      PROVE  TypeInv'
  <2> DEFINE row == server[op[o].hub][op[o].name]
             q == [op[o] EXCEPT !.pc = "sent", !.from = row.from,
                                !.cred = CredentialOf(hub[op[o].hub])]
  <2>1. op[o].hub \in Hubs /\ op[o].name \in Names
    BY <1>2 DEF SendOperation, InFlightNameHubs, Operation
  <2>0. row.from \in Urls \cup {NoUrl} /\ CredentialOf(hub[op[o].hub]) \in Credential
    BY <2>1, CredentialType DEF ServerRow
  <2>2. q \in Operation /\ q.hub \in Hubs
    BY <2>0, <2>1 DEF Operation
  <2>3. op' = [op EXCEPT ![o] = q] \/ op' = [op EXCEPT ![o] = IdleOperation]
    BY <1>2 DEF SendOperation
  <2>4. req' = req
    BY <1>2 DEF SendOperation
  <2>5. op' \in [Operations -> Operation] /\ InFlightNameHubs'
    <3>1. CASE op' = [op EXCEPT ![o] = q]
      <4>1. op' \in [Operations -> Operation] /\ op'[o].hub \in Hubs
        BY <2>2, <3>1
      <4> QED BY <2>4, <3>1, <4>1 DEF InFlightNameHubs
    <3>2. CASE op' = [op EXCEPT ![o] = IdleOperation]
      BY <2>4, <3>2, RowTypes DEF InFlightNameHubs, IdleOperation
    <3> QED BY <2>3, <3>1, <3>2
  <2> QED BY <1>2, <2>5 DEF SendOperation
<1>3. ASSUME NEW o \in Operations, FinishOperation(o)
      PROVE  TypeInv'
  BY <1>3, RowTypes DEF FinishOperation, InFlightNameHubs, IdleOperation
<1>4. CASE Restart
  BY <1>4, RowTypes DEF Restart, InFlightNameHubs, IdleRequest, IdleOperation
<1> QED BY <1>1, <1>2, <1>3, <1>4 DEF Operate

(* Types are kept by every step of the specification. *)
LEMMA NextTypes == TypeInv /\ [Next]_vars => TypeInv'
<1> SUFFICES ASSUME TypeInv, [Next]_vars PROVE TypeInv'
  OBVIOUS
<1>1. CASE UNCHANGED vars
  BY <1>1 DEF vars, TypeInv, TypeOK, InFlightNameHubs
<1>2. CASE Next
  BY <1>2, AdministrateTypes, RequestTypes, OperateTypes DEF Next
<1> QED BY <1>1, <1>2

(* The rows, requests and operations of the Hub fleet always have the shape  *)
(* the schema and the handlers give them.                                    *)
THEOREM TypeCorrect == Spec => []TypeOK
<1>1. TypeInv => TypeOK
  BY DEF TypeInv
<1> QED BY <1>1, InitTypes, NextTypes, PTL DEF Spec

(***************************************************************************)
(* The safety invariant.                                                   *)
(***************************************************************************)
LEMMA InitSafety == Init => SafetyInv
<1> SUFFICES ASSUME Init PROVE SafetyInv
  OBVIOUS
<1>1. TypeInv
  BY InitTypes
<1>2. IdsIssued /\ SecretsIssued /\ TokenBinding
  BY DEF Init, IdsIssued, SecretsIssued, TokenBinding, NoHub, IdleRequest, IdleOperation
<1>3. MaterialisedFromCurrentAuthority
  BY DEF Init, MaterialisedFromCurrentAuthority, NoUser
<1>4. HealthFromCurrentAuthority
  BY DEF Init, HealthFromCurrentAuthority, NoHub
<1>5. OperationsRemember /\ OperationReachesItsAuthority
  BY DEF Init, OperationsRemember, OperationReachesItsAuthority, IdleOperation
<1> QED BY <1>1, <1>2, <1>3, <1>4, <1>5 DEF SafetyInv

(* A request holds the credential it held before, or that of a present row. *)
KeepsCredentials ==
  \A q \in Requests : req'[q].pc \notin {"idle", "queued"} =>
    \/ req[q].pc \notin {"idle", "queued"} /\ req'[q].cred = req[q].cred
    \/ \E h \in Hubs : hub[h].present /\ req'[q].cred = CredentialOf(hub[h])

LEMMA RequestsKeepCredentials ==
  ASSUME TypeInv, NEW r \in Requests,
         \/ Step(r) \/ LoseHealth(r)
         \/ \E kind \in Kinds, h \in Hubs : StartRequest(r, kind, h)
  PROVE  KeepsCredentials /\ UNCHANGED <<hubSeq, secretSeq, entered, op>>
<1>0. \A q \in Requests : req[q] \in Request
  BY DEF TypeInv, TypeOK
<1>1. ASSUME Finish(r) PROVE KeepsCredentials
  BY <1>0, <1>1 DEF Finish, IdleRequest, KeepsCredentials, TypeInv, TypeOK
<1>2. ASSUME NEW kind \in Kinds, NEW h \in Hubs, StartRequest(r, kind, h)
      PROVE  KeepsCredentials /\ UNCHANGED <<hubSeq, secretSeq, entered, op>>
  BY <1>0, <1>2 DEF StartRequest, IdleRequest, KeepsCredentials, TypeInv, TypeOK
<1>3. CASE ReadCredential(r)
  <2>1. req[r].hub \in Hubs
    BY <1>3 DEF ReadCredential, TypeInv, InFlightNameHubs
  <2>2. CASE Finish(r)
    BY <1>1, <1>3, <2>2 DEF ReadCredential
  <2>3. CASE ~Finish(r)
    <3>1. /\ hub[req[r].hub].present
          /\ req' = [req EXCEPT ![r].pc = "info", ![r].cred = CredentialOf(hub[req[r].hub])]
      BY <1>3, <2>3 DEF ReadCredential
    <3>2. \A q \in Requests \ {r} : req'[q] = req[q]
      BY <3>1 DEF TypeInv, TypeOK
    <3>3. req'[r].cred = CredentialOf(hub[req[r].hub])
      BY <1>0, <3>1 DEF TypeInv, TypeOK, Request
    <3> QED BY <1>3, <2>1, <3>1, <3>2, <3>3 DEF ReadCredential, KeepsCredentials
  <2> QED BY <2>2, <2>3
<1>4. CASE Info(r) \/ FetchUsers(r) \/ UpdateHubHealth(r)
  <2>1. \A q \in Requests \ {r} : req'[q] = req[q]
    BY <1>4 DEF Info, FetchUsers, UpdateHubHealth, Move, TypeInv, TypeOK
  <2>2. req[r].pc \notin {"idle", "queued"}
    BY <1>4 DEF Info, FetchUsers, UpdateHubHealth
  <2>3. req'[r].cred = req[r].cred
    <3>1. CASE \E pc \in Phases : req' = [req EXCEPT ![r].pc = pc]
      BY <1>0, <3>1 DEF TypeInv, TypeOK, Request
    <3>2. CASE \E seen, up \in SUBSET Names :
                 req' = [req EXCEPT ![r].pc = "sync", ![r].seen = seen, ![r].up = up]
      BY <1>0, <3>2 DEF TypeInv, TypeOK, Request
    <3>3. CASE \E ok \in BOOLEAN : req' = [req EXCEPT ![r].pc = "notify", ![r].ok = ok]
      BY <1>0, <3>3 DEF TypeInv, TypeOK, Request
    <3>4. CASE Info(r)
      BY <3>1, <3>4 DEF Info, Move, Phases
    <3>5. CASE FetchUsers(r)
      BY <3>1, <3>2, <3>5 DEF FetchUsers, Move, Phases
    <3>6. CASE UpdateHubHealth(r)
      BY <3>3, <3>6 DEF UpdateHubHealth
    <3> QED BY <1>4, <3>4, <3>5, <3>6
  <2>4. UNCHANGED <<hubSeq, secretSeq, entered, op>>
    BY <1>4 DEF Info, FetchUsers, UpdateHubHealth
  <2> QED BY <2>1, <2>2, <2>3, <2>4 DEF KeepsCredentials
<1>5. CASE SyncHubUsers(r)
  <2>1. CASE Finish(r)
    BY <1>1, <1>5, <2>1 DEF SyncHubUsers
  <2>2. CASE ~Finish(r)
    <3>1. \E pc \in {"healthy", "unhealthy"} :
            req' = [req EXCEPT ![r].pc = pc, ![r].seen = {}, ![r].up = {}]
      BY <1>5, <2>2 DEF SyncHubUsers
    <3>2. \A q \in Requests \ {r} : req'[q] = req[q]
      BY <3>1 DEF TypeInv, TypeOK
    <3>3. req'[r].cred = req[r].cred
      BY <1>0, <3>1 DEF TypeInv, TypeOK, Request
    <3> QED BY <1>5, <3>2, <3>3 DEF SyncHubUsers, KeepsCredentials
  <2> QED BY <2>1, <2>2
<1>6. CASE DiscardHealth(r) \/ LoseHealth(r) \/ NotifyHubHealth(r)
  BY <1>1, <1>6 DEF DiscardHealth, LoseHealth, NotifyHubHealth
<1> QED BY <1>2, <1>3, <1>4, <1>5, <1>6 DEF Step

(* Credentials of present rows are bound and issued; so is a copy of one. *)
LEMMA CredentialsStayBound ==
  ASSUME SafetyInv, KeepsCredentials, UNCHANGED <<secretSeq, entered, op>>,
         NEW q \in Requests, req'[q].pc \notin {"idle", "queued"}
  PROVE  /\ req'[q].cred.secret \in 1 .. secretSeq
         /\ EndpointOf(req'[q].cred) = entered[req'[q].cred.secret]
<1>1. CASE req[q].pc \notin {"idle", "queued"} /\ req'[q].cred = req[q].cred
  BY <1>1 DEF SafetyInv, SecretsIssued, TokenBinding
<1>2. ASSUME NEW h \in Hubs, hub[h].present, req'[q].cred = CredentialOf(hub[h])
      PROVE  /\ req'[q].cred.secret \in 1 .. secretSeq
             /\ EndpointOf(req'[q].cred) = entered[req'[q].cred.secret]
  BY <1>2 DEF SafetyInv, SecretsIssued, TokenBinding, CredentialOf, EndpointOf
<1> QED BY <1>1, <1>2 DEF KeepsCredentials

(* Steps of a request other than a store: only req changes. *)
LEMMA QuietRequests ==
  ASSUME SafetyInv, TypeInv', KeepsCredentials,
         UNCHANGED <<hub, user, server, hubSeq, secretSeq, entered, op>>
  PROVE  SafetyInv'
<1>1. SecretsIssued' /\ TokenBinding'
  BY CredentialsStayBound DEF SafetyInv, SecretsIssued, TokenBinding, EndpointOf
<1>2. IdsIssued' /\ MaterialisedFromCurrentAuthority' /\ HealthFromCurrentAuthority'
  BY DEF SafetyInv, IdsIssued, MaterialisedFromCurrentAuthority, HealthFromCurrentAuthority
<1>3. OperationsRemember' /\ OperationReachesItsAuthority'
  BY DEF SafetyInv, OperationsRemember, OperationReachesItsAuthority
<1> QED BY <1>1, <1>2, <1>3 DEF SafetyInv

LEMMA SyncSafety ==
  ASSUME SafetyInv, TypeInv', KeepsCredentials, NEW r \in Requests, SyncHubUsers(r)
  PROVE  SafetyInv'
<1> DEFINE h == req[r].hub
           cred == req[r].cred
<1>1. CASE UNCHANGED <<user, server>>
  BY <1>1, QuietRequests DEF SyncHubUsers
<1>2. CASE /\ hub[h].present
           /\ LockAndMatchHubCredential(h, cred)
           /\ user' = [user EXCEPT ![h] = SyncedUsers(user[h], req[r].seen, cred.url)]
           /\ server' = [server EXCEPT ![h] = SyncedServers(server[h], req[r].up, cred.url)]
  <2>0. h \in Hubs /\ TypeOK /\ hub' = hub /\ op' = op
    BY DEF SafetyInv, TypeInv, InFlightNameHubs, SyncHubUsers
  <2>1. cred.url = hub[h].url
    BY <1>2 DEF LockAndMatchHubCredential, CredentialGeneration
  <2>2. SecretsIssued' /\ TokenBinding'
    BY CredentialsStayBound DEF SafetyInv, SecretsIssued, TokenBinding, EndpointOf, SyncHubUsers
  <2>7. ASSUME NEW n \in Names
        PROVE  /\ user'[h][n].present =>
                    \/ user'[h][n].from = cred.url
                    \/ user[h][n].present /\ user'[h][n].from = user[h][n].from
               /\ server'[h][n].present =>
                    \/ server'[h][n].from = cred.url
                    \/ server[h][n].present /\ server'[h][n].from = server[h][n].from
               /\ server[h][n].present => server'[h][n].inc = server[h][n].inc
               /\ ~server[h][n].present =>
                    \/ server'[h][n].inc = server[h][n].inc + 1
                    \/ server'[h][n].inc = server[h][n].inc /\ ~server'[h][n].present
    <3>1. user[h][n] \in UserRow /\ server[h][n] \in ServerRow
      BY <2>0 DEF TypeOK
    <3>3. user'[h] = SyncedUsers(user[h], req[r].seen, cred.url)
      BY <1>2, <2>0 DEF TypeOK
    <3>4. server'[h] = SyncedServers(server[h], req[r].up, cred.url)
      BY <1>2, <2>0 DEF TypeOK
    <3> HIDE DEF h, cred
    <3> DEFINE u == SyncedUsers(user[h], req[r].seen, cred.url)[n]
               s == SyncedServers(server[h], req[r].up, cred.url)[n]
    <3>5. /\ u.present => u.from = cred.url \/ (user[h][n].present /\ u.from = user[h][n].from)
          /\ s.present => s.from = cred.url \/ (server[h][n].present /\ s.from = server[h][n].from)
          /\ server[h][n].present => s.inc = server[h][n].inc
          /\ ~server[h][n].present =>
               s.inc = server[h][n].inc + 1 \/ (s.inc = server[h][n].inc /\ ~s.present)
      BY <3>1, SyncedRows
    <3>6. user'[h][n] = u /\ server'[h][n] = s
      BY <3>3, <3>4
    <3> HIDE DEF u, s
    <3> QED BY <3>5, <3>6
  <2>3. ASSUME NEW g \in Hubs, NEW n \in Names
        PROVE  /\ user'[g][n].present => hub[g].present /\ user'[g][n].from = hub[g].url
               /\ server'[g][n].present => hub[g].present /\ server'[g][n].from = hub[g].url
    <3>1. CASE g # h
      BY <1>2, <2>0, <3>1 DEF SafetyInv, MaterialisedFromCurrentAuthority, TypeOK
    <3>2. CASE g = h
      <4> QED BY <1>2, <2>0, <2>1, <2>7, <3>2 DEF SafetyInv, MaterialisedFromCurrentAuthority
    <3> QED BY <3>1, <3>2
  <2>4. MaterialisedFromCurrentAuthority'
    BY <2>0, <2>3 DEF MaterialisedFromCurrentAuthority
  <2>5. IdsIssued' /\ HealthFromCurrentAuthority' /\ OperationReachesItsAuthority'
    BY <2>0 DEF SafetyInv, IdsIssued, HealthFromCurrentAuthority, OperationReachesItsAuthority,
                SyncHubUsers
  <2>6. OperationsRemember'
    <3> SUFFICES ASSUME NEW o \in Operations, op[o].pc = "asked"
                 PROVE  LET row == server'[op[o].hub][op[o].name]
                        IN  /\ op[o].inc <= row.inc
                            /\ row.present /\ row.inc = op[o].inc => row.from = op[o].asked
      BY <2>0 DEF OperationsRemember
    <3> DEFINE n == op[o].name
    <3>1. op[o].hub \in Hubs /\ n \in Names /\ op[o].inc \in Nat
      BY DEF SafetyInv, TypeInv, TypeOK, InFlightNameHubs, Operation
    <3>2. CASE op[o].hub # h
      BY <1>2, <2>0, <3>1, <3>2 DEF SafetyInv, OperationsRemember, TypeOK
    <3>3. CASE op[o].hub = h
      <4>0. server[h][n].inc \in Nat
        BY <2>0, <3>1 DEF TypeOK, ServerRow
      <4>2. op[o].inc <= server[h][n].inc
        BY <3>3 DEF SafetyInv, OperationsRemember
      <4>3. CASE server[h][n].present
        <5>1. server'[h][n].inc = server[h][n].inc
          BY <2>7, <3>1, <4>3
        <5>3. server[h][n].from = hub[h].url
          BY <2>0, <3>1, <4>3 DEF SafetyInv, MaterialisedFromCurrentAuthority
        <5>2. server'[h][n].present => server'[h][n].from = hub[h].url
          BY <2>1, <2>7, <3>1, <5>3
        <5> QED BY <3>3, <4>2, <4>3, <5>1, <5>2, <5>3 DEF SafetyInv, OperationsRemember
      <4>4. CASE ~server[h][n].present
        <5>1. \/ server'[h][n].inc = server[h][n].inc + 1
              \/ server'[h][n].inc = server[h][n].inc /\ ~server'[h][n].present
          BY <2>7, <3>1, <4>4
        <5> QED BY <3>1, <3>3, <4>0, <4>2, <5>1
      <4> QED BY <4>3, <4>4
    <3> QED BY <3>2, <3>3
  <2> QED BY <2>2, <2>4, <2>5, <2>6 DEF SafetyInv
<1> QED BY <1>1, <1>2 DEF SyncHubUsers

LEMMA HealthSafety ==
  ASSUME SafetyInv, TypeInv', KeepsCredentials, NEW r \in Requests, UpdateHubHealth(r)
  PROVE  SafetyInv'
<1> DEFINE h == req[r].hub
           ok == req[r].pc = "healthy"
<1>0. /\ h \in Hubs /\ TypeOK /\ UNCHANGED <<user, server, secretSeq, entered, op>>
      /\ \A g \in Hubs : hub[g] \in HubRow
  BY DEF SafetyInv, TypeInv, TypeOK, InFlightNameHubs, UpdateHubHealth
<1>1. \A g \in Hubs \ {h} : hub'[g] = hub[g]
  BY <1>0 DEF UpdateHubHealth, TypeOK
<1> DEFINE row == [hub[h] EXCEPT !.status = IF ok THEN "healthy" ELSE "degraded",
                                !.version = IF ok THEN req[r].cred.url ELSE @]
<1>8. hub[h].present /\ hub'[h] = row
  <2>1. hub' = [hub EXCEPT ![h] = row] /\ hub[h].present
    BY <1>0 DEF UpdateHubHealth
  <2> HIDE DEF row, h
  <2> QED BY <1>0, <2>1 DEF TypeOK
<1>2. /\ hub[h].present /\ hub'[h].present
      /\ hub'[h].url = hub[h].url /\ hub'[h].tls = hub[h].tls /\ hub'[h].secret = hub[h].secret
      /\ ok => hub'[h].version = req[r].cred.url
      /\ ~ok => hub'[h].version = hub[h].version /\ hub'[h].status = "degraded"
  <2>1. hub[h] \in HubRow
    BY <1>0
  <2>2. CASE ok
    BY <1>8, <2>1, <2>2 DEF HubRow
  <2>3. CASE ~ok
    BY <1>8, <2>1, <2>3 DEF HubRow
  <2> QED BY <2>2, <2>3
<1>3. req[r].cred.url = hub[h].url
  BY DEF UpdateHubHealth, LockAndMatchHubCredential, CredentialGeneration
<1> HIDE DEF h, ok, row
<1>9. IdsIssued'
  BY <1>0, <1>1, <1>2 DEF SafetyInv, IdsIssued, UpdateHubHealth
<1>4. SecretsIssued' /\ TokenBinding'
  <2>1. ASSUME NEW q \in Requests, req'[q].pc \notin {"idle", "queued"}
        PROVE  /\ req'[q].cred.secret \in 1 .. secretSeq
               /\ EndpointOf(req'[q].cred) = entered[req'[q].cred.secret]
    BY <1>0, <2>1, CredentialsStayBound
  <2>2. ASSUME NEW g \in Hubs, hub'[g].present
        PROVE  /\ hub'[g].secret \in 1 .. secretSeq
               /\ EndpointOf(hub'[g]) = entered[hub'[g].secret]
    <3>1. hub[g].present /\ hub'[g].secret = hub[g].secret /\ EndpointOf(hub'[g]) = EndpointOf(hub[g])
      BY <1>1, <1>2, <2>2 DEF EndpointOf
    <3> QED BY <3>1 DEF SafetyInv, SecretsIssued, TokenBinding
  <2>3. /\ \A o \in Operations : op[o].pc = "sent" => op[o].cred.secret \in 1 .. secretSeq
        /\ \A o \in Operations :
             op[o].pc = "sent" => EndpointOf(op[o].cred) = entered[op[o].cred.secret]
    BY DEF SafetyInv, SecretsIssued, TokenBinding
  <2>4. SecretsIssued'
    BY <1>0, <2>1, <2>2, <2>3 DEF SecretsIssued
  <2>5. TokenBinding'
    BY <1>0, <2>1, <2>2, <2>3 DEF TokenBinding, EndpointOf
  <2> QED BY <2>4, <2>5
<1>5. MaterialisedFromCurrentAuthority'
  BY <1>0, <1>1, <1>2 DEF SafetyInv, MaterialisedFromCurrentAuthority
<1>6. HealthFromCurrentAuthority'
  BY <1>0, <1>1, <1>2, <1>3 DEF SafetyInv, HealthFromCurrentAuthority
<1>7. OperationsRemember' /\ OperationReachesItsAuthority'
  BY <1>0 DEF SafetyInv, OperationsRemember, OperationReachesItsAuthority
<1> QED BY <1>4, <1>5, <1>6, <1>7, <1>9 DEF SafetyInv

LEMMA RequestSafety ==
  ASSUME SafetyInv, NEW r \in Requests,
         \/ Step(r) \/ LoseHealth(r)
         \/ \E kind \in Kinds, h \in Hubs : StartRequest(r, kind, h)
  PROVE  SafetyInv'
<1>1. TypeInv' /\ KeepsCredentials
  BY RequestTypes, RequestsKeepCredentials DEF SafetyInv
<1>2. CASE SyncHubUsers(r)
  BY <1>1, <1>2, SyncSafety
<1>3. CASE UpdateHubHealth(r)
  BY <1>1, <1>3, HealthSafety
<1>4. CASE ~SyncHubUsers(r) /\ ~UpdateHubHealth(r)
  <2>1. UNCHANGED <<hub, user, server, hubSeq, secretSeq, entered, op>>
    BY <1>4 DEF Step, ReadCredential, Info, FetchUsers, DiscardHealth, LoseHealth,
                NotifyHubHealth, StartRequest
  <2> QED BY <1>1, <2>1, QuietRequests
<1> QED BY <1>2, <1>3, <1>4

(* A token entered now leaves every token in use where it was. *)
LEMMA EnterSecretKeeps ==
  ASSUME TypeOK, NEW url \in Urls, NEW tls \in TlsModes,
         EnterSecret([url |-> url, tls |-> tls])
  PROVE  /\ secretSeq' = secretSeq + 1
         /\ \A k \in 1 .. secretSeq : k \in 1 .. secretSeq' /\ entered'[k] = entered[k]
         /\ secretSeq + 1 \in 1 .. secretSeq'
         /\ entered'[secretSeq + 1] = [url |-> url, tls |-> tls]
BY BoundAssumption DEF TypeOK, EnterSecret

(* In-flight credentials survive when tokens in use keep their endpoints.   *)
LEMMA InFlightStayBound ==
  ASSUME SafetyInv, UNCHANGED <<req, op>>,
         \A k \in 1 .. secretSeq : k \in 1 .. secretSeq' /\ entered'[k] = entered[k],
         \A h \in Hubs : hub'[h].present =>
           hub'[h].secret \in 1 .. secretSeq' /\ EndpointOf(hub'[h]) = entered'[hub'[h].secret]
  PROVE  SecretsIssued' /\ TokenBinding'
BY DEF SafetyInv, SecretsIssued, TokenBinding, EndpointOf

(* Dropped rows are nobody's, and keep the incarnation they were at.        *)
LEMMA DroppedRows ==
  ASSUME NEW rows, NEW n \in Names
  PROVE  /\ ~ServersDropped(rows)[n].present
         /\ ServersDropped(rows)[n].inc = rows[n].inc
         /\ ~UsersDropped[n].present
BY DEF ServersDropped, UsersDropped, NoUser

LEMMA CreateSafety ==
  ASSUME SafetyInv, TypeInv', NEW url \in Urls, NEW tls \in TlsModes, NEW enabled \in BOOLEAN,
         CreateHub(url, tls, enabled)
  PROVE  SafetyInv'
<1> DEFINE h == hubSeq + 1
<1>0. TypeOK /\ UNCHANGED <<user, server, req, op>>
  BY DEF SafetyInv, TypeInv, CreateHub
<1>1. h \in Hubs
  BY <1>0, BoundAssumption DEF TypeOK, Hubs, CreateHub
<1>2. \A g \in Hubs \ {h} : hub'[g] = hub[g]
  BY <1>0 DEF TypeOK, CreateHub
<1>3. hub'[h] = [present |-> TRUE, url |-> url, tls |-> tls, enabled |-> enabled,
                 secret |-> secretSeq + 1, status |-> "unknown", version |-> NoUrl]
  BY <1>0, <1>1 DEF TypeOK, CreateHub
<1>4. hubSeq' = h /\ ~hub[h].present
  BY <1>0, <1>1 DEF SafetyInv, IdsIssued, CreateHub, TypeOK
<1>5. /\ secretSeq' = secretSeq + 1
      /\ \A k \in 1 .. secretSeq : k \in 1 .. secretSeq' /\ entered'[k] = entered[k]
      /\ secretSeq + 1 \in 1 .. secretSeq'
      /\ entered'[secretSeq + 1] = [url |-> url, tls |-> tls]
  BY <1>0, EnterSecretKeeps DEF CreateHub
<1>6. IdsIssued'
  BY <1>0, <1>2, <1>4 DEF SafetyInv, IdsIssued, Hubs, TypeOK
<1> HIDE DEF h
<1>7. SecretsIssued' /\ TokenBinding'
  <2>1. ASSUME NEW g \in Hubs, hub'[g].present
        PROVE  hub'[g].secret \in 1 .. secretSeq' /\ EndpointOf(hub'[g]) = entered'[hub'[g].secret]
    <3>1. CASE g = h
      BY <1>3, <1>5, <3>1 DEF EndpointOf
    <3>2. CASE g # h
      BY <1>2, <1>5, <2>1, <3>2 DEF SafetyInv, SecretsIssued, TokenBinding
    <3> QED BY <3>1, <3>2
  <2> QED BY <1>0, <1>5, <2>1, InFlightStayBound
<1>8. MaterialisedFromCurrentAuthority'
  BY <1>0, <1>1, <1>2, <1>4 DEF SafetyInv, MaterialisedFromCurrentAuthority
<1>9. HealthFromCurrentAuthority'
  BY <1>2, <1>3 DEF SafetyInv, HealthFromCurrentAuthority
<1>10. OperationsRemember' /\ OperationReachesItsAuthority'
  BY <1>0 DEF SafetyInv, OperationsRemember, OperationReachesItsAuthority
<1> QED BY <1>6, <1>7, <1>8, <1>9, <1>10 DEF SafetyInv

(* Hub g loses its user and server rows: only its own rows go, and no       *)
(* operation finds its server again.                                        *)
LEMMA DropSafety ==
  ASSUME SafetyInv, NEW g \in Hubs, op' = op,
         user' = [user EXCEPT ![g] = UsersDropped],
         server' = [server EXCEPT ![g] = ServersDropped(server[g])]
  PROVE  /\ \A n \in Names : ~user'[g][n].present /\ ~server'[g][n].present
         /\ \A h \in Hubs \ {g} : user'[h] = user[h] /\ server'[h] = server[h]
         /\ OperationsRemember'
<1>0. TypeOK
  BY DEF SafetyInv, TypeInv
<1>1. user'[g] = UsersDropped /\ server'[g] = ServersDropped(server[g])
  BY <1>0 DEF TypeOK
<1>2. \A n \in Names : ~user'[g][n].present /\ ~server'[g][n].present
                       /\ server'[g][n].inc = server[g][n].inc
  BY <1>1, DroppedRows
<1>3. \A h \in Hubs \ {g} : user'[h] = user[h] /\ server'[h] = server[h]
  BY <1>0 DEF TypeOK
<1>4. \A o \in Operations : op[o].pc = "asked" => op[o].hub \in Hubs /\ op[o].name \in Names
  BY <1>0 DEF SafetyInv, TypeInv, TypeOK, InFlightNameHubs, Operation
<1>5. OperationsRemember'
  BY <1>2, <1>3, <1>4 DEF SafetyInv, OperationsRemember
<1> QED BY <1>2, <1>3, <1>5

LEMMA DeleteSafety ==
  ASSUME SafetyInv, TypeInv', NEW g \in Hubs, DeleteHub(g)
  PROVE  SafetyInv'
<1>0. TypeOK /\ UNCHANGED <<hubSeq, secretSeq, entered, req, op>>
  BY DEF SafetyInv, TypeInv, DeleteHub
<1>1. ~hub'[g].present /\ \A h \in Hubs \ {g} : hub'[h] = hub[h]
  BY <1>0 DEF DeleteHub, TypeOK, NoHub
<1>2. /\ \A n \in Names : ~user'[g][n].present /\ ~server'[g][n].present
      /\ \A h \in Hubs \ {g} : user'[h] = user[h] /\ server'[h] = server[h]
      /\ OperationsRemember'
  BY <1>0, DropSafety DEF DeleteHub
<1>3. IdsIssued' /\ SecretsIssued' /\ TokenBinding'
  BY <1>0, <1>1 DEF SafetyInv, IdsIssued, SecretsIssued, TokenBinding, EndpointOf
<1>4. MaterialisedFromCurrentAuthority' /\ HealthFromCurrentAuthority'
  BY <1>1, <1>2 DEF SafetyInv, MaterialisedFromCurrentAuthority, HealthFromCurrentAuthority
<1>5. OperationReachesItsAuthority'
  BY <1>0 DEF SafetyInv, OperationReachesItsAuthority
<1> QED BY <1>2, <1>3, <1>4, <1>5 DEF SafetyInv

LEMMA UpdateSafety ==
  ASSUME SafetyInv, TypeInv', NEW g \in Hubs, NEW url \in Urls, NEW tls \in TlsModes,
         NEW enabled \in BOOLEAN, NEW newToken \in BOOLEAN,
         UpdateHub(g, url, tls, enabled, newToken)
  PROVE  SafetyInv'
<1> DEFINE replaced == ReplaceTarget(g, url)
<1>0. TypeOK /\ hub[g].present /\ UNCHANGED <<hubSeq, req, op>>
  BY DEF SafetyInv, TypeInv, UpdateHub
<1>1. \A h \in Hubs \ {g} : hub'[h] = hub[h]
  BY <1>0 DEF UpdateHub, TypeOK
<1>2. hub'[g] = [present |-> TRUE, url |-> url, tls |-> tls, enabled |-> enabled,
                 secret  |-> IF newToken THEN secretSeq + 1 ELSE hub[g].secret,
                 status  |-> IF replaced THEN "unknown" ELSE hub[g].status,
                 version |-> IF replaced THEN NoUrl ELSE hub[g].version]
  BY <1>0 DEF UpdateHub, TypeOK
<1>3. ~replaced => hub[g].url = url
  BY DEF ReplaceTarget
<1> HIDE DEF replaced
<1>4. IdsIssued'
  BY <1>0, <1>1, <1>2 DEF SafetyInv, IdsIssued
<1>5. SecretsIssued' /\ TokenBinding'
  <2>1. CASE newToken
    <3>1. /\ secretSeq' = secretSeq + 1
          /\ \A k \in 1 .. secretSeq : k \in 1 .. secretSeq' /\ entered'[k] = entered[k]
          /\ secretSeq + 1 \in 1 .. secretSeq'
          /\ entered'[secretSeq + 1] = [url |-> url, tls |-> tls]
      BY <1>0, <2>1, EnterSecretKeeps DEF UpdateHub
    <3>2. hub'[g].secret = secretSeq + 1 /\ EndpointOf(hub'[g]) = [url |-> url, tls |-> tls]
      BY <1>2, <2>1 DEF EndpointOf
    <3>3. ASSUME NEW h \in Hubs, hub'[h].present
          PROVE  hub'[h].secret \in 1 .. secretSeq'
                 /\ EndpointOf(hub'[h]) = entered'[hub'[h].secret]
      BY <1>1, <3>1, <3>2, <3>3 DEF SafetyInv, SecretsIssued, TokenBinding
    <3> QED BY <1>0, <3>1, <3>3, InFlightStayBound
  <2>2. CASE ~newToken
    <3>1. UNCHANGED <<secretSeq, entered>> /\ hub[g].url = url /\ hub[g].tls = tls
      BY <2>2 DEF UpdateHub, HubCredentialBindingChanged
    <3>2. hub'[g].secret = hub[g].secret /\ EndpointOf(hub'[g]) = EndpointOf(hub[g])
      BY <1>2, <2>2, <3>1 DEF EndpointOf
    <3>3. ASSUME NEW h \in Hubs, hub'[h].present
          PROVE  hub'[h].secret \in 1 .. secretSeq'
                 /\ EndpointOf(hub'[h]) = entered'[hub'[h].secret]
      BY <1>0, <1>1, <3>1, <3>2, <3>3 DEF SafetyInv, SecretsIssued, TokenBinding
    <3> QED BY <1>0, <3>1, <3>3, InFlightStayBound
  <2> QED BY <2>1, <2>2
<1>6. HealthFromCurrentAuthority'
  BY <1>0, <1>1, <1>2, <1>3 DEF SafetyInv, HealthFromCurrentAuthority
<1>7. MaterialisedFromCurrentAuthority' /\ OperationsRemember'
  <2>1. CASE replaced
    <3>1. /\ \A n \in Names : ~user'[g][n].present /\ ~server'[g][n].present
          /\ \A h \in Hubs \ {g} : user'[h] = user[h] /\ server'[h] = server[h]
          /\ OperationsRemember'
      BY <1>0, <2>1, DropSafety DEF UpdateHub, replaced
    <3> QED BY <1>1, <3>1 DEF SafetyInv, MaterialisedFromCurrentAuthority
  <2>2. CASE ~replaced
    <3>1. UNCHANGED <<user, server>>
      BY <2>2 DEF UpdateHub, replaced
    <3>2. hub'[g].present /\ hub'[g].url = hub[g].url
      BY <1>2, <1>3, <2>2
    <3> QED BY <1>0, <1>1, <3>1, <3>2
            DEF SafetyInv, MaterialisedFromCurrentAuthority, OperationsRemember
  <2> QED BY <2>1, <2>2
<1>8. OperationReachesItsAuthority'
  BY <1>0 DEF SafetyInv, OperationReachesItsAuthority
<1> QED BY <1>4, <1>5, <1>6, <1>7, <1>8 DEF SafetyInv

LEMMA OperationSafety ==
  ASSUME SafetyInv, TypeInv', Operate \/ Restart
  PROVE  SafetyInv'
<1>0. TypeOK /\ UNCHANGED <<hub, user, server, hubSeq, secretSeq, entered>>
  BY DEF SafetyInv, TypeInv, Operate, AskOperation, SendOperation, FinishOperation, Restart
<1>1. IdsIssued' /\ MaterialisedFromCurrentAuthority' /\ HealthFromCurrentAuthority'
  BY <1>0 DEF SafetyInv, IdsIssued, MaterialisedFromCurrentAuthority, HealthFromCurrentAuthority
<1>2. \A r \in Requests : req'[r] = req[r] \/ req'[r].pc = "idle"
  <2>1. CASE Operate
    BY <2>1 DEF Operate, AskOperation, SendOperation, FinishOperation
  <2>2. CASE Restart
    BY <2>2 DEF Restart, IdleRequest
  <2> QED BY <2>1, <2>2
<1>3. ASSUME NEW o \in Operations
      PROVE  \/ op'[o] = op[o] \/ op'[o].pc = "idle"
             \/ /\ op'[o].pc = "asked"
                /\ op'[o].inc = server[op'[o].hub][op'[o].name].inc
                /\ op'[o].asked = server[op'[o].hub][op'[o].name].from
                /\ server[op'[o].hub][op'[o].name].inc \in Nat
             \/ /\ op[o].pc = "asked" /\ op'[o].pc = "sent"
                /\ server[op[o].hub][op[o].name].present
                /\ server[op[o].hub][op[o].name].inc = op[o].inc
                /\ op'[o].from = server[op[o].hub][op[o].name].from
                /\ op'[o].asked = op[o].asked
                /\ op'[o].cred = CredentialOf(hub[op[o].hub])
  <2>0. op[o] \in Operation
    BY <1>0 DEF TypeOK
  <2>1. CASE Restart
    BY <1>0, <2>1 DEF Restart, IdleOperation
  <2>2. ASSUME NEW p \in Operations, FinishOperation(p)
        PROVE  op'[o] = op[o] \/ op'[o].pc = "idle"
    BY <1>0, <2>2 DEF FinishOperation, IdleOperation, TypeOK
  <2>3. ASSUME NEW p \in Operations, NEW h \in Hubs, NEW n \in Names, AskOperation(p, h, n)
        PROVE  \/ op'[o] = op[o]
               \/ /\ op'[o].pc = "asked" /\ op'[o].hub = h /\ op'[o].name = n
                  /\ op'[o].inc = server[h][n].inc /\ op'[o].asked = server[h][n].from
                  /\ server[h][n].inc \in Nat
    <3>1. CASE o # p
      BY <1>0, <2>3, <3>1 DEF AskOperation, TypeOK
    <3>2. CASE o = p
      <4>1. op'[o] = [IdleOperation EXCEPT !.pc = "asked", !.hub = h, !.name = n,
                        !.inc = server[h][n].inc, !.asked = server[h][n].from]
        BY <1>0, <2>3, <3>2 DEF AskOperation, TypeOK
      <4>2. server[h][n].inc \in Nat
        BY <1>0 DEF TypeOK, ServerRow
      <4> QED BY <4>1, <4>2 DEF IdleOperation
    <3> QED BY <3>1, <3>2
  <2>4. ASSUME NEW p \in Operations, SendOperation(p)
        PROVE  \/ op'[o] = op[o] \/ op'[o].pc = "idle"
               \/ /\ op[o].pc = "asked" /\ op'[o].pc = "sent"
                  /\ server[op[o].hub][op[o].name].present
                  /\ server[op[o].hub][op[o].name].inc = op[o].inc
                  /\ op'[o].from = server[op[o].hub][op[o].name].from
                  /\ op'[o].asked = op[o].asked
                  /\ op'[o].cred = CredentialOf(hub[op[o].hub])
    <3>1. CASE o # p
      BY <1>0, <2>4, <3>1 DEF SendOperation, TypeOK
    <3>2. CASE o = p /\ op' = [op EXCEPT ![p] = IdleOperation]
      BY <1>0, <3>2 DEF IdleOperation, TypeOK
    <3>3. CASE o = p /\ op' # [op EXCEPT ![p] = IdleOperation]
      <4> DEFINE row == server[op[o].hub][op[o].name]
      <4>1. /\ op[o].pc = "asked" /\ row.present /\ row.inc = op[o].inc
            /\ op' = [op EXCEPT ![o].pc = "sent", ![o].from = row.from,
                                ![o].cred = CredentialOf(hub[op[o].hub])]
        BY <2>4, <3>3 DEF SendOperation
      <4>2. op'[o] = [op[o] EXCEPT !.pc = "sent", !.from = row.from,
                                   !.cred = CredentialOf(hub[op[o].hub])]
        BY <1>0, <4>1 DEF TypeOK
      <4>3. /\ op'[o].pc = "sent" /\ op'[o].from = row.from /\ op'[o].asked = op[o].asked
            /\ op'[o].cred = CredentialOf(hub[op[o].hub])
        BY <2>0, <4>2 DEF Operation
      <4> QED BY <4>1, <4>3
    <3> QED BY <3>1, <3>2, <3>3
  <2> QED BY <2>1, <2>2, <2>3, <2>4 DEF Operate
<1>4. ASSUME NEW o \in Operations, op[o].pc = "asked", server[op[o].hub][op[o].name].present
      PROVE  /\ op[o].hub \in Hubs
             /\ hub[op[o].hub].present
             /\ server[op[o].hub][op[o].name].from = hub[op[o].hub].url
  BY <1>0, <1>4 DEF SafetyInv, TypeInv, TypeOK, InFlightNameHubs, Operation,
                    MaterialisedFromCurrentAuthority
<1>8. ASSUME NEW o \in Operations, op'[o].pc = "sent"
      PROVE  \/ op'[o] = op[o]
             \/ /\ op[o].hub \in Hubs /\ hub[op[o].hub].present
                /\ op'[o].from = hub[op[o].hub].url
                /\ op'[o].asked = op'[o].from
                /\ op'[o].cred = CredentialOf(hub[op[o].hub])
  <2>1. CASE op'[o] = op[o]
    BY <2>1
  <2>2. CASE op'[o] # op[o]
    <3>1. /\ op[o].pc = "asked"
          /\ server[op[o].hub][op[o].name].present
          /\ server[op[o].hub][op[o].name].inc = op[o].inc
          /\ op'[o].from = server[op[o].hub][op[o].name].from
          /\ op'[o].asked = op[o].asked
          /\ op'[o].cred = CredentialOf(hub[op[o].hub])
      BY <1>3, <1>8, <2>2
    <3>2. server[op[o].hub][op[o].name].from = op[o].asked
      BY <3>1 DEF SafetyInv, OperationsRemember
    <3> QED BY <1>4, <3>1, <3>2
  <2> QED BY <2>1, <2>2
<1>9. \A h \in Hubs : CredentialOf(hub[h]).url = hub[h].url
                     /\ CredentialOf(hub[h]).secret = hub[h].secret
                     /\ EndpointOf(CredentialOf(hub[h])) = EndpointOf(hub[h])
  BY DEF CredentialOf, EndpointOf
<1>5. OperationReachesItsAuthority'
  BY <1>8, <1>9 DEF SafetyInv, OperationReachesItsAuthority
<1>6. OperationsRemember'
  BY <1>0, <1>3 DEF SafetyInv, OperationsRemember
<1>7. SecretsIssued' /\ TokenBinding'
  <2>1. ASSUME NEW o \in Operations, op'[o].pc = "sent"
        PROVE  /\ op'[o].cred.secret \in 1 .. secretSeq
               /\ EndpointOf(op'[o].cred) = entered[op'[o].cred.secret]
    BY <1>8, <1>9, <2>1 DEF SafetyInv, SecretsIssued, TokenBinding
  <2>2. SecretsIssued'
    BY <1>0, <1>2, <2>1 DEF SafetyInv, SecretsIssued
  <2>3. TokenBinding'
    BY <1>0, <1>2, <2>1 DEF SafetyInv, TokenBinding, EndpointOf
  <2> QED BY <2>2, <2>3
<1> QED BY <1>1, <1>5, <1>6, <1>7 DEF SafetyInv

LEMMA NextSafety == SafetyInv /\ [Next]_vars => SafetyInv'
<1> SUFFICES ASSUME SafetyInv, [Next]_vars PROVE SafetyInv'
  OBVIOUS
<1>0. TypeInv'
  BY NextTypes DEF SafetyInv
<1>1. CASE UNCHANGED vars
  BY <1>0, <1>1 DEF vars, SafetyInv, IdsIssued, SecretsIssued, TokenBinding, EndpointOf,
     MaterialisedFromCurrentAuthority, HealthFromCurrentAuthority, OperationsRemember,
     OperationReachesItsAuthority
<1>2. CASE Administrate
  BY <1>0, <1>2, CreateSafety, UpdateSafety, DeleteSafety DEF Administrate
<1>3. CASE \/ \E r \in Requests, kind \in Kinds, h \in Hubs : StartRequest(r, kind, h)
           \/ \E r \in Requests : Step(r) \/ LoseHealth(r)
  BY <1>3, RequestSafety
<1>4. CASE Operate \/ Restart
  BY <1>0, <1>4, OperationSafety
<1> QED BY <1>1, <1>2, <1>3, <1>4 DEF Next

LEMMA FleetSafety == Spec => []SafetyInv
BY InitSafety, NextSafety, PTL DEF Spec

(* A Hub's API token is never kept beside, or sent to, an endpoint other     *)
(* than the one it was entered for, under any interleaving of updates,       *)
(* probes and server operations.                                             *)
THEOREM TokensStayBound == Spec => []TokenBinding
<1>1. SafetyInv => TokenBinding
  BY DEF SafetyInv
<1> QED BY <1>1, FleetSafety, PTL

(* Users and servers of a Hub are always those of the URL the Hub has now.   *)
THEOREM ContentsFromCurrentAuthority == Spec => []MaterialisedFromCurrentAuthority
<1>1. SafetyInv => MaterialisedFromCurrentAuthority
  BY DEF SafetyInv
<1> QED BY <1>1, FleetSafety, PTL

(* A Hub is healthy, and has a version, only by an answer of its own URL.    *)
THEOREM HealthIsTheHubsOwn == Spec => []HealthFromCurrentAuthority
<1>1. SafetyInv => HealthFromCurrentAuthority
  BY DEF SafetyInv
<1> QED BY <1>1, FleetSafety, PTL

(* A server operation is sent to the Hub its server belonged to when it was  *)
(* asked for, or not at all.                                                 *)
THEOREM OperationsReachTheirAuthority == Spec => []OperationReachesItsAuthority
<1>1. SafetyInv => OperationReachesItsAuthority
  BY DEF SafetyInv
<1> QED BY <1>1, FleetSafety, PTL

(***************************************************************************)
(* What a step may write about a Hub.                                      *)
(***************************************************************************)
WrittenBy(h) ==
  \E r \in Requests :
    /\ req[r].hub = h /\ req[r].pc \in {"sync", "healthy", "unhealthy"}
    /\ req'[r] # req[r]
    /\ Settings(req[r].cred) = Settings(hub[h])

Changed(h) == <<hub[h], user[h], server[h]>> # <<hub'[h], user'[h], server'[h]>>

LEMMA MatchedSettings ==
  ASSUME NEW h, NEW cred, LockAndMatchHubCredential(h, cred)
  PROVE  Settings(cred) = Settings(hub[h])
BY DEF LockAndMatchHubCredential, CredentialGeneration, Settings

(* An edit that leaves the settings as they are changes nothing. *)
LEMMA EditsChangeSettings ==
  ASSUME SafetyInv, Administrate, NEW h \in Hubs, hub[h].present, Settings(hub'[h]) = Settings(hub[h])
  PROVE  ~Changed(h)
<1>0. TypeOK /\ hub[h] \in HubRow
  BY DEF SafetyInv, TypeInv, TypeOK
<1>1. hub[h].secret \in 1 .. secretSeq /\ h <= hubSeq /\ hubSeq \in Int /\ secretSeq \in Int
  BY BoundAssumption DEF SafetyInv, SecretsIssued, IdsIssued, TypeInv, TypeOK
<1>2. CASE \E url \in Urls, tls \in TlsModes, enabled \in BOOLEAN : CreateHub(url, tls, enabled)
  <2>1. h # hubSeq + 1
    BY <1>1 DEF Hubs
  <2> QED BY <1>0, <1>2, <2>1 DEF CreateHub, TypeOK, Changed
<1>3. CASE \E g \in Hubs : DeleteHub(g)
  <2>1. PICK g \in Hubs : DeleteHub(g)
    BY <1>3
  <2>2. CASE g = h
    <3>1. hub'[h] = NoHub
      BY <1>0, <2>1, <2>2 DEF DeleteHub, TypeOK
    <3>2. hub'[h].secret = 0
      BY <3>1 DEF NoHub
    <3> QED BY <1>1, <3>2 DEF Settings
  <2>3. CASE g # h
    BY <1>0, <2>1, <2>3 DEF DeleteHub, TypeOK, Changed
  <2> QED BY <2>2, <2>3
<1>4. CASE \E g \in Hubs, url \in Urls, tls \in TlsModes, enabled \in BOOLEAN, newToken \in BOOLEAN :
             UpdateHub(g, url, tls, enabled, newToken)
  <2>1. PICK g \in Hubs, url \in Urls, tls \in TlsModes, enabled \in BOOLEAN, newToken \in BOOLEAN :
          UpdateHub(g, url, tls, enabled, newToken)
    BY <1>4
  <2>2. CASE g # h
    BY <1>0, <2>1, <2>2 DEF UpdateHub, TypeOK, Changed
  <2>3. CASE g = h
    <3> DEFINE new == [present |-> TRUE, url |-> url, tls |-> tls, enabled |-> enabled,
                       secret  |-> IF newToken THEN secretSeq + 1 ELSE hub[h].secret,
                       status  |-> IF ReplaceTarget(h, url) THEN "unknown" ELSE hub[h].status,
                       version |-> IF ReplaceTarget(h, url) THEN NoUrl ELSE hub[h].version]
    <3>1. hub'[h] = new
      BY <1>0, <2>1, <2>3 DEF UpdateHub, TypeOK
    <3>2. new.url = hub[h].url /\ new.tls = hub[h].tls /\ new.enabled = hub[h].enabled
          /\ new.secret = hub[h].secret
      BY <3>1 DEF Settings
    <3>3. ~newToken /\ ~ReplaceTarget(h, url)
      BY <1>1, <3>2 DEF ReplaceTarget
    <3>4. new = hub[h]
      BY <1>0, <3>2, <3>3 DEF HubRow
    <3> HIDE DEF new
    <3>5. UNCHANGED <<user, server>>
      BY <2>1, <2>3, <3>3 DEF UpdateHub
    <3> QED BY <3>1, <3>4, <3>5 DEF Changed
  <2> QED BY <2>2, <2>3
<1> QED BY <1>2, <1>3, <1>4 DEF Administrate

(* A probe writes after the comparison of its credential with the row. *)
LEMMA ProbesWriteCurrent ==
  ASSUME SafetyInv, NEW r \in Requests, Step(r), NEW h \in Hubs, Changed(h)
  PROVE  WrittenBy(h)
<1>0. TypeOK /\ req[r] \in Request
  BY DEF SafetyInv, TypeInv, TypeOK
<1>1. SyncHubUsers(r) \/ UpdateHubHealth(r)
  BY DEF Step, ReadCredential, Info, FetchUsers, DiscardHealth, NotifyHubHealth, Changed
<1>2. CASE SyncHubUsers(r)
  <2>1. /\ req[r].pc = "sync" /\ UNCHANGED hub
        /\ user' # user \/ server' # server
    BY <1>2 DEF SyncHubUsers, Changed
  <2>2. /\ LockAndMatchHubCredential(req[r].hub, req[r].cred)
        /\ user' = [user EXCEPT ![req[r].hub] =
                      SyncedUsers(user[req[r].hub], req[r].seen, req[r].cred.url)]
        /\ server' = [server EXCEPT ![req[r].hub] =
                        SyncedServers(server[req[r].hub], req[r].up, req[r].cred.url)]
        /\ req' = [req EXCEPT ![r].pc = "healthy", ![r].seen = {}, ![r].up = {}]
    BY <1>2, <2>1 DEF SyncHubUsers
  <2>3. req[r].hub = h
    BY <1>0, <2>1, <2>2 DEF TypeOK, Changed
  <2>4. req'[r].pc = "healthy"
    BY <1>0, <2>2 DEF TypeOK, Request
  <2> QED BY <2>1, <2>2, <2>3, <2>4, MatchedSettings DEF WrittenBy
<1>3. CASE UpdateHubHealth(r)
  <2>1. /\ req[r].pc \in {"healthy", "unhealthy"} /\ UNCHANGED <<user, server>>
        /\ LockAndMatchHubCredential(req[r].hub, req[r].cred)
        /\ \A g \in Hubs \ {req[r].hub} : hub'[g] = hub[g]
    BY <1>0, <1>3 DEF UpdateHubHealth, TypeOK
  <2>2. req[r].hub = h
    BY <2>1 DEF Changed
  <2>3. req'[r].pc = "notify"
    BY <1>0, <1>3 DEF UpdateHubHealth, TypeOK, Request
  <2> QED BY <2>1, <2>2, <2>3, MatchedSettings DEF WrittenBy
<1> QED BY <1>1, <1>2, <1>3

(* Whatever is stored of a Hub while its settings stay was learnt with these *)
(* settings, for any number of probes that overlap with edits, deletions and *)
(* restarts.                                                                 *)
THEOREM WritesStayCurrent == Spec => WritesAreCurrent
<1>1. ASSUME SafetyInv, [Next]_vars, NEW h \in Hubs,
             hub[h].present, Settings(hub'[h]) = Settings(hub[h]), Changed(h)
      PROVE  WrittenBy(h)
  <2>1. CASE Administrate
    BY <1>1, <2>1, EditsChangeSettings
  <2>2. CASE \E r \in Requests : Step(r)
    BY <1>1, <2>2, ProbesWriteCurrent
  <2>3. CASE ~Administrate /\ ~\E r \in Requests : Step(r)
    <3>1. UNCHANGED <<hub, user, server>>
      BY <1>1, <2>3 DEF Next, StartRequest, LoseHealth, Operate, AskOperation, SendOperation,
                        FinishOperation, Restart, vars
    <3> QED BY <1>1, <3>1 DEF Changed
  <2> QED BY <2>1, <2>2, <2>3
<1>2. SafetyInv /\ [Next]_vars =>
        [\A h \in Hubs :
           /\ hub[h].present
           /\ Settings(hub'[h]) = Settings(hub[h])
           /\ <<hub[h], user[h], server[h]>> # <<hub'[h], user'[h], server'[h]>>
           => \E r \in Requests :
                /\ req[r].hub = h /\ req[r].pc \in {"sync", "healthy", "unhealthy"}
                /\ req'[r] # req[r]
                /\ Settings(req[r].cred) = Settings(hub[h])]_vars
  BY <1>1 DEF WrittenBy, Changed
<1> QED BY <1>2, FleetSafety, PTL DEF Spec, WritesAreCurrent
=============================================================================
