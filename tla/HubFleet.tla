------------------------------ MODULE HubFleet ------------------------------
(***************************************************************************)
(* The Hub inventory of jupiq and everything that talks to a JupyterHub:   *)
(* the rows of hubs, managed_users and servers, the requests that probe a  *)
(* Hub (collector probe, POST /hubs/{id}/sync, POST /hubs/{id}/test) and    *)
(* the server operations that act on it.                                   *)
(*                                                                         *)
(* A request reads the Hub row once, talks to the remote Hub for up to 25  *)
(* seconds without any lock, and then writes what it learnt back.  Between *)
(* the read and the write the row may have been pointed at another URL,    *)
(* given another token, disabled or deleted.  The code fences the write    *)
(* with hubCredentialGeneration, a fingerprint of the row's credential     *)
(* columns.  Every database transaction is one step; every remote call and *)
(* every transaction of one request is a step of its own.                  *)
(***************************************************************************)
EXTENDS Integers

CONSTANTS
  Urls,        \* base URLs an administrator may enter: the remote authorities
  NoUrl,       \* the empty string where a column holds no authority
  TlsModes,    \* verify_tls settings administrators use, among BOOLEAN
  Names,       \* JupyterHub user names; a user has one server
  Requests,    \* probe requests that can be in flight at once
  Operations,  \* server operations that can be in flight at once
  MaxHubs,     \* bound: values of the hubs id sequence
  MaxSecrets   \* bound: API tokens administrators enter

ASSUME UrlAssumption == NoUrl \notin Urls
ASSUME TlsAssumption == TlsModes \subseteq BOOLEAN
ASSUME NameAssumption == Names # {}
ASSUME BoundAssumption == MaxHubs \in Nat /\ MaxSecrets \in Nat

VARIABLES
  hub,       \* hub[h]: the row of hubs with id h
  user,      \* user[h][n]: the row of managed_users for user n of Hub h
  server,    \* server[h][n]: the row of servers for the server of user n of Hub h
  hubSeq,    \* last value of the hubs id sequence
  secretSeq, \* last token ciphertext; every encryption yields a new one
  entered,   \* history: the endpoint each token was entered for
  req,       \* probe requests in flight
  op         \* server operations in flight

vars == <<hub, user, server, hubSeq, secretSeq, entered, req, op>>

Hubs == 1 .. MaxHubs
Statuses == {"unknown", "healthy", "degraded"}
Kinds == {"collect", "sync", "test"}
Endpoint == [url: Urls \cup {NoUrl}, tls: BOOLEAN]

HubRow == [present: BOOLEAN, url: Urls \cup {NoUrl}, tls: BOOLEAN, enabled: BOOLEAN,
           secret: 0 .. MaxSecrets, status: Statuses, version: Urls \cup {NoUrl}]
(* What a request keeps of the Hub row it read. *)
Credential == [url: Urls \cup {NoUrl}, tls: BOOLEAN, enabled: BOOLEAN,
               secret: 0 .. MaxSecrets, status: Statuses]
UserRow == [present: BOOLEAN, from: Urls \cup {NoUrl}, active: BOOLEAN]
ServerRow == [present: BOOLEAN, inc: Nat, from: Urls \cup {NoUrl}, running: BOOLEAN]

NoHub == [present |-> FALSE, url |-> NoUrl, tls |-> TRUE, enabled |-> FALSE,
          secret |-> 0, status |-> "unknown", version |-> NoUrl]
NoCredential == [url |-> NoUrl, tls |-> TRUE, enabled |-> FALSE, secret |-> 0,
                 status |-> "unknown"]
NoUser == [present |-> FALSE, from |-> NoUrl, active |-> FALSE]

Phases == {"idle", "queued", "info", "users", "sync", "healthy", "unhealthy", "notify"}

(***************************************************************************)
(* A request holds the Hub row it read (cred), the snapshot the remote     *)
(* returned (seen users, up servers) and the outcome it stored (ok).       *)
(***************************************************************************)
Request == [pc: Phases, kind: Kinds, hub: 0 .. MaxHubs, cred: Credential,
            seen: SUBSET Names, up: SUBSET Names, ok: BOOLEAN]
IdleRequest == [pc |-> "idle", kind |-> "collect", hub |-> 0, cred |-> NoCredential,
                seen |-> {}, up |-> {}, ok |-> FALSE]

(***************************************************************************)
(* A server operation names its server by row id: the pair of the Hub and  *)
(* the user and the incarnation of the row.  asked and from are histories: *)
(* the authority of the row when the operation was asked for, and the one  *)
(* of the row the operation finally read.                                  *)
(***************************************************************************)
Operation == [pc: {"idle", "asked", "sent"}, hub: 0 .. MaxHubs, name: Names, inc: Nat,
              asked: Urls \cup {NoUrl}, from: Urls \cup {NoUrl}, cred: Credential]
IdleOperation == [pc |-> "idle", hub |-> 0, name |-> CHOOSE n \in Names : TRUE, inc |-> 0,
                  asked |-> NoUrl, from |-> NoUrl, cred |-> NoCredential]

TypeOK ==
  /\ hub \in [Hubs -> HubRow]
  /\ user \in [Hubs -> [Names -> UserRow]]
  /\ server \in [Hubs -> [Names -> ServerRow]]
  /\ hubSeq \in 0 .. MaxHubs
  /\ secretSeq \in 0 .. MaxSecrets
  /\ entered \in [0 .. MaxSecrets -> Endpoint]
  /\ req \in [Requests -> Request]
  /\ op \in [Operations -> Operation]

Init ==
  /\ hub = [h \in Hubs |-> NoHub]
  /\ user = [h \in Hubs |-> [n \in Names |-> NoUser]]
  /\ server = [h \in Hubs |-> [n \in Names |->
                 [present |-> FALSE, inc |-> 0, from |-> NoUrl, running |-> FALSE]]]
  /\ hubSeq = 0
  /\ secretSeq = 0
  /\ entered = [k \in 0 .. MaxSecrets |-> [url |-> NoUrl, tls |-> TRUE]]
  /\ req = [r \in Requests |-> IdleRequest]
  /\ op = [o \in Operations |-> IdleOperation]

-----------------------------------------------------------------------------
(* Administrators: CreateHub, UpdateHub, DeleteHub                          *)

(* Deleting servers and managed_users rows; a new row gets a new id. *)
ServersDropped(rows) ==
  [n \in Names |-> [present |-> FALSE, inc |-> rows[n].inc, from |-> NoUrl, running |-> FALSE]]
UsersDropped == [n \in Names |-> NoUser]

(* A token is encrypted for this Hub: a fresh ciphertext whatever its text. *)
EnterSecret(endpoint) ==
  /\ secretSeq < MaxSecrets
  /\ secretSeq' = secretSeq + 1
  /\ entered' = [entered EXCEPT ![secretSeq + 1] = endpoint]

CreateHub(url, tls, enabled) ==
  /\ hubSeq < MaxHubs
  /\ EnterSecret([url |-> url, tls |-> tls])
  /\ hubSeq' = hubSeq + 1
  /\ hub' = [hub EXCEPT ![hubSeq + 1] =
               [present |-> TRUE, url |-> url, tls |-> tls, enabled |-> enabled,
                secret |-> secretSeq + 1, status |-> "unknown", version |-> NoUrl]]
  /\ UNCHANGED <<user, server, req, op>>

BindingIgnoresTLS(row, url, tls) == row.url # url
HubCredentialBindingChanged(row, url, tls) == row.url # url \/ row.tls # tls

NeverReplaceTarget(h, url) == FALSE
ReplaceTarget(h, url) == hub[h].url # url

UpdateHub(h, url, tls, enabled, newToken) ==
  LET replaced == ReplaceTarget(h, url)
  IN  /\ hub[h].present
      /\ newToken \/ ~HubCredentialBindingChanged(hub[h], url, tls)
      /\ IF newToken THEN EnterSecret([url |-> url, tls |-> tls])
                     ELSE UNCHANGED <<secretSeq, entered>>
      /\ hub' = [hub EXCEPT ![h] =
                   [present |-> TRUE, url |-> url, tls |-> tls, enabled |-> enabled,
                    secret  |-> IF newToken THEN secretSeq + 1 ELSE hub[h].secret,
                    status  |-> IF replaced THEN "unknown" ELSE hub[h].status,
                    version |-> IF replaced THEN NoUrl ELSE hub[h].version]]
      /\ user' = IF replaced THEN [user EXCEPT ![h] = UsersDropped] ELSE user
      /\ server' = IF replaced THEN [server EXCEPT ![h] = ServersDropped(server[h])] ELSE server
      /\ UNCHANGED <<hubSeq, req, op>>

DeleteHub(h) ==
  /\ hub[h].present
  /\ hub' = [hub EXCEPT ![h] = NoHub]
  /\ user' = [user EXCEPT ![h] = UsersDropped]
  /\ server' = [server EXCEPT ![h] = ServersDropped(server[h])]
  /\ UNCHANGED <<hubSeq, secretSeq, entered, req, op>>

-----------------------------------------------------------------------------
(* Probe requests                                                           *)

(* Mutant: the fingerprint leaves out the switch and the token. *)
EndpointGeneration(row) == <<row.url, row.tls>>

(* hubCredentialGeneration: equal fingerprints are equal columns. *)
CredentialGeneration(row) == <<row.url, row.tls, row.enabled, row.secret>>

MatchesById(h, cred) == hub[h].present
LockAndMatchHubCredential(h, cred) ==
  CredentialGeneration(hub[h]) = CredentialGeneration(cred)

Move(r, pc) == req' = [req EXCEPT ![r].pc = pc]
Finish(r) == req' = [req EXCEPT ![r] = IdleRequest]

(* collectHubs lists the enabled Hubs that are due; the API names a Hub. *)
StartRequest(r, kind, h) ==
  /\ req[r].pc = "idle"
  /\ hub[h].present
  /\ kind = "collect" => hub[h].enabled
  /\ req' = [req EXCEPT ![r] = [IdleRequest EXCEPT !.pc = "queued", !.kind = kind, !.hub = h]]
  /\ UNCHANGED <<hub, user, server, hubSeq, secretSeq, entered, op>>

CredentialOf(row) == [url |-> row.url, tls |-> row.tls, enabled |-> row.enabled,
                      secret |-> row.secret, status |-> row.status]

(* GetHubCredential: the endpoint and its token in one statement.  A probe  *)
(* of the collector ends here when the Hub has been disabled meanwhile.     *)
ReadCredential(r) ==
  LET row == hub[req[r].hub]
  IN  /\ req[r].pc = "queued"
      /\ IF row.present /\ (req[r].kind = "collect" => row.enabled)
         THEN req' = [req EXCEPT ![r].pc = "info", ![r].cred = CredentialOf(row)]
         ELSE Finish(r)
      /\ UNCHANGED <<hub, user, server, hubSeq, secretSeq, entered, op>>

(* client.Info and TestConnection: the Hub answers, or it fails or times    *)
(* out.                                                                     *)
Info(r) ==
  /\ req[r].pc = "info"
  /\ \/ Move(r, IF req[r].kind = "test" THEN "healthy" ELSE "users")
     \/ Move(r, "unhealthy")
  /\ UNCHANGED <<hub, user, server, hubSeq, secretSeq, entered, op>>

(* client.Users: the users of the remote Hub, some with a server running. *)
FetchUsers(r) ==
  /\ req[r].pc = "users"
  /\ \/ \E seen \in SUBSET Names : \E up \in SUBSET seen :
          req' = [req EXCEPT ![r].pc = "sync", ![r].seen = seen, ![r].up = up]
     \/ Move(r, "unhealthy")
  /\ UNCHANGED <<hub, user, server, hubSeq, secretSeq, entered, op>>

SyncDropsUnseen(rows, seen, from) ==
  [n \in seen |-> [present |-> TRUE, from |-> from, active |-> TRUE]]

SyncedUsers(rows, seen, from) ==
  [n \in Names |->
     IF n \in seen THEN [present |-> TRUE, from |-> from, active |-> TRUE]
                   ELSE [rows[n] EXCEPT !.active = FALSE]]

SyncedServers(rows, up, from) ==
  [n \in Names |->
     IF n \in up
     THEN [present |-> TRUE, from |-> from, running |-> TRUE,
           inc |-> IF rows[n].present THEN rows[n].inc ELSE rows[n].inc + 1]
     ELSE [rows[n] EXCEPT !.running = FALSE]]

(* SyncHubUsersIfCurrent: one transaction under the inventory lock.  A      *)
(* missing row or a failed transaction is an error, a changed credential    *)
(* discards the snapshot.                                                   *)
SyncHubUsers(r) ==
  LET h == req[r].hub
      cred == req[r].cred
  IN  /\ req[r].pc = "sync"
      /\ \/ /\ hub[h].present
            /\ LockAndMatchHubCredential(h, cred)
            /\ user' = [user EXCEPT ![h] = SyncedUsers(user[h], req[r].seen, cred.url)]
            /\ server' = [server EXCEPT ![h] = SyncedServers(server[h], req[r].up, cred.url)]
            /\ req' = [req EXCEPT ![r].pc = "healthy", ![r].seen = {}, ![r].up = {}]
         \/ /\ hub[h].present
            /\ ~LockAndMatchHubCredential(h, cred)
            /\ Finish(r)
            /\ UNCHANGED <<user, server>>
         \/ /\ req' = [req EXCEPT ![r].pc = "unhealthy", ![r].seen = {}, ![r].up = {}]
            /\ UNCHANGED <<user, server>>
      /\ UNCHANGED <<hub, hubSeq, secretSeq, entered, op>>

(* UpdateHubHealthIfCurrent *)
HealthOnRequestContext(r) ==
  LET h == req[r].hub
  IN  /\ req[r].pc = "healthy"
      /\ hub[h].present
      /\ LockAndMatchHubCredential(h, req[r].cred)
      /\ hub' = [hub EXCEPT ![h].status = "healthy", ![h].version = req[r].cred.url]
      /\ req' = [req EXCEPT ![r].pc = "notify", ![r].ok = TRUE]
      /\ UNCHANGED <<user, server, hubSeq, secretSeq, entered, op>>

UpdateHubHealth(r) ==
  LET h == req[r].hub
      ok == req[r].pc = "healthy"
  IN  /\ req[r].pc \in {"healthy", "unhealthy"}
      /\ hub[h].present
      /\ LockAndMatchHubCredential(h, req[r].cred)
      /\ hub' = [hub EXCEPT ![h].status = IF ok THEN "healthy" ELSE "degraded",
                            ![h].version = IF ok THEN req[r].cred.url ELSE @]
      /\ req' = [req EXCEPT ![r].pc = "notify", ![r].ok = ok]
      /\ UNCHANGED <<user, server, hubSeq, secretSeq, entered, op>>

DiscardHealth(r) ==
  LET h == req[r].hub
  IN  /\ req[r].pc \in {"healthy", "unhealthy"}
      /\ ~hub[h].present \/ ~LockAndMatchHubCredential(h, req[r].cred)
      /\ Finish(r)
      /\ UNCHANGED <<hub, user, server, hubSeq, secretSeq, entered, op>>

(* The health transaction fails, or its caller has gone away. *)
LoseHealth(r) ==
  /\ req[r].pc \in {"healthy", "unhealthy"}
  /\ Finish(r)
  /\ UNCHANGED <<hub, user, server, hubSeq, secretSeq, entered, op>>

(* notifyHubHealth; what it mails is the subject of MailDelivery. *)
NotifyHubHealth(r) ==
  /\ req[r].pc = "notify"
  /\ Finish(r)
  /\ UNCHANGED <<hub, user, server, hubSeq, secretSeq, entered, op>>

-----------------------------------------------------------------------------
(* Server operations                                                        *)

(* serverAction: the server exists; the operation runs now or waits for     *)
(* approval, holding only the id of the server.                             *)
AskOperation(o, h, n) ==
  /\ op[o].pc = "idle"
  /\ server[h][n].present
  /\ op' = [op EXCEPT ![o] = [IdleOperation EXCEPT !.pc = "asked", !.hub = h, !.name = n,
                                 !.inc = server[h][n].inc, !.asked = server[h][n].from]]
  /\ UNCHANGED <<hub, user, server, hubSeq, secretSeq, entered, req>>

(* GetServerActionCredential: server, endpoint and token in one snapshot.   *)
SendOperation(o) ==
  LET row == server[op[o].hub][op[o].name]
  IN  /\ op[o].pc = "asked"
      /\ IF row.present /\ row.inc = op[o].inc
         THEN op' = [op EXCEPT ![o].pc = "sent", ![o].from = row.from,
                               ![o].cred = CredentialOf(hub[op[o].hub])]
         ELSE op' = [op EXCEPT ![o] = IdleOperation]
      /\ UNCHANGED <<hub, user, server, hubSeq, secretSeq, entered, req>>

FinishOperation(o) ==
  /\ op[o].pc # "idle"
  /\ op' = [op EXCEPT ![o] = IdleOperation]
  /\ UNCHANGED <<hub, user, server, hubSeq, secretSeq, entered, req>>

-----------------------------------------------------------------------------
(* The process stops and starts again: requests in flight are lost, the     *)
(* database and the operations waiting in it for approval are kept.         *)

Restart ==
  /\ req' = [r \in Requests |-> IdleRequest]
  /\ op' = [o \in Operations |-> IF op[o].pc = "sent" THEN IdleOperation ELSE op[o]]
  /\ UNCHANGED <<hub, user, server, hubSeq, secretSeq, entered>>

Administrate ==
  \/ \E url \in Urls, tls \in TlsModes, enabled \in BOOLEAN : CreateHub(url, tls, enabled)
  \/ \E h \in Hubs, url \in Urls, tls \in TlsModes, enabled \in BOOLEAN, newToken \in BOOLEAN :
       UpdateHub(h, url, tls, enabled, newToken)
  \/ \E h \in Hubs : DeleteHub(h)

Step(r) ==
  \/ ReadCredential(r)
  \/ Info(r)
  \/ FetchUsers(r)
  \/ SyncHubUsers(r)
  \/ UpdateHubHealth(r)
  \/ DiscardHealth(r)
  \/ NotifyHubHealth(r)

Operate ==
  \/ \E o \in Operations, h \in Hubs, n \in Names : AskOperation(o, h, n)
  \/ \E o \in Operations : SendOperation(o) \/ FinishOperation(o)

Next ==
  \/ Administrate
  \/ \E r \in Requests, kind \in Kinds, h \in Hubs : StartRequest(r, kind, h)
  \/ \E r \in Requests : Step(r) \/ LoseHealth(r)
  \/ Operate
  \/ Restart

Spec == Init /\ [][Next]_vars

(***************************************************************************)
(* Fairness.  Every goroutine and handler keeps running and every remote   *)
(* call has a timeout; the collector's ticker keeps scheduling a Hub that  *)
(* is due; the database does not refuse one request's writes for ever.     *)
(***************************************************************************)
Fairness ==
  /\ \A r \in Requests : WF_vars(Step(r)) /\ SF_vars(UpdateHubHealth(r))
  /\ \A h \in Hubs : SF_vars(\E r \in Requests : StartRequest(r, "collect", h))

LiveSpec == Spec /\ Fairness

-----------------------------------------------------------------------------
(* Properties                                                               *)

(* The endpoint a credential is about. *)
EndpointOf(row) == [url |-> row.url, tls |-> row.tls]

(* A token is only ever kept beside, and sent to, the URL and TLS setting it *)
(* was entered for, by Hub rows, probes in flight and server operations:     *)
(* UpdateHub's re-entry rule and the single-statement GetHubCredential.      *)
TokenBinding ==
  /\ \A h \in Hubs : hub[h].present => EndpointOf(hub[h]) = entered[hub[h].secret]
  /\ \A r \in Requests :
       req[r].pc \notin {"idle", "queued"} => EndpointOf(req[r].cred) = entered[req[r].cred.secret]
  /\ \A o \in Operations :
       op[o].pc = "sent" => EndpointOf(op[o].cred) = entered[op[o].cred.secret]

(* Every user and server row of a Hub was reported by the authority the Hub  *)
(* points at now, however many probes of an earlier URL are still answering: *)
(* UpdateHub's cleanup together with the fence of SyncHubUsersIfCurrent.     *)
MaterialisedFromCurrentAuthority ==
  \A h \in Hubs, n \in Names :
    /\ user[h][n].present => hub[h].present /\ user[h][n].from = hub[h].url
    /\ server[h][n].present => hub[h].present /\ server[h][n].from = hub[h].url

(* The version and the healthy status of a Hub row were earned by the URL in *)
(* the row: UpdateHubHealthIfCurrent never stores the answer of another one. *)
HealthFromCurrentAuthority ==
  \A h \in Hubs : hub[h].present =>
    /\ hub[h].version \in {NoUrl, hub[h].url}
    /\ hub[h].status = "healthy" => hub[h].version = hub[h].url

(* What a Hub is asked with. *)
Settings(row) == [url |-> row.url, tls |-> row.tls, enabled |-> row.enabled, secret |-> row.secret]

(* What changes about a Hub while its settings stay as they are was learnt   *)
(* by a probe that was made with exactly these settings: neither its users   *)
(* and servers nor its status are written by a probe with a token replaced   *)
(* since, nor by one that began before the Hub was disabled                  *)
(* (SyncHubUsersIfCurrent, UpdateHubHealthIfCurrent).                        *)
WritesAreCurrent ==
  [][\A h \in Hubs :
       /\ hub[h].present
       /\ Settings(hub'[h]) = Settings(hub[h])
       /\ <<hub[h], user[h], server[h]>> # <<hub'[h], user'[h], server'[h]>>
       => \E r \in Requests :
            /\ req[r].hub = h /\ req[r].pc \in {"sync", "healthy", "unhealthy"}
            /\ req'[r] # req[r]
            /\ Settings(req[r].cred) = Settings(hub[h])]_vars

(* A server operation reaches the authority its server was listed from when  *)
(* it was asked for, even when it waited for approval across retargetings:   *)
(* GetServerActionCredential and the deletion of the old authority's rows.   *)
OperationReachesItsAuthority ==
  \A o \in Operations : op[o].pc = "sent" =>
    op[o].cred.url = op[o].from /\ op[o].from = op[o].asked

(* A step in which the remote Hub h answers a probe. *)
Answered(h) ==
  \E r \in Requests :
    /\ req[r].hub = h
    /\ \/ req[r].pc = "info" /\ req'[r].pc \in {"users", "healthy"}
       \/ req[r].pc = "users" /\ req'[r].pc = "sync"

(* A Hub that stays enabled and never answers again ends up degraded and     *)
(* remains so, whatever older probes write late, provided the process stays  *)
(* up: the detached context of updateHubHealth and the fence of its write.   *)
BrokenHubReported ==
  \A h \in Hubs :
    /\ <>[](hub[h].present /\ hub[h].enabled)
    /\ <>[][~Answered(h)]_vars
    /\ <>[][~Restart]_vars
    => <>[](hub[h].status = "degraded")
=============================================================================
