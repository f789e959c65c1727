# A TLA+ model of jupiq

jupiq is a control plane for a fleet of JupyterHubs. One Go process serves an
HTTP API and a web UI, polls the Hubs and Prometheus in the background, sends
notification mail, and keeps everything in PostgreSQL. This directory models
the parts of it in which concurrency, failure and ordering decide whether it is
right, checks the models with TLC on small instances and proves the main
safety results with TLAPS for every value of the constants.

`PROJECT.json` maps every definition to the lines it models and lists the runs,
the mutants that show each property can fail, the hazards and the findings.

## 1. Inventory

| Component | State | Operations | Talks to | What is hard | What makes it correct |
|---|---|---|---|---|---|
| Hub inventory and probes (`store/hubs.go`, `collector`, `api/core_handlers.go`) | rows of `hubs`, `managed_users`, `servers`; requests in flight holding a Hub row they read | create, update, delete a Hub; probe (collector, sync, test); server action | remote Hubs, mail, sessions | the row changes while a probe is out for up to 25 s; overlapping probes; contexts that end before the failure is recorded | nothing an earlier URL answered is stored for the current one; a token never meets another endpoint; an operation reaches the Hub it was asked for; a broken Hub is reported |
| Session history (`store/hubs.go`) | `server_sessions` | reconciliation of a snapshot | written by every probe | snapshots out of order, foreign clocks, missing start times, a CHECK constraint that rolls a snapshot back | one open session exactly while a server runs; no time counted twice; sessions end |
| Review and approval (`api/resource_handlers.go`, `store/approvals.go`) | rows of kind `approval`, workflow settings, handlers with copies of a row | ask, review, approve, reject | server actions, mail | decisions on stale copies, two approvers, a handler that ends between its two writes | separation of duties; at most one call, after approval; mails tell the truth; a granted approval is completed |
| RBAC (`store/users.go`, `auth`) | roles, scoped bindings | save and delete roles, bind roles, first OIDC login, start-up seed, deletion of a Hub | every handler | long sequences of legal changes by several administrators | an administrator remains; nobody changes what lies above them; removals narrow |
| Mail and shutdown (`mail`, `cmd/jupiq/main.go`, `store/mail.go`) | `mail_deliveries`, slots, goroutines, `expiry_notified_at` | notify, send now, attempt, record, scan for expiring keys, the steps of the shutdown | requests, probes, SMTP relay | lost answers, retries, full slots, the order of waits at the end, kills | records are true; every queued row has an owner and is settled; an owner is told once, and told |
| Consumption rollup and retention (`store/resource_usage.go`, `store/metrics.go`, `collector`) | raw samples, hourly buckets, `rolled_up_through` | collect, roll up, prune | Prometheus | late samples, failed rollups, prunes in between, restarts | samples are accounted before they are deleted, each with the time it stood for |
| Settings, secrets and integration generations (`store/settings.go`, `api/core_handlers.go`) | settings, encrypted secrets, advisory locks | save a form; fenced writes; borrow a stored secret for a test | Prometheus, Kubernetes, chat, OIDC, mail | samples of an old configuration arriving late; a secret outliving its endpoint; three locks and six kinds of writer | a secret is only sent where it was entered for; nothing collected under an old configuration is stored under a new one; no deadlock |
| Local accounts, sessions and API keys (`auth/auth.go`, `api/auth_handlers.go`, `store/users.go`, `store/api_key_rotation.go`) | password hashes, `sessions`, `api_keys`, row locks | log in, log out, change a password; create, rotate, revoke, use a key | RBAC, security settings | two rotations of one key; keys that outlive roles; a login that overlaps a change of password | one live key per lineage; a request with a key never exceeds what its owner held when it was authenticated; a changed password ends the other sessions |
| OIDC login and provider cache (`auth/oidc.go`, `auth/oidc_provider.go`, `store/users.go`) | cache entries with waiters, state cookies, accounts with identities | start, callback, exchange, forget; find, create or update an account | identity provider | shared discovery whose first caller gives up; a configuration that changes between start and callback; concurrent first logins | waiters are always answered; no forgotten provider is returned; a visitor becomes their own account only |
| Limiters (`api/login_limiter.go`, `api/request_limiter.go`) | windows per key | allow, failed, succeeded, prune | login and OIDC handlers | asked before, counted after; the map at its limit | lockout holds up to the logins under way; the maps stay bounded; starts per window are bounded |
| Ingestion of pods, samples and LLM counters (`store/metrics.go`, `collector`) | a job with the generation it read, the transaction that stores its answer | read a generation, ask, store, discard | Prometheus, Kubernetes, settings, inventory | settings, inventory and switches change while a query is out | what is stored was measured under what is current |
| Live dashboard cache and stream (`api/core_handlers.go`) | one cached snapshot under a mutex | compute, serve, redact, invalidate | dashboard queries, settings | a slow computation that overlaps a save | nothing switched off is shown; no snapshot older than an answered save |
| Analytics, lists, proxies, migrations, configuration, web UI | none of their own | read, forward, parse | – | – | – |

How they interact: handlers and the collector share the store and nothing else;
every store operation is one transaction, so a transaction is one step of the
models and everything between two transactions of a request (remote calls,
decisions on copies) can interleave with everyone else. The writers of RBAC,
settings and inventory take advisory locks, which makes each of them one step;
only `SettingsStore` takes the locks one by one, because there their order is
the question.
Approvals and probes hand mails over; probes write sessions; deleting or
retargeting a Hub reaches into sessions, scopes and pending operations. A saved
form reaches the collector through the generation its answers are compared with,
and the dashboard by dropping its snapshot before the save is answered.

## 2. Modules

| Module | Models | EXTENDS / INSTANCE |
|---|---|---|
| `HubFleet` | Hub rows, probes, health, server operations | |
| `ServerSessions` | session reconciliation of one Hub | |
| `ApprovalLedger` | abstract promise: every decision is one step | |
| `Approvals` | the handlers with copies and guarded writes | instance of `ApprovalLedger` |
| `Rbac` | roles, bindings, ceilings | |
| `MailDelivery` | deliveries, key scan, shutdown | |
| `UsageRollup` | rollup and retention | |
| `SettingsStore` | settings, secrets, the advisory locks | |
| `Ingestion` | the collector's jobs and the fenced writes | `SettingsStore` |
| `LiveDashboard` | the shared snapshot | `SettingsStore` |
| `Monitoring` | the three together | `Ingestion`, `LiveDashboard` |
| `LoginLimiter` | windows of failed logins | |
| `RequestLimiter` | windows of anonymous OIDC starts | `LoginLimiter` (clock, addresses) |
| `Accounts` | login, sessions, change of password | `LoginLimiter` |
| `ApiKeys` | keys and the requests about and with them | `Accounts` |
| `SignIn` | accounts, keys and limiters together | `ApiKeys`, `RequestLimiter` |
| `OidcProviders` | the cache of discovered providers | |
| `OidcLogin` | logins, callbacks and accounts | `OidcProviders` |
| `MC…` | instances for TLC: constants, bounds, symmetry | the module of the same name |
| `HubFleetProofs`, `ApprovalsProofs`, `RbacProofs`, `MailDeliveryProofs`, `SignInProofs`, `MonitoringProofs`, `OidcLoginProofs` | theorems and their proofs | the module and `TLAPS` |
| `HistoryProofs` | theorems about `ServerSessions` and `UsageRollup` | both modules and `TLAPS` |

### HubFleet

`hub[h]`, `user[h][n]`, `server[h][n]` are the rows; ids come from `hubSeq`.
A URL stands for the authority behind it, so data can be traced to where it
came from (`from`, `version`). A token is its ciphertext, a fresh number each
time (`EnterSecret`); `entered` remembers for which endpoint it was typed in.
`req[r]` is a probe: it is scheduled (`StartRequest`), reads the row and token
in one statement (`ReadCredential`), talks to the Hub (`Info`, `FetchUsers`),
and writes through the fence `LockAndMatchHubCredential`
(`SyncHubUsers`, `UpdateHubHealth`, or `DiscardHealth`). `LoseHealth` is a
failed or abandoned health write, `Restart` loses everything in flight.
`WritesAreCurrent` says of each step that changes what is stored of a Hub: either an
administrator changed its settings or token in it, or it is the write of a probe
that had read the ones the Hub has. That is more than the two invariants about
authorities say, which a probe with an older token of the same URL, or one that was
under way when the Hub was disabled, would not break.
`op[o]` is a server action that may wait for approval holding only a server id;
the id is the Hub, the user and the incarnation of the row.
The limit on concurrent probes and the time a probe waits for its slot are not
modelled: any number in `Requests` may run, which includes every schedule the
limit allows.

### ServerSessions

One Hub. `remote[n]` is when server `n` started on the clock of the Hub, which
may be ahead, and a report may omit the start: what the Hub is like is its
`nature`, chosen once; so is how many of its probes overlap at most, which the
program does not limit: a probe is scheduled by the collector and by every request for a
sync. `Fetch`
takes a snapshot, `Apply` is the transaction of `syncHubUsers` including the
CHECK of the table, which rolls everything back (`refused`). Times that the
code compares (the second of tolerance, the minute into the future) are the
constants `Slack` and `Future`.

### Approvals and ApprovalLedger

A handler reads the row, checks its copy (`Decide`), and writes the copy back
guarded by the status (`WriteDecision`); `Execute` is the remote call, which
may be sent and still fail for this side; `SettleApproval` records the outcome;
`Notify` hands the mail over. `Abandon` ends a handler anywhere, `Restart` all
of them. Reasons are reduced to whether one was given. The ledger is the same
workflow without copies; the refinement mapping projects a row to its standing
(`Entry`) and leaves the mails, handlers and settings out.

### Rbac

Each mutation is one transaction under the RBAC lock and one action. Group
wildcards are the relation `GroupCovers`. Role 1 is `super_admin`, role 2 the
default role of new accounts. The code has no operation that deactivates an
account, so `Active` is a constant.

### MailDelivery

`caller[c]` is a request or a probe that may hand mails over, `mail[m]` the
goroutine of one mail, `row[m]` its row, `copies[m]` what the relay accepted.
`phase` is the position of `main` in its shutdown. Every wait may be given up
when its time is over; mails that are cut off by that, by a kill, or whose
statement fails are in `excused`, so that `QueuedIsOwned` speaks about the
others. `OutOfTime` ends a delivery whose budget is used up in an attempt or while it
waits for the next: what is left of its tries fails at once, and `CompleteDelivery` then
writes the outcome on a context of its own. Whether mail is switched on is read anew by
everyone who sends and may change at any time, so what they read is arbitrary. Rows are
never pruned in the model.

### UsageRollup

One user who has a session all the time and one series of samples at a constant
rate, so a bucket is the span of time each sample of its hour was credited with:
until its successor, or as long as its predecessor when there is none in the
window of the rollup, or the cap. The code adds such spans up over the series of
a user. `lagged`
records that a prune reached samples the next rollup would have read (`Unread`),
`skipped` that the backfill limit kept a rollup from samples it would have read.
`Tick`
keeps a cycle shorter than an hour, the sum of the timeouts of its calls.

### SettingsStore, Ingestion, LiveDashboard and Monitoring

`config[s]` is the row of a section, reduced to its endpoint (everything its
secret is bound to: canonical URL or SMTP host, TLS verification, OIDC client)
and whether it is enabled; `secret[i]` is the number of the form that brought
it, as a fresh ciphertext is; `boundTo` remembers the endpoint that form named.
`txn[p]` is the transaction of a process: the advisory locks it still needs, in
the order `LockPlan` gives for each kind of writer. `UpdateSettingsAndSecrets`
is the whole transaction inside its lock; the request then still has to drop the
snapshot (`invalidateLiveSnapshot`) before it is answered. `inventory` is what
attribution asks of the inventory: the one server a Pod name resolves to.

`col` is the collector: `ReadGeneration` takes settings, secret and inventory in
one snapshot, `prometheusQueries` reads the switches, `Ask` and `Answer` are one
query, and the answer is stored in a transaction that compares the configuration
under the settings lock (`LockInventory`), the inventory under the inventory
lock, and the switch (`featureEnabledForSave`), or is discarded with the rest of
its job (`DiscardStale`). `updatePods`, `saveMetricPoints` and
`saveLLMMetricPoints` are the three ways to store. `sample` is the last sample
stored, with the server the generation resolved it to and the one it is written
for. Which of several candidates a Pod resolves to and how an LLM counter merges
with its predecessor are abstracted.

`reader[r]` is a dashboard request or a tick of the event stream, `cache` the
snapshot with the switches it was computed with, `liveMu` its mutex. The age of
a snapshot is left open: every reader may find it fresh or expired.

Fingerprints are compared by value, as in the code: a configuration that is
changed and changed back is the same one.

### LoginLimiter, RequestLimiter, Accounts, ApiKeys and SignIn

`attempts` has the three windows of a login (pair, address, account); a login
asks (`login`), later counts (`LoginFails`, `CreateSession`). `prune` is the set
of outcomes the eviction of the oldest windows may have, since windows of equal
age are evicted in any order. `hits` are the windows of the second limiter, which
counts before it decides.

A password is the number of the change that set it. `CreateSession` opens a
session with the hash read at the start of the login; `changePassword`,
`ChangeLocalPassword` and `RevokeOtherSessions` are the three statements of a
change, and `ChangeFails` may end it between any two. `settled` is the last
password whose change was answered.

`key[k]` is a row of `api_keys`; `root` names the first key of its lineage. A
rotation locks the row (`SelectForUpdate`) and commits both rows at once.
`permissions[u]` is what the roles of `Rbac` grant at the moment; a set of
permissions stands for all its wildcards cover. Authentication is a statement at a
time: the session (`AuthenticateRequest`), or the row of the key
(`AuthenticateAPIKey`) and the mark that it was used (`TouchKey`, which waits for a
rotation that holds the row); then the account with its permissions
(`GetUser`). What was read is `granted` and `scopes` of the request, and the rest of
it, `Allows` included, looks at these only, as `Principal` does: a role that is
taken away later counts from the next authentication
(`docs/ADMIN_GUIDE.md:358`). `seen` is history: everything the roles of the owner
granted from the start of the request until they were read.

### OidcProviders and OidcLogin

An entry is a discovery with its waiters: it runs detached (`resolve`), is
announced in a second step (`CloseReady`), expires, and `forget` removes it from
its key whatever it is doing. `floor` and `since` are history: up to which entry
a key was forgotten, and what that was when a caller asked. `login[l]` stands for
state, nonce and verifier; `call[c]` is a request, which starts a login or
finishes one and then runs `UpsertOIDCUser` a statement at a time
(`SelectSubject`, `SelectUsername`, `InsertAccount`, `GrantRole`,
`UpdateAccount`). The identity provider is external (`Authorize`): it exchanges a
code once, and only a code of its own. `born` remembers the token an account was
created for.

## 3. Runs

| Run | Instance | Checks | Shows |
|---|---|---|---|
| `hub_safety` | 1 Hub, 2 URLs, both TLS settings, 3 tokens, 1 probe, 1 operation | `TypeOK`, `MaterialisedFromCurrentAuthority`, `HealthFromCurrentAuthority`, `TokenBinding`, `OperationReachesItsAuthority`, `WritesAreCurrent` | no answer of an earlier authority is stored, no write of a probe outlives the settings or the token it read; tokens and operations only reach their endpoint |
| `hub_live` | 1 Hub, 2 probes | `BrokenHubReported` | a Hub that stops answering ends up degraded |
| `approvals` | 1 request, 3 users, 2 handlers, 3 workflows | `TypeOK`, `SeparationOfDuties`, `SentOnceAfterApproval`, `NoticesTrue`, `ImplementsLedger`, `SteadyFlows` | races and interruptions are harmless, the handlers implement the ledger, and steady approvals complete |
| `sessions` | 1 server, 2 probes, three natures of Hub, 1 retarget | `OpenMatchesRunning`, `OrderlyHubsAccepted` | inventory and history agree; orderly Hubs are never refused |
| `sessions_retarget` | 1 probe, 1 retarget | `OrphansAreHistory`, violated | sessions open for ever |
| `rollup` | rollups, prunes and the process may fail | `NothingStranded`, `AccountedUnlessLagging`, `SettledExact` | nothing is lost unless the rollup falls behind the raw retention or its backfill limit, and what is settled is credited with the time it stood for |
| `mail` | 1 request, 1 probe, 2 keys, 2 mails, 1 slot, failing statements, 1 stop | `RecordsTrue`, `QueuedIsOwned`, `KeyMailedOnce`, `QueuedIsSettled` | records stay true, no owner is told twice, and rows are settled, through lost answers, used up time, shutdown and kill |
| `rbac_safety` | 2 accounts, 3 roles, 1 Hub | `TypeOK`, `AdministratorRemains`, `CeilingRespected` | no lock-out, no escalation |
| `rbac_scopes` | 2 Hubs, 1 department | `RemovalNarrows`, violated | deleting a Hub widens a binding |
| `monitoring` | 2 handlers, collector, 1 reader, any 2 of them at a time; 2 endpoints, 2 forms, 3 integrations, 1 Pod, 2 servers | `TypeOK`, `SecretsMeetTheirEndpoint`, `NoDeadlock`, `StoredIsCurrent`, `DashboardHonoursSwitches` | secrets stay with their endpoint, the fence and the switches hold at the commit, the lock order has no cycle, the dashboard keeps up with saves |
| `sign_in` | 2 handlers, 1 account, 3 addresses, 2 sessions, 3 passwords, 3 keys, 2 permissions | `TypeOK`, `LockoutHolds`, `StartsBounded`, `PasswordChangeEndsSessions`, `OneLiveKeyPerLineage`, `KeyWithinOwner` | limits hold up to what was under way, races of rotations and revocations leave one key, a request with a key is within what its owner held as it was authenticated |
| `oidc` | 2 issuers, 2 callers, 3 discoveries, 2 logins, 3 accounts | `SingleDiscovery`, `ForgottenNotServed`, `SignsInAsItself`, `WaitersAnswered` | the shared discovery is safe and answers everyone; a visitor becomes their own account |

### Bounds

- Hub: the properties speak about one Hub at a time and rows of different Hubs
  share only the sequences, so one Hub suffices; two URLs are an old and a new
  authority, a third would behave as the second. In `hub_safety` one probe is
  the late one, since what an earlier probe wrote is in the rows already;
  `hub_live` has two. The theorems lift all of this.
- Approvals: the properties speak about one row; three users fill the three
  roles that must differ, two handlers are two rivals. The theorems lift this to
  any number.
- Sessions: `LastTime` leaves room for a start, an observation, a restart and
  another observation; tolerances are scaled to 0 instants, so that a skew of 1
  is a clock that is ahead by more than is tolerated. Two probes are an older
  and a newer snapshot; the theorems allow any number of servers, probes, starts
  and instants, and say where two that overlap are the limit.
- Rollup: two ticks to the hour so that a bucket has an inner instant; a late
  window of two hours, a cap of one and samples at most one hour late, a raw
  retention of three and a half hours, in the order of the defaults (cap plus
  lateness < late window < raw retention < usage retention). `MaxTime` lets a
  sample pass all three windows. The backfill limit of eight ticks exceeds the raw
  retention, as the 45 days exceed the default, and lies within `MaxTime`, so that
  a rollup that fails for long enough runs into it.
- Mail: one slot and two mails make a mail wait; `Attempts` is the
  code's 2. One stop is enough because a restart keeps only rows and marks. A
  behaviour of the run has probes that mail or a scan that does (`about`), since both
  hand over as a request does and the shutdown waits for both in the same step; the
  theorems have them together.
- RBAC: the third role is the one administrators create; two accounts are the
  actor and the victim, who may be the same.
- Monitoring: each property relates two actors (a save and a query, a save and a
  reader, two writers), so a behaviour has any two actors (`MaxActors`); two
  forms make a change of endpoint and a change back or a second section. Three
  integrations are the two the collector reads and the one that needs its secret.
  Two transactions suffice for a cycle among locks of which each holds at most
  one other while it waits.
- Sign-in: a behaviour is about the limiter, the starts, the passwords, managing
  keys or using a key (`about`), whose state is disjoint but for the sessions keys are
  managed from. Where a key is used, one request uses it while another manages keys,
  and the policy stays open, since a request with a key does not read it; the third key is for
  the behaviours about managing alone. Three passwords are two changes, of which the
  first may end halfway. The limits 1, 2 and 3 keep the order of the code's; three addresses fill
  and overflow maps of three and two windows; `MaxClock` lets a window expire and
  another begin. Three keys are a key, its successor and one more; two
  handlers are two rivals.
- OIDC: a behaviour is about the cache (one issuer) or about accounts (both
  providers discovered). Three discoveries are a forgotten one, its successor and
  one more; two logins are a login and one that replaces its cookie; three
  accounts are the local one and one for each issuer, all with one subject and
  two names.

Counters and clocks that end at a bound make the runs of `ServerSessions`,
`UsageRollup` and `MailDelivery` stop moving in some respect, but some action
stays enabled everywhere: deadlock is checked in every run.

### Fairness

- `HubFleet!LiveSpec`: a probe keeps taking steps because every remote call and
  statement has a timeout (weak fairness of `Step`); the collector's ticker
  keeps scheduling a Hub that is due, though a slot may be busy at times (strong
  fairness of `StartRequest` for `collect`); the health write runs on a context
  of its own, so it is not lost every time (strong fairness of
  `UpdateHubHealth`). The property additionally assumes that the Hub stays
  enabled, that it does not answer again and that the process is not restarted
  for ever.
- `Approvals!Fairness`: a handler that is not abandoned proceeds, for the same
  reason. `MCApprovals` adds a variable that says whether a behaviour is steady,
  that is, has no `Abandon` and no `Restart`.
- `MailDelivery!Fairness`: an attempt ends (dial and session have deadlines, and so
  has the delivery as a whole), the outcome is written or fails, and a waiter gets
  its slot, because Go's channels serve blocked senders first in, first out.
- `OidcLogin!Fairness`: a discovery ends, at the latest by its deadline of ten
  seconds, and the goroutine that ran it announces it (weak fairness of
  `Discovery`); a request that has its answer goes on (weak fairness of
  `Proceed`). `Cancel` is not fair: nobody has to give up.

## 4. Findings

Two runs end in a counterexample to something the repository says of itself;
`PROJECT.json` quotes each line.

1. `sessions_retarget`: retargeting cuts open sessions from their server and
   nothing ends them afterwards.
2. `rbac_scopes`: deleting a Hub removes the Hub dimension of a binding that
   also names departments and thereby widens it.

Three further divergences were met and are described here without a run of their
own:

- the status a health mail compares with was read before the remote call
  (`collector.go:199-205`), so a transition is mailed twice or not at all when
  two probes overlap;
- a handler that ends between its two transitions
  (`resource_handlers.go:336-348`) leaves the approval in `executing`, which no
  handler accepts as a starting point (`docs/USER_GUIDE.md:193`); `SteadyFlows`
  is therefore about behaviours without such an end;
- the prune does not look at the rollup's position (`metrics.go:758`), so it
  deletes unaccounted samples once rollups have failed for the raw retention;
  `AccountedUnlessLagging` is therefore about rollups that keep up. A rollup that
  was off for longer than the backfill limit leaves the samples before it out, not
  only on "the first run after an upgrade" (`resource_usage.go:178`); `skipped` sets
  them apart.

Some properties are as weak as they are because of what the code does:

- `OrderlyHubsAccepted` excludes Hubs that omit a start time in one report and
  deliver it in a later one: `reconcileServerSession` takes the later report for
  a restart and ends the open session before its start, which the CHECK refuses,
  for this snapshot and the ones after it. It also excludes Hubs whose clock is
  ahead, and more than two probes at a time. With three snapshots of three starts
  the newest opens the session, the oldest then lowers `servers.started_at`
  (`hubs.go:439` keeps what was reported last, not what is latest), and the one in
  between counts as a restart and ends the session before its start, although
  every report was right. The attempt to prove the property for any number of
  probes came upon this; an instance with three probes and three starts has the
  counterexample.
- Sessions of one server are not disjoint: an absent server is closed at the
  time its snapshot is applied, and one that was started again after the fetch
  gets a session that begins before that end.
- `OpenMatchesRunning` does not say that the inventory is that of the newest snapshot:
  snapshots of overlapping probes are applied in the order they are committed, and an
  older one may stop servers in the inventory that run, until the next probe.
- `KeyWithinOwner` speaks of one moment since the request began, not of the moment it
  is answered: what is decided was read at its authentication.
- `KeyMailedOnce` says at most once. Mail that is switched off between the
  scan's check and the mail itself leaves a key marked whose owner is not told.
- `SettledExact` lets the last sample before a gap, or of a Pod that stopped, count
  for the cap instead of the cadence of its series. The comment in the query
  (`resource_usage.go:68-71`) wants the cadence, but the sample before is outside
  the window once a later rollup starts at the hour of a last sample that is the
  first one in its hour: deriving that bucket again then raises it, by at most
  the cap.
- `LockoutHolds` allows for the logins under way: the limiter
  is asked before the password is checked and counts afterwards, and it makes room
  once for the three windows it may add. It counts what a window holds: failures
  whose window was evicted at the limit of the map are forgotten.
- `StartsBounded` allows two windows' worth in a stretch of one window's length,
  because windows start with the first request, and excludes addresses whose
  window was evicted.
- `PasswordChangeEndsSessions` excludes the session of a login that read the hash
  before the change and opened its session after it, and speaks of changes that were
  answered: one that fails to revoke leaves the sessions open until the next.

## 5. Proofs

All proofs are checked by TLAPS with its SMT, Zenon and LS4 backends. They use
the named assumptions on the constants only: names for "none" are none of the
things they stand in for; bounds are numbers, and limits and windows positive
ones; workflows and natures of Hubs are records of their kind; the sets of handlers
and of probes are finite; the bootstrap account is active and the role bounds leave room for the
system roles (`Rbac`); `kubernetes` and `prometheus`, which the collector reads,
are among the integrations (`SettingsStore`); and the late window covers the
lateness of a sample and the cap (`LatenessAssumption` of `UsageRollup`), which
is what three hours are chosen for (`resource_usage.go`, `rollupLateWindow`), with a cap of 150
seconds. The full hours of `UsageRollup` may have any width.

**HubFleet.** `TypeInv` is `TypeOK` with `InFlightNameHubs` (whatever is in
flight names a Hub that was issued). The four safety properties are not
inductive one by one and are proved together as `SafetyInv`, which adds
`IdsIssued` (rows have issued ids, so a created Hub inherits nothing),
`SecretsIssued` (tokens in use were issued, so a new one is really new) and
`OperationsRemember` (an operation that waits and still finds its row finds the
authority it was asked for). The heart is `SyncSafety` and `HealthSafety`: equal
generations give equal tokens, and by `TokenBinding` equal endpoints, so what
passes the fence came from the current authority. `WritesStayCurrent` is an action
property: an edit that changes a row changes its settings (`EditsChangeSettings`), and
every other step that does is the write of a probe behind the fence
(`ProbesWriteCurrent`). Probes that do not write are
covered by one lemma (`KeepsCredentials`).

**Approvals.** `Inv` says for each row what its standing implies about who acted
and what was sent, and for each handler what its copy and its next row imply,
in terms of what cannot change any more; a handler that executes is the only
one for its row. The key is `WriteDecision`: a row that has the status of the
copy equals the copy in everything the decision depends on, because a row never
returns to a status it has left. From `Inv` follow `DutiesStaySeparate`, `SentOnce`,
`NoticesStayTrue`, and step by step the refinement `ImplementsTheLedger`.

**Rbac.** `TypeOK` carries that `super_admin` holds the wildcard.
`NobodyLocksEveryoneOut` is inductive above it: for each mutation the guard
names a witness, an administrator who is not affected or another role that
still carries the wildcard. `NobodyExceedsTheirCeiling` is an action property:
each permission a user gains or loses comes through a role that the mutation
checked against the ceiling of its actor.

**MailDelivery.** `Inv` has four parts. `Typed` is `TypeOK` with `Unissued` (a mail
that was not handed over has neither row nor copies) and the bound on stops.
`KeyInv` adds `KeysMarked`: a key that was mailed is marked and in nobody's list
of keys still to be mailed, so no later scan takes it up. `RecordInv` adds
`TriesCounted`, which ties the copies the relay has to the tries of the delivery
until its outcome is recorded; `RecordsTrue` alone says nothing before the row is
settled. `OwnedInv` adds `Awaited`: what each wait of `main` has established
about the requests, the probes, the scan and the mails that are still alive when
the next one begins. Each action changes one mail at most, and what a hand-over, an
attempt, a settlement and the end of the process do to it is stated once
(`Handed`, `Tried`, `Settled`, `Over`) and used by all four parts.

**SignIn.** `SignInInv` has a part for each of the components, which share the
sessions only. `KeyInv` says that a rotation holds the lock of its row and that
the row is still active, because whoever else would change it needs the lock; so
the successor that a rotation inserts replaces the one live key of its lineage.
It also keeps every scope equal to that of the first key of the lineage, and
`RequestSound` what a request with a key holds: its account and scopes are those of
its key, whose row may be rotated or revoked meanwhile; the permissions of the moment
are in `seen` as long as they have not been read; and those it read are among
`seen`. Together these give `KeysStayWithinOwner`. `AccountInv` adds to `PasswordChangeEndsSessions` that
nobody knows a password that is yet to be set: a session vouches for, and a handler
holds, a hash that the account has or had. `WindowInv` counts in advance the failures of
the logins under way (`WindowBound`): a window at its limit admits nobody, so
failures and logins under way together stay below the limit plus the number of
handlers. The eviction makes room for one and a failure adds three windows, hence the bound of
two above the map's own. `RequestInv` says of each address that kept its windows how
they lie in time: nothing was let through since its last window was over, the
current one has let through no more than it counted, and the length of a window before
it held one window's requests at most. A stretch as long as a window therefore meets two
of them, and `Stretches` collects those that can no longer change. The
history `admitted` holds running totals, so that a stretch is a difference of two of them.

**Monitoring.** `LockInv` says of every transaction which of its locks it holds by
what it still needs. `HolderSound` is the order of the locks: whoever holds one
has all of its plan or waits for the inventory, and the holder of the inventory
waits for nothing, so no cycle exists among any number of transactions. The same
invariant gives the fence: a job that stores holds the settings lock from its
comparison on, every writer of the settings needs it (`StoreEffect`), so
`ConfigCurrent` still holds at the commit. `StoreInv` carries the binding of
secrets to endpoints through every form, `GenerationSound` the same for the
pair in the collector's hands, however old. `DashInv` compares versions: what is
cached, or held under the mutex on its way into the cache, is no older than the newest
answered save, and an invalidation has to take that mutex first.

**OidcLogin.** `TypeOK` says what rows the cache, the logins, the callers and the accounts consist of
(`EntryRow`, `LoginRow`, `CallRow`, `AccountRow`). In `CacheInv` a key's cached entry
is numbered above the last one that was forgotten (`CachedSound`), and a caller waits for one above the floor it saw
(`WaitSound`); since entries never change their key, nobody is served what was
forgotten, and a second discovery of a key can only begin after the first was
removed from it. In `LoginInv` a caller that looks for an account has spent its
code at the issuer it was given for, which is the issuer the login was started
with (`CallSound`), and an account with an identity has that of the token it was
born of (`AccountSound`). Both survive any change of the configured issuer in
between and any interleaving of the statements of two logins.

**ServerSessions.** `RowSound` ties a row to its history: identities only grow, so a
row that is made anew finds no session of its own, and the five cases of a
snapshot (`SyncedCases`) each keep one open session exactly while the row runs.
`OrderlyAccepted` needs to know what is under way. `StartsSound` says that a session
starts no later than the server that runs now, that at most one probe brings a start
from before it, and none once the row has gone back to such a start. The last
is what makes a restart come after the session it ends (`RestartAfterStart`),
and it is where a third probe would break in.

**UsageRollup.** `RollInv` joins `NothingStranded`, `AccountedUnlessLagging` and
`SettledExact` with where the position stands (a full hour that has passed), what
samples and buckets consist of, and `DeletedSound`: nothing is deleted that a
rollup would still read. The arithmetic is in lemmas about full hours (`HourForm`,
`FullHour`, `TruncateMonotone`). That a bucket that is derived no more is exact rests on two
lemmas about spans: with everything of the window in sight the derived
span is the right one (`SpanExact`), and a sample that arrives later is too late
to be its successor (`SpanStable`), for which the late window must cover the
lateness and the cap.

Attempts at these proofs changed the models in a few places. Two `CASE` expressions,
of `failed` and of `allowRequest`, had guards that overlapped where an evicted
window is that of the request itself; `lagged` now records that a sample was
really deleted rather than that the cut-off had passed; the backfill limit, at first
left out, needed `skipped`; and `OrderlyHubsAccepted` had to name the overlap.

Only model-checked: everything under fairness (`BrokenHubReported`,
`SteadyFlows`, `QueuedIsSettled`, `WaitersAnswered`), which is outside what the
prover can do. Every invariant and every action property of a passing run is a
theorem. The two properties that the code violates are not.

## 6. Plan

Modelled first was what the rest depends on: inventory, approvals, roles, then
the accounting and the mail; after them the settings with their readers, sign-in
with keys and limiters, and OIDC. Every safety property and every action property
that a passing run checks is proved. What is left is to prove more than the runs
ask, for instance that a closed session is never opened again and that the totals of a
settled bucket stay as they are.

### Not modelled

Parts of modelled components:

- the three calls of a restart (`jupyterhub.go:97`): they share no state with the
  rest, and what they amount to is up to the Hub; `Approvals` has the outcome;
- the eight slots of the probe pool (`collector.go:75`): a probe of `HubFleet`
  starts when it gets one, and every probe ends by its timeout;
- how several candidates for one Pod are ranked and how the LLM counters of one
  minute are merged: functions of one answer, inside one transaction;
- the sums, peaks and session runtime of a bucket, beside the spans;
- `PruneMailDeliveries` and the SMTP dialogue: old rows are deleted by age, and an
  attempt has three outcomes;
- a first login whose `GrantRole` fails (`users.go:203`) leaves an account without
  its role, and no later login repairs it; no property of the code says it should;
- the name in a JWT, which has to be the name of its account: no operation of the
  program but an OIDC login renames one;
- values that change and change back between two reads of a generation have the
  same fingerprint, as they have in the model, where they are equal.

Whole components: analytics, search, lists and user detail (read-only queries),
the AI and MCP proxies (a request is forwarded, a usage row is inserted),
migrations (a linear list under a lock), configuration, encryption and HTTP
plumbing (no state of their own; a secret is an identity here), and the web UI,
which is a client of the API.
