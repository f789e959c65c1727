--------------------------- MODULE ServerSessions ---------------------------
(***************************************************************************)
(* The session history of one Hub: what syncHubUsers and                   *)
(* reconcileServerSession make of the snapshots that probes bring home.    *)
(*                                                                         *)
(* A probe fetches the running servers of the remote Hub, each with the    *)
(* start time the Hub reports on its own clock, or without one.  Later the *)
(* snapshot is applied in one transaction that marks rows of servers,      *)
(* closes the sessions of those that are gone or have restarted and opens  *)
(* sessions for the others.  Probes of the collector and of POST           *)
(* /hubs/{id}/sync overlap, and nothing orders their snapshots.  The table *)
(* refuses a session that would end before it starts, which rolls the      *)
(* whole snapshot back.                                                    *)
(***************************************************************************)
EXTENDS Integers, Sequences, FiniteSets

CONSTANTS
  Servers,      \* servers of the remote Hub, a user and a server name each
  Probes,       \* probes that can be in flight at once
  LastTime,     \* bound: last instant of the clock
  MaxStarts,    \* bound: how often servers start
  MaxSkew,      \* bound: how far the clock of a remote Hub is ahead
  Slack,        \* the second by which two reported starts may differ
  Future,       \* the minute a reported start may lie ahead
  Natures,      \* the Hubs there are: how far each is ahead, whether its
                \* reports may come without a start time, and how many of
                \* its probes overlap at most
  Retargets     \* bound: how often the Hub is pointed at another URL

ASSUME TimeAssumption ==
  /\ LastTime \in Nat \ {0} /\ MaxStarts \in Nat /\ MaxSkew \in Nat /\ Slack \in Nat
  /\ Future \in Nat /\ Retargets \in Nat
  /\ IsFiniteSet(Probes)
  /\ Natures \subseteq [skew: 0 .. MaxSkew, omits: BOOLEAN, overlap: Nat]

VARIABLES
  nature,   \* what the remote Hub is like; nothing changes it
  clock,    \* the clock of this process
  starts,   \* how often servers have started
  remote,   \* remote[n]: when server n started, on the clock of the Hub
  row,      \* row[n]: the row of servers for n
  sessions, \* sessions[n]: the rows of server_sessions for n, oldest first
  probe,    \* probe[p]: the snapshot probe p brings home
  moves,    \* how often the Hub has been retargeted
  refused   \* history: a snapshot was rolled back by the table's CHECK

sessionVars == <<nature, clock, starts, remote, row, sessions, probe, moves, refused>>

Never == 0                       \* NULL in a column of instants
Times == 1 .. LastTime + MaxSkew
Reported == Times \cup {Never}

(* status <> 'stopped', the row's incarnation and the start it last had. *)
ServerRow == [present: BOOLEAN, running: BOOLEAN, id: Nat, started: Reported]
Session == [server: Nat, started: Times, ended: Reported]
Down == [up |-> FALSE, started |-> Never]
Seen == [up: BOOLEAN, started: Reported]
NoSnapshot == [n \in Servers |-> Down]

SessionsTypeOK ==
  /\ nature \in Natures
  /\ clock \in 1 .. LastTime
  /\ starts \in 0 .. MaxStarts
  /\ remote \in [Servers -> Reported]
  /\ row \in [Servers -> ServerRow]
  /\ sessions \in [Servers -> Seq(Session)]
  /\ probe \in [Probes -> [busy: BOOLEAN, snap: [Servers -> Seen]]]
  /\ moves \in 0 .. Retargets
  /\ refused \in BOOLEAN

SessionsInit ==
  /\ nature \in Natures
  /\ clock = 1
  /\ starts = 0
  /\ remote = [n \in Servers |-> Never]
  /\ row = [n \in Servers |-> [present |-> FALSE, running |-> FALSE, id |-> 0, started |-> Never]]
  /\ sessions = [n \in Servers |-> <<>>]
  /\ probe = [p \in Probes |-> [busy |-> FALSE, snap |-> NoSnapshot]]
  /\ moves = 0
  /\ refused = FALSE

ClockTick ==
  /\ clock < LastTime
  /\ clock' = clock + 1
  /\ UNCHANGED <<nature, starts, remote, row, sessions, probe, moves, refused>>

-----------------------------------------------------------------------------
(* The remote Hub *)

RemoteStart(n) ==
  /\ remote[n] = Never
  /\ starts < MaxStarts
  /\ starts' = starts + 1
  /\ remote' = [remote EXCEPT ![n] = clock + nature.skew]
  /\ UNCHANGED <<nature, clock, row, sessions, probe, moves, refused>>

RemoteStop(n) ==
  /\ remote[n] # Never
  /\ remote' = [remote EXCEPT ![n] = Never]
  /\ UNCHANGED <<nature, clock, starts, row, sessions, probe, moves, refused>>

-----------------------------------------------------------------------------
(* Probes *)

(* client.Users and parseJupyterServer: a start that is missing or cannot   *)
(* be parsed, or a user listed with a server URL only, has no start time.   *)
Reports(n) ==
  IF remote[n] = Never THEN {Down}
  ELSE {[up |-> TRUE, started |-> t] : t \in {remote[n]} \cup (IF nature.omits THEN {Never} ELSE {})}

Busy == {p \in Probes : probe[p].busy}

Fetch(p) ==
  /\ ~probe[p].busy
  /\ Cardinality(Busy) < nature.overlap
  /\ \E snap \in [Servers -> UNION {Reports(n) : n \in Servers}] :
       /\ \A n \in Servers : snap[n] \in Reports(n)
       /\ probe' = [probe EXCEPT ![p] = [busy |-> TRUE, snap |-> snap]]
  /\ UNCHANGED <<nature, clock, starts, remote, row, sessions, moves, refused>>

(* The open session of the current row of n, the one a unique index allows. *)
IsOpen(n, s) == s.server = row[n].id /\ s.ended = Never
Closed(n, at) ==
  [i \in DOMAIN sessions[n] |->
     IF IsOpen(n, sessions[n][i]) THEN [sessions[n][i] EXCEPT !.ended = at] ELSE sessions[n][i]]

Restarted(n, started) ==
  /\ row[n].running
  /\ started # Never
  /\ row[n].started = Never \/ started > row[n].started + Slack

(* A session ends at the restart that ended it, unless that is yet to come. *)
RestartEnd(started) == IF started < clock THEN started ELSE clock

SessionStartObserved(n, started) == clock
SessionStart(n, started) ==
  IF started # Never /\ started <= clock + Future THEN started
  ELSE IF row[n].running /\ row[n].started # Never THEN row[n].started ELSE clock

RowId(n) == IF row[n].present THEN row[n].id ELSE row[n].id + 1
Opened(n, started) == [server |-> RowId(n), started |-> SessionStart(n, started), ended |-> Never]

(* The sessions of n once the snapshot is applied: those of a server that   *)
(* is gone or has restarted are closed, one that is up has an open one.     *)
NeverCloses(n, report) ==
  IF report.up /\ ~\E i \in DOMAIN sessions[n] : IsOpen(n, sessions[n][i])
  THEN Append(sessions[n], Opened(n, report.started)) ELSE sessions[n]

SyncedSessions(n, report) ==
  LET kept == CASE ~report.up /\ row[n].running -> Closed(n, clock)
                [] report.up /\ Restarted(n, report.started) -> Closed(n, RestartEnd(report.started))
                [] OTHER -> sessions[n]
      open == row[n].present /\ \E i \in DOMAIN kept : IsOpen(n, kept[i])
  IN  IF ~report.up \/ open THEN kept ELSE Append(kept, Opened(n, report.started))

SyncedRow(n, report) ==
  IF ~report.up THEN [row[n] EXCEPT !.running = FALSE]
  ELSE [present |-> TRUE, running |-> TRUE,
        id |-> RowId(n), started |-> IF report.started # Never THEN report.started ELSE row[n].started]

(* CHECK (ended_at IS NULL OR ended_at >= started_at) *)
CheckHolds(table) ==
  \A n \in Servers : \A i \in DOMAIN table[n] :
    table[n][i].ended = Never \/ table[n][i].ended >= table[n][i].started

Apply(p) ==
  LET snap == probe[p].snap
      table == [n \in Servers |-> SyncedSessions(n, snap[n])]
  IN  /\ probe[p].busy
      /\ IF CheckHolds(table)
         THEN /\ sessions' = table
              /\ row' = [n \in Servers |-> SyncedRow(n, snap[n])]
              /\ UNCHANGED refused
         ELSE /\ refused' = TRUE
              /\ UNCHANGED <<sessions, row>>
      /\ probe' = [probe EXCEPT ![p] = [busy |-> FALSE, snap |-> NoSnapshot]]
      /\ UNCHANGED <<nature, clock, starts, remote, moves>>

-----------------------------------------------------------------------------
(* UpdateHub with another URL deletes the rows of servers; the snapshots in *)
(* flight are discarded by their credential generation; server_id of the    *)
(* sessions becomes NULL.                                                   *)
Retarget ==
  /\ moves < Retargets
  /\ moves' = moves + 1
  /\ row' = [n \in Servers |-> [present |-> FALSE, running |-> FALSE, id |-> row[n].id,
                                started |-> Never]]
  /\ sessions' = [n \in Servers |-> [i \in DOMAIN sessions[n] |->
                    [sessions[n][i] EXCEPT !.server = 0]]]
  /\ remote' = [n \in Servers |-> Never]
  /\ probe' = [p \in Probes |-> [busy |-> FALSE, snap |-> NoSnapshot]]
  /\ UNCHANGED <<nature, clock, starts, refused>>

SessionsNext ==
  \/ ClockTick
  \/ \E n \in Servers : RemoteStart(n) \/ RemoteStop(n)
  \/ \E p \in Probes : Fetch(p) \/ Apply(p)
  \/ Retarget

SessionsSpec == SessionsInit /\ [][SessionsNext]_sessionVars

-----------------------------------------------------------------------------
(* Properties *)

(* A row of servers is running exactly while one open session refers to it,  *)
(* so history and inventory, written by different statements of snapshots    *)
(* in any order, never part ways.                                            *)
OpenMatchesRunning ==
  \A n \in Servers : LET open == {i \in DOMAIN sessions[n] : IsOpen(n, sessions[n][i])} IN
    /\ row[n].running <=> open # {}
    /\ \A i, j \in open : i = j

(* The table never has to refuse a snapshot of a Hub whose clock agrees and  *)
(* that reports every start, in whatever order two overlapping probes apply  *)
(* their snapshots: reconciliation does not end a session before its start.  *)
(* Of other Hubs a snapshot may be refused, and the sync with it; and so may *)
(* one of three that overlap.                                                *)
OrderlyHubsAccepted == refused => nature.skew > 0 \/ nature.omits \/ nature.overlap > 2

(* What UpdateHub leaves behind of another authority is history: a session   *)
(* without a server is over.                                                 *)
OrphansAreHistory ==
  \A n \in Servers : \A i \in DOMAIN sessions[n] :
    sessions[n][i].server = 0 => sessions[n][i].ended # Never
=============================================================================
