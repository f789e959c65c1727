--------------------------- MODULE HistoryProofs ---------------------------
(***************************************************************************)
(* Theorems about what is kept of the past: the sessions of servers        *)
(* (ServerSessions) and the consumption of every hour (UsageRollup).  The  *)
(* two components share no state; each has its inductive invariant here.   *)
(***************************************************************************)
EXTENDS ServerSessions, UsageRollup, FiniteSetTheorems, WellFoundedInduction, TLAPS

-----------------------------------------------------------------------------
(* The session history of a Hub *)

(* The positions of the open sessions of a row. *)
OpenIn(history, id) == {i \in DOMAIN history : history[i].server = id /\ history[i].ended = Never}

(* A row has one open session while it runs and none otherwise; a row that  *)
(* is made anew has an identity no session refers to.                       *)
RowSound(n, r, history) ==
  /\ r.running => r.present
  /\ r.present => r.id # 0
  /\ r.id = 0 => DOMAIN history = {}
  /\ \A i \in DOMAIN history : history[i].server <= r.id
  /\ r.running <=> OpenIn(history, r.id) # {}
  /\ \A i, j \in OpenIn(history, r.id) : i = j

Orderly == nature.skew = 0 /\ ~nature.omits /\ nature.overlap <= 2

(* Probe p brings home a start of n before t. *)
Older(p, n, t) == probe[p].busy /\ probe[p].snap[n].up /\ probe[p].snap[n].started < t

(* Of an orderly Hub, what is known of a start is past and no later than    *)
(* the running server's, and once the row of n has gone back to an older    *)
(* start than the one its session has, no probe brings another.             *)
StartsSound(n) ==
  /\ remote[n] <= clock
  /\ \A p \in Probes : probe[p].busy /\ probe[p].snap[n].up =>
       /\ probe[p].snap[n].started # Never
       /\ probe[p].snap[n].started <= clock
       /\ remote[n] # Never => probe[p].snap[n].started <= remote[n]
  /\ row[n].running => row[n].started # Never
  /\ \A i \in OpenIn(sessions[n], row[n].id) :
       LET t == sessions[n][i].started
       IN /\ t <= clock
          /\ remote[n] # Never => t <= remote[n]
          /\ \A p, q \in Probes : Older(p, n, t) /\ Older(q, n, t) => p = q
          /\ row[n].started < t => \A p \in Probes : ~Older(p, n, t)

SessionsInv ==
  /\ SessionsTypeOK
  /\ \A n \in Servers : RowSound(n, row[n], sessions[n])
  /\ CheckHolds(sessions)
  /\ Cardinality(Busy) <= nature.overlap
  /\ Orderly => ~refused /\ \A n \in Servers : StartsSound(n)

LEMMA TimesForm ==
  ASSUME SessionsTypeOK
  PROVE  /\ Times \subseteq Nat /\ 0 \notin Times /\ clock \in Times /\ Times \subseteq Reported /\ Never \in Reported
         /\ Reported \subseteq Nat /\ nature.skew \in Nat /\ clock + nature.skew \in Times
         /\ nature.overlap \in Nat /\ nature.omits \in BOOLEAN /\ clock \in Nat /\ Never = 0
BY TimeAssumption DEF SessionsTypeOK, Times, Reported, Never

LEMMA HistoryForm ==
  ASSUME NEW history \in Seq(Session)
  PROVE  /\ Len(history) \in Nat /\ DOMAIN history = 1 .. Len(history)
         /\ \A i \in DOMAIN history :
              /\ history[i] \in Session /\ history[i].server \in Nat
              /\ history[i].started \in Times /\ history[i].ended \in Reported
<1>1. /\ Len(history) \in Nat /\ DOMAIN history = 1 .. Len(history)
      /\ \A i \in DOMAIN history : history[i] \in Session
      OBVIOUS
<1>2. \A s \in Session : s.server \in Nat /\ s.started \in Times /\ s.ended \in Reported
      BY DEF Session
<1> QED
    BY <1>1, <1>2

(* A session is added at the end. *)
LEMMA AppendForm ==
  ASSUME NEW history \in Seq(Session), NEW e \in Session
  PROVE  /\ Append(history, e) \in Seq(Session)
         /\ DOMAIN Append(history, e) = DOMAIN history \cup {Len(history) + 1}
         /\ Len(history) + 1 \notin DOMAIN history
         /\ Append(history, e)[Len(history) + 1] = e
         /\ \A i \in DOMAIN history : Append(history, e)[i] = history[i]
BY HistoryForm

LEMMA ClosedForm ==
  ASSUME SessionsTypeOK, NEW n \in Servers, NEW at \in Times
  PROVE  /\ Closed(n, at) \in Seq(Session)
         /\ DOMAIN Closed(n, at) = DOMAIN sessions[n]
         /\ \A i \in DOMAIN sessions[n] :
              /\ Closed(n, at)[i].server = sessions[n][i].server
              /\ Closed(n, at)[i].started = sessions[n][i].started
              /\ i \in OpenIn(sessions[n], row[n].id) => Closed(n, at)[i].ended = at
              /\ i \notin OpenIn(sessions[n], row[n].id) => Closed(n, at)[i] = sessions[n][i]
<1> DEFINE h == sessions[n]
<1>1. h \in Seq(Session)
      BY DEF SessionsTypeOK
<1>2. /\ Len(h) \in Nat /\ DOMAIN h = 1 .. Len(h)
      /\ \A i \in DOMAIN h : h[i] \in Session
      BY <1>1, HistoryForm
<1>3. \A i \in DOMAIN h :
        /\ [h[i] EXCEPT !.ended = at] \in Session
        /\ [h[i] EXCEPT !.ended = at].server = h[i].server
        /\ [h[i] EXCEPT !.ended = at].started = h[i].started
        /\ [h[i] EXCEPT !.ended = at].ended = at
      BY <1>2 DEF Session, Reported
<1>4. Closed(n, at) = [i \in 1 .. Len(h) |->
                         IF i \in OpenIn(h, row[n].id) THEN [h[i] EXCEPT !.ended = at] ELSE h[i]]
      BY <1>2 DEF Closed, IsOpen, OpenIn
<1> HIDE DEF h
<1>5. \A i \in 1 .. Len(h) : (IF i \in OpenIn(h, row[n].id) THEN [h[i] EXCEPT !.ended = at] ELSE h[i]) \in Session
      BY <1>2, <1>3
<1>6. Closed(n, at) \in [1 .. Len(h) -> Session]
      BY <1>4, <1>5
<1>7. Closed(n, at) \in Seq(Session) /\ DOMAIN Closed(n, at) = DOMAIN h
      BY <1>2, <1>6
<1>8. \A i \in DOMAIN h :
        /\ i \in OpenIn(h, row[n].id) => Closed(n, at)[i] = [h[i] EXCEPT !.ended = at]
        /\ i \notin OpenIn(h, row[n].id) => Closed(n, at)[i] = h[i]
      BY <1>2, <1>4
<1> QED
    BY <1>3, <1>7, <1>8 DEF h

(* A session opened at the end is the one open session of its row. *)
LEMMA OpenedSound ==
  ASSUME NEW n \in Servers, NEW history \in Seq(Session), NEW e \in Session, NEW r \in ServerRow,
         e.ended = Never, r.present, r.running, r.id = e.server, e.server # 0,
         \A i \in DOMAIN history : history[i].server <= e.server, OpenIn(history, e.server) = {}
  PROVE  /\ RowSound(n, r, Append(history, e))
         /\ OpenIn(Append(history, e), e.server) = {Len(history) + 1}
<1> DEFINE longer == Append(history, e)
           last == Len(history) + 1
<1>1. /\ DOMAIN longer = DOMAIN history \cup {last} /\ last \notin DOMAIN history
      /\ longer[last] = e /\ \A i \in DOMAIN history : longer[i] = history[i]
      BY AppendForm
<1>2. e.server \in Nat
      BY DEF Session
<1> HIDE DEF longer, last
<1>3. OpenIn(longer, e.server) = {last}
      BY <1>1 DEF OpenIn
<1>4. \A i \in DOMAIN longer : longer[i].server <= e.server
      BY <1>1, <1>2
<1>5. RowSound(n, r, longer)
      BY <1>3, <1>4, <1>2 DEF RowSound
<1> QED
    BY <1>3, <1>5 DEF longer, last

(* The session a snapshot opens. *)
LEMMA OpenedForm ==
  ASSUME SessionsTypeOK, NEW n \in Servers, NEW report \in Seen
  PROVE  /\ RowId(n) \in Nat /\ row[n].id \in Nat /\ (row[n].present => RowId(n) = row[n].id)
         /\ ~row[n].present => RowId(n) = row[n].id + 1
         /\ SessionStart(n, report.started) \in Times
         /\ Opened(n, report.started) \in Session
         /\ Opened(n, report.started).server = RowId(n)
         /\ Opened(n, report.started).started = SessionStart(n, report.started)
         /\ Opened(n, report.started).ended = Never
         /\ row[n] \in ServerRow /\ row[n].present \in BOOLEAN /\ row[n].running \in BOOLEAN
         /\ row[n].started \in Reported /\ report.started \in Reported /\ report.up \in BOOLEAN
<1>1. row[n] \in ServerRow
      BY DEF SessionsTypeOK
<1>2. /\ row[n].present \in BOOLEAN /\ row[n].running \in BOOLEAN /\ row[n].id \in Nat
      /\ row[n].started \in Reported
      BY <1>1 DEF ServerRow
<1>3. report.started \in Reported /\ report.up \in BOOLEAN
      BY DEF Seen
<1>4. \A t \in Reported : t # Never => t \in Times
      BY DEF Reported
<1>5. SessionStart(n, report.started) \in Times
      BY <1>2, <1>3, <1>4, TimesForm DEF SessionStart
<1>6. /\ RowId(n) \in Nat /\ (row[n].present => RowId(n) = row[n].id)
      /\ ~row[n].present => RowId(n) = row[n].id + 1
      BY <1>2 DEF RowId
<1> DEFINE id == RowId(n)
           t == SessionStart(n, report.started)
           s == [server |-> id, started |-> t, ended |-> Never]
<1>7. Opened(n, report.started) = s
      BY DEF Opened
<1> HIDE DEF id, t
<1>8. id \in Nat /\ t \in Times /\ Never \in Reported
      BY <1>5, <1>6 DEF id, t, Reported
<1>9. s \in Session /\ s.server = id /\ s.started = t /\ s.ended = Never
      BY <1>8 DEF Session
<1> QED
    BY <1>1, <1>2, <1>3, <1>5, <1>6, <1>7, <1>9 DEF id, t

(* What a snapshot makes of the sessions of n, case by case. *)
LEMMA SyncedCases ==
  ASSUME SessionsTypeOK, NEW n \in Servers, NEW report \in Seen, RowSound(n, row[n], sessions[n])
  PROVE  /\ ~report.up /\ row[n].running => SyncedSessions(n, report) = Closed(n, clock)
         /\ ~report.up /\ ~row[n].running => SyncedSessions(n, report) = sessions[n]
         /\ report.up /\ Restarted(n, report.started) =>
              /\ report.started \in Times /\ row[n].running /\ RestartEnd(report.started) \in Times
              /\ SyncedSessions(n, report) =
                   Append(Closed(n, RestartEnd(report.started)), Opened(n, report.started))
         /\ report.up /\ row[n].running /\ ~Restarted(n, report.started) =>
              SyncedSessions(n, report) = sessions[n]
         /\ report.up /\ ~row[n].running =>
              SyncedSessions(n, report) = Append(sessions[n], Opened(n, report.started))
<1> DEFINE kept == CASE ~report.up /\ row[n].running -> Closed(n, clock)
                     [] report.up /\ Restarted(n, report.started) -> Closed(n, RestartEnd(report.started))
                     [] OTHER -> sessions[n]
           open == row[n].present /\ \E i \in DOMAIN kept : IsOpen(n, kept[i])
<1>1. SyncedSessions(n, report) = IF ~report.up \/ open THEN kept ELSE Append(kept, Opened(n, report.started))
      BY DEF SyncedSessions
<1>2. report.up \in BOOLEAN /\ row[n].running \in BOOLEAN /\ report.started \in Reported
      /\ (row[n].running => row[n].present)
      BY OpenedForm DEF RowSound
<1>4. CASE ~report.up /\ row[n].running
      BY <1>1, <1>4
<1>5. CASE ~report.up /\ ~row[n].running
      BY <1>1, <1>5
<1>6. CASE report.up /\ Restarted(n, report.started)
  <2> DEFINE at == RestartEnd(report.started)
  <2>1. report.started \in Times /\ row[n].running
        BY <1>2, <1>6 DEF Restarted, Reported
  <2>2. at \in Times
        BY <2>1, TimesForm DEF RestartEnd
  <2>3. kept = Closed(n, at)
        BY <1>6
  <2> HIDE DEF at
  <2>4. ~\E i \in DOMAIN Closed(n, at) : IsOpen(n, Closed(n, at)[i])
        BY <2>2, ClosedForm, TimesForm DEF IsOpen, OpenIn
  <2>5. ~open
        BY <2>3, <2>4
  <2> QED
      BY <1>1, <1>6, <2>1, <2>2, <2>3, <2>5 DEF at
<1>7. CASE report.up /\ row[n].running /\ ~Restarted(n, report.started)
  <2>1. kept = sessions[n]
        BY <1>7
  <2> HIDE DEF kept
  <2>2. open
        BY <1>7, <1>2, <2>1 DEF RowSound, OpenIn, IsOpen
  <2> QED
      BY <1>1, <1>7, <2>1, <2>2
<1>8. CASE report.up /\ ~row[n].running
  <2>1. kept = sessions[n] /\ ~Restarted(n, report.started)
        BY <1>8 DEF Restarted
  <2> HIDE DEF kept
  <2>2. ~open
        BY <1>8, <2>1 DEF RowSound, OpenIn, IsOpen
  <2> QED
      BY <1>1, <1>8, <2>1, <2>2
<1>9. report.up /\ Restarted(n, report.started) => row[n].running
      BY DEF Restarted
<1> HIDE DEF kept, open
<1> QED
    BY <1>4, <1>5, <1>6, <1>7, <1>8, <1>2, <1>9

(* The row a snapshot leaves. *)
LEMMA SyncedRowForm ==
  ASSUME SessionsTypeOK, NEW n \in Servers, NEW report \in Seen
  PROVE  LET r == SyncedRow(n, report)
         IN /\ r \in ServerRow
            /\ ~report.up => /\ ~r.running /\ r.present = row[n].present /\ r.id = row[n].id
                             /\ r.started = row[n].started
            /\ report.up => /\ r.running /\ r.present /\ r.id = RowId(n)
                            /\ r.started = IF report.started # Never THEN report.started ELSE row[n].started
<1> DEFINE t == IF report.started # Never THEN report.started ELSE row[n].started
           id == RowId(n)
           down == [row[n] EXCEPT !.running = FALSE]
           up == [present |-> TRUE, running |-> TRUE, id |-> id, started |-> t]
<1>1. t \in Reported /\ id \in Nat /\ row[n] \in ServerRow
      BY OpenedForm
<1>2. SyncedRow(n, report) = IF ~report.up THEN down ELSE up
      BY DEF SyncedRow
<1> HIDE DEF t, id
<1>3. /\ down \in ServerRow /\ ~down.running /\ down.present = row[n].present /\ down.id = row[n].id
      /\ down.started = row[n].started
      BY <1>1 DEF ServerRow
<1>4. up \in ServerRow /\ up.running /\ up.present /\ up.id = id /\ up.started = t
      BY <1>1 DEF ServerRow
<1> HIDE DEF down, up
<1>5. report.up \in BOOLEAN
      BY OpenedForm
<1> QED
    BY <1>2, <1>3, <1>4, <1>5 DEF t, id

(* Closing the open sessions of a row leaves none. *)
LEMMA ClosedSound ==
  ASSUME SessionsTypeOK, NEW n \in Servers, NEW at \in Times, RowSound(n, row[n], sessions[n])
  PROVE  /\ OpenIn(Closed(n, at), row[n].id) = {}
         /\ \A i \in DOMAIN Closed(n, at) : Closed(n, at)[i].server <= row[n].id
         /\ row[n].id = 0 => DOMAIN Closed(n, at) = {}
<1>1. at # Never
      BY TimesForm
<1> QED
    BY <1>1, ClosedForm DEF OpenIn, RowSound

(* No open session refers to the row that a snapshot starts. *)
LEMMA FreshSound ==
  ASSUME SessionsTypeOK, NEW n \in Servers, NEW report \in Seen, RowSound(n, row[n], sessions[n]),
         ~row[n].running
  PROVE  LET e == Opened(n, report.started)
         IN /\ OpenIn(sessions[n], e.server) = {}
            /\ \A i \in DOMAIN sessions[n] : sessions[n][i].server <= e.server
<1> DEFINE e == Opened(n, report.started)
<1>1. /\ e.server = RowId(n) /\ row[n].id \in Nat /\ row[n].present \in BOOLEAN
      /\ row[n].present => RowId(n) = row[n].id
      /\ ~row[n].present => RowId(n) = row[n].id + 1
      BY OpenedForm
<1>2. /\ \A i \in DOMAIN sessions[n] : sessions[n][i].server <= row[n].id
      /\ OpenIn(sessions[n], row[n].id) = {}
      BY DEF RowSound
<1> HIDE DEF e
<1>3. \A i \in DOMAIN sessions[n] : sessions[n][i].server \in Nat
      BY HistoryForm DEF SessionsTypeOK
<1>4. CASE row[n].present
      BY <1>1, <1>2, <1>4 DEF e
<1>5. CASE ~row[n].present
      BY <1>1, <1>2, <1>3, <1>5 DEF OpenIn, e
<1> QED
    BY <1>1, <1>4, <1>5

(* A snapshot keeps a row and its history in step. *)
LEMMA SyncedSound ==
  ASSUME SessionsTypeOK, NEW n \in Servers, NEW report \in Seen, RowSound(n, row[n], sessions[n])
  PROVE  /\ SyncedSessions(n, report) \in Seq(Session)
         /\ RowSound(n, SyncedRow(n, report), SyncedSessions(n, report))
<1> DEFINE r == SyncedRow(n, report)
           e == Opened(n, report.started)
<1>1. /\ e \in Session /\ e.server = RowId(n) /\ e.ended = Never
      /\ row[n].id \in Nat /\ RowId(n) \in Nat
      /\ row[n].present => RowId(n) = row[n].id
      /\ ~row[n].present => RowId(n) = row[n].id + 1
      /\ row[n].present \in BOOLEAN /\ row[n].running \in BOOLEAN /\ report.up \in BOOLEAN
      BY OpenedForm
<1>2. /\ r \in ServerRow
      /\ ~report.up => ~r.running /\ r.present = row[n].present /\ r.id = row[n].id
      /\ report.up => r.running /\ r.present /\ r.id = RowId(n)
      BY SyncedRowForm
<1>3. sessions[n] \in Seq(Session)
      BY DEF SessionsTypeOK
<1>4. /\ row[n].running => row[n].present
      /\ row[n].present => row[n].id # 0
      /\ \A i \in DOMAIN sessions[n] : sessions[n][i].server <= row[n].id
      /\ row[n].id = 0 => DOMAIN sessions[n] = {}
      /\ row[n].running <=> OpenIn(sessions[n], row[n].id) # {}
      BY DEF RowSound
<1>5. RowId(n) # 0
      BY <1>1, <1>4
<1> HIDE DEF e, r
<1>6. CASE ~report.up /\ row[n].running
  <2>1. SyncedSessions(n, report) = Closed(n, clock)
        BY <1>6, SyncedCases
  <2>2. Closed(n, clock) \in Seq(Session)
        BY ClosedForm, TimesForm
  <2>3. RowSound(n, r, Closed(n, clock))
        BY <1>2, <1>4, <1>6, ClosedSound, TimesForm DEF RowSound
  <2> QED
      BY <2>1, <2>2, <2>3 DEF r
<1>7. CASE ~report.up /\ ~row[n].running
  <2>1. SyncedSessions(n, report) = sessions[n]
        BY <1>7, SyncedCases
  <2>2. RowSound(n, r, sessions[n])
        BY <1>2, <1>4, <1>7 DEF RowSound
  <2> QED
      BY <1>3, <2>1, <2>2 DEF r
<1>8. CASE report.up /\ Restarted(n, report.started)
  <2> DEFINE at == RestartEnd(report.started)
  <2>1. at \in Times /\ row[n].running /\ SyncedSessions(n, report) = Append(Closed(n, at), e)
        BY <1>8, SyncedCases DEF e
  <2> HIDE DEF at
  <2>2. Closed(n, at) \in Seq(Session)
        BY <2>1, ClosedForm
  <2>3. /\ OpenIn(Closed(n, at), e.server) = {}
        /\ \A i \in DOMAIN Closed(n, at) : Closed(n, at)[i].server <= e.server
        BY <2>1, <1>1, <1>4, ClosedSound
  <2>4. RowSound(n, r, Append(Closed(n, at), e))
        BY <2>2, <2>3, <1>1, <1>2, <1>5, <1>8, OpenedSound
  <2> QED
      BY <2>1, <2>2, <2>4, <1>1 DEF r
<1>9. CASE report.up /\ row[n].running /\ ~Restarted(n, report.started)
  <2>1. SyncedSessions(n, report) = sessions[n]
        BY <1>9, SyncedCases
  <2>2. RowSound(n, r, sessions[n])
        BY <1>1, <1>2, <1>4, <1>9 DEF RowSound
  <2> QED
      BY <1>3, <2>1, <2>2 DEF r
<1>10. CASE report.up /\ ~row[n].running
  <2>1. SyncedSessions(n, report) = Append(sessions[n], e)
        BY <1>10, SyncedCases DEF e
  <2>2. /\ OpenIn(sessions[n], e.server) = {}
        /\ \A i \in DOMAIN sessions[n] : sessions[n][i].server <= e.server
        BY <1>10, FreshSound DEF e
  <2>3. RowSound(n, r, Append(sessions[n], e))
        BY <1>1, <1>2, <1>3, <1>5, <1>10, <2>2, OpenedSound
  <2> QED
      BY <2>1, <2>3, <1>1, <1>3 DEF r
<1> QED
    BY <1>1, <1>6, <1>7, <1>8, <1>9, <1>10

(* Where two probes overlap at most, a probe has at most one other beside it. *)
LEMMA OneOther ==
  ASSUME SessionsInv, nature.overlap <= 2, NEW p \in Busy, NEW q \in Busy, NEW other \in Busy,
         q # p, other # p
  PROVE  q = other
<1> SUFFICES ASSUME q # other PROVE FALSE
    OBVIOUS
<1>1. IsFiniteSet(Busy)
  <2>1. IsFiniteSet(Probes) /\ Busy \subseteq Probes
        BY TimeAssumption DEF Busy
  <2> QED
      BY <2>1, FS_Subset
<1>2. \A S, x : IsFiniteSet(S) /\ x \notin S =>
                   IsFiniteSet(S \cup {x}) /\ Cardinality(S \cup {x}) = Cardinality(S) + 1
      BY FS_AddElement
<1>3. IsFiniteSet({p}) /\ Cardinality({p}) = 1
      BY FS_Singleton
<1>4. IsFiniteSet({p} \cup {q}) /\ Cardinality({p} \cup {q}) = 2
  <2>1. q \notin {p}
        OBVIOUS
  <2> QED
      BY <1>2, <1>3, <2>1
<1>5. IsFiniteSet({p} \cup {q} \cup {other}) /\ Cardinality({p} \cup {q} \cup {other}) = 3
  <2>1. other \notin {p} \cup {q}
        OBVIOUS
  <2> QED
      BY <1>2, <1>4, <2>1
<1>6. Cardinality({p} \cup {q} \cup {other}) <= Cardinality(Busy)
  <2>1. {p} \cup {q} \cup {other} \subseteq Busy
        OBVIOUS
  <2> QED
      BY <1>1, <2>1, FS_Subset
<1>7. Cardinality(Busy) \in Nat /\ nature.overlap \in Nat /\ Cardinality(Busy) <= nature.overlap
      BY <1>1, FS_CardinalityType, TimesForm DEF SessionsInv
<1> QED
    BY <1>5, <1>6, <1>7

(* The report of n that probe p brings home. *)
LEMMA ReportForm ==
  ASSUME SessionsTypeOK, NEW p \in Probes
  PROVE  /\ probe[p] \in [busy: BOOLEAN, snap: [Servers -> Seen]] /\ probe[p].busy \in BOOLEAN
         /\ \A n \in Servers : /\ probe[p].snap[n] \in Seen
                               /\ probe[p].snap[n].up \in BOOLEAN /\ probe[p].snap[n].started \in Reported
<1>1. probe[p] \in [busy: BOOLEAN, snap: [Servers -> Seen]]
      BY DEF SessionsTypeOK
<1>2. probe[p].busy \in BOOLEAN /\ probe[p].snap \in [Servers -> Seen]
      BY <1>1
<1>3. \A s \in Seen : s.up \in BOOLEAN /\ s.started \in Reported
      BY DEF Seen
<1> QED
    BY <1>1, <1>2, <1>3

(* How starts compare: on an orderly Hub a restart is no earlier than the   *)
(* session it ends, and a session starts when its report says.              *)
LEMMA RestartAfterStart ==
  ASSUME SessionsInv, Orderly, NEW p \in Busy, NEW n \in Servers,
         probe[p].snap[n].up, Restarted(n, probe[p].snap[n].started),
         NEW i \in OpenIn(sessions[n], row[n].id)
  PROVE  RestartEnd(probe[p].snap[n].started) >= sessions[n][i].started
<1> DEFINE x == probe[p].snap[n].started
           t == sessions[n][i].started
           s == row[n].started
<1>1. p \in Probes /\ probe[p].busy
      BY DEF Busy
<1>2. x \in Nat /\ s \in Nat /\ t \in Nat /\ clock \in Nat /\ Slack \in Nat
  <2>1. SessionsTypeOK /\ sessions[n] \in Seq(Session) /\ row[n] \in ServerRow
        BY DEF SessionsInv, SessionsTypeOK
  <2>2. t \in Times /\ s \in Reported /\ x \in Reported
        BY <2>1, <1>1, HistoryForm, ReportForm DEF OpenIn, ServerRow
  <2> QED
      BY <2>1, <2>2, TimesForm, TimeAssumption
<1>3. /\ t <= clock /\ x <= clock /\ s # Never
      /\ s < t => ~Older(p, n, t)
  <2>1. StartsSound(n) /\ row[n].running
        BY DEF SessionsInv, Restarted
  <2> QED
      BY <2>1, <1>1 DEF StartsSound
<1>4. s = Never \/ x > s + Slack
      BY DEF Restarted
<1>5. x >= t
      BY <1>1, <1>2, <1>3, <1>4 DEF Older
<1> QED
    BY <1>2, <1>3, <1>5 DEF RestartEnd

(* A session that an orderly Hub's report opens starts when the report says. *)
LEMMA OpenedStart ==
  ASSUME SessionsInv, Orderly, NEW p \in Busy, NEW n \in Servers, probe[p].snap[n].up
  PROVE  LET x == probe[p].snap[n].started
         IN /\ x # Never /\ x <= clock /\ (remote[n] # Never => x <= remote[n])
            /\ SessionStart(n, x) = x
<1> DEFINE x == probe[p].snap[n].started
<1>1. p \in Probes /\ probe[p].busy /\ SessionsTypeOK /\ StartsSound(n)
      BY DEF Busy, SessionsInv
<1>2. x # Never /\ x <= clock /\ (remote[n] # Never => x <= remote[n])
      BY <1>1 DEF StartsSound
<1>3. x \in Nat /\ clock \in Nat /\ Future \in Nat
      BY <1>1, ReportForm, TimesForm, TimeAssumption
<1> HIDE DEF x
<1>4. SessionStart(n, x) = x
      BY <1>2, <1>3 DEF SessionStart
<1> QED
    BY <1>2, <1>4 DEF x

(* No session ends before it starts, once an orderly Hub's snapshot is in. *)
LEMMA SyncedAccepted ==
  ASSUME SessionsInv, Orderly, NEW p \in Busy, NEW n \in Servers
  PROVE  LET table == SyncedSessions(n, probe[p].snap[n])
         IN \A i \in DOMAIN table : table[i].ended = Never \/ table[i].ended >= table[i].started
<1> DEFINE report == probe[p].snap[n]
           h == sessions[n]
           open == OpenIn(h, row[n].id)
           e == Opened(n, report.started)
           Fair(table) == \A i \in DOMAIN table : table[i].ended = Never \/ table[i].ended >= table[i].started
<1>1. /\ p \in Probes /\ probe[p].busy /\ SessionsTypeOK /\ StartsSound(n) /\ RowSound(n, row[n], h)
      /\ h \in Seq(Session)
      BY DEF Busy, SessionsInv, SessionsTypeOK
<1>2. report \in Seen
      BY <1>1, ReportForm
<1>3. e \in Session /\ e.ended = Never /\ row[n].running \in BOOLEAN /\ report.up \in BOOLEAN
      BY <1>1, <1>2, OpenedForm
<1>4. Fair(h)
      BY DEF SessionsInv, CheckHolds
<1>5. \A at \in Times : (\A i \in open : at >= h[i].started) => Fair(Closed(n, at))
  <2> SUFFICES ASSUME NEW at \in Times, \A i \in open : at >= h[i].started,
                      NEW i \in DOMAIN Closed(n, at)
               PROVE  Closed(n, at)[i].ended = Never \/ Closed(n, at)[i].ended >= Closed(n, at)[i].started
      OBVIOUS
  <2>1. /\ i \in DOMAIN h /\ Closed(n, at)[i].started = h[i].started
        /\ i \in open => Closed(n, at)[i].ended = at
        /\ i \notin open => Closed(n, at)[i] = h[i]
        BY <1>1, ClosedForm
  <2> QED
      BY <2>1, <1>4
<1>6. \A table \in Seq(Session) : Fair(table) => Fair(Append(table, e))
  <2> SUFFICES ASSUME NEW table \in Seq(Session), Fair(table) PROVE Fair(Append(table, e))
      OBVIOUS
  <2> QED
      BY <1>3, AppendForm
<1> HIDE DEF e, Fair
<1>7. CASE ~report.up /\ row[n].running
  <2>1. \A i \in open : clock >= h[i].started
    <3>1. \A i \in open : h[i].started <= clock /\ h[i].started \in Nat /\ clock \in Nat
          BY <1>1, HistoryForm, TimesForm DEF StartsSound, OpenIn
    <3> QED
        BY <3>1
  <2> QED
      BY <1>1, <1>2, <1>5, <1>7, <2>1, SyncedCases, TimesForm DEF Fair
<1>8. CASE ~report.up /\ ~row[n].running
      BY <1>1, <1>2, <1>4, <1>8, SyncedCases DEF Fair
<1>9. CASE report.up /\ Restarted(n, report.started)
  <2> DEFINE at == RestartEnd(report.started)
  <2>1. at \in Times /\ SyncedSessions(n, report) = Append(Closed(n, at), e)
        BY <1>1, <1>2, <1>9, SyncedCases DEF e
  <2>2. \A i \in open : at >= h[i].started
        BY <1>9, RestartAfterStart
  <2>3. Fair(Closed(n, at)) /\ Closed(n, at) \in Seq(Session)
        BY <1>1, <1>5, <2>1, <2>2, ClosedForm
  <2> QED
      BY <1>6, <2>1, <2>3 DEF Fair
<1>10. CASE report.up /\ row[n].running /\ ~Restarted(n, report.started)
      BY <1>1, <1>2, <1>4, <1>10, SyncedCases DEF Fair
<1>11. CASE report.up /\ ~row[n].running
      BY <1>1, <1>2, <1>4, <1>6, <1>11, SyncedCases DEF Fair, e
<1> QED
    BY <1>3, <1>7, <1>8, <1>9, <1>10, <1>11

(* What is known of the starts of n is as it was, once the snapshot of p is *)
(* in and p has nothing in flight.                                          *)
LEMMA SyncedStarts ==
  ASSUME SessionsInv, Orderly, NEW p \in Busy, NEW n \in Servers
  PROVE  LET r == SyncedRow(n, probe[p].snap[n])
             table == SyncedSessions(n, probe[p].snap[n])
         IN /\ r.running => r.started # Never
            /\ \A i \in OpenIn(table, r.id) :
                 LET t == table[i].started
                 IN /\ t <= clock
                    /\ remote[n] # Never => t <= remote[n]
                    /\ \A q, other \in Probes \ {p} : Older(q, n, t) /\ Older(other, n, t) => q = other
                    /\ r.started < t => \A q \in Probes \ {p} : ~Older(q, n, t)
<1> DEFINE report == probe[p].snap[n]
           x == report.started
           h == sessions[n]
           r == SyncedRow(n, report)
           e == Opened(n, x)
           Told(t, s) == /\ t <= clock
                         /\ remote[n] # Never => t <= remote[n]
                         /\ \A q, other \in Probes \ {p} : Older(q, n, t) /\ Older(other, n, t) => q = other
                         /\ s < t => \A q \in Probes \ {p} : ~Older(q, n, t)
<1>1. /\ p \in Probes /\ probe[p].busy /\ SessionsTypeOK /\ StartsSound(n) /\ RowSound(n, row[n], h)
      /\ h \in Seq(Session)
      BY DEF Busy, SessionsInv, SessionsTypeOK
<1>2. report \in Seen /\ x \in Nat /\ row[n].started \in Nat /\ report.up \in BOOLEAN
      BY <1>1, ReportForm, OpenedForm, TimesForm
<1>3. /\ e \in Session /\ e.server = RowId(n) /\ e.ended = Never /\ e.started = SessionStart(n, x)
      /\ row[n].running \in BOOLEAN /\ (row[n].present => RowId(n) = row[n].id)
      BY <1>1, <1>2, OpenedForm
<1>4. /\ ~report.up => ~r.running /\ r.id = row[n].id
      /\ report.up => r.running /\ r.present /\ r.id = RowId(n)
                      /\ r.started = IF x # Never THEN x ELSE row[n].started
      BY <1>1, <1>2, SyncedRowForm
<1>5. report.up => x # Never /\ e.started = x /\ r.started = x /\ Told(x, x)
  <2> SUFFICES ASSUME report.up PROVE x # Never /\ e.started = x /\ r.started = x /\ Told(x, x)
      OBVIOUS
  <2>1. /\ x # Never /\ x <= clock /\ (remote[n] # Never => x <= remote[n])
        /\ SessionStart(n, x) = x
        BY OpenedStart
  <2>2. \A q, other \in Probes \ {p} : Older(q, n, x) /\ Older(other, n, x) => q = other
        BY OneOther DEF Older, Busy, Orderly
  <2>3. ~(x < x)
        BY <1>2
  <2> QED
      BY <1>3, <1>4, <2>1, <2>2, <2>3
<1>6. RowSound(n, r, SyncedSessions(n, report))
      BY <1>1, <1>2, SyncedSound
<1> HIDE DEF e, r, Told
<1>7. r.running => r.started # Never
      BY <1>2, <1>4, <1>5
<1>8. CASE ~report.up
  <2>1. OpenIn(SyncedSessions(n, report), r.id) = {}
        BY <1>4, <1>6, <1>8 DEF RowSound
  <2> QED
      BY <1>7, <2>1 DEF r
<1>9. ASSUME NEW table \in Seq(Session), report.up, OpenIn(table, e.server) = {},
             \A i \in DOMAIN table : table[i].server <= e.server,
             SyncedSessions(n, report) = Append(table, e)
      PROVE  \A i \in OpenIn(SyncedSessions(n, report), r.id) :
               Told(SyncedSessions(n, report)[i].started, r.started)
  <2>1. OpenIn(Append(table, e), e.server) \subseteq {Len(table) + 1}
    <3>1. DOMAIN Append(table, e) = DOMAIN table \cup {Len(table) + 1}
          /\ \A i \in DOMAIN table : Append(table, e)[i] = table[i]
          BY <1>3, AppendForm
    <3> QED
        BY <1>9, <3>1 DEF OpenIn
  <2>2. Append(table, e)[Len(table) + 1] = e
        BY <1>3, AppendForm
  <2>3. r.id = e.server
        BY <1>3, <1>4, <1>9
  <2> QED
      BY <1>5, <1>9, <2>1, <2>2, <2>3
<1>10. CASE report.up /\ Restarted(n, x)
  <2> DEFINE at == RestartEnd(x)
  <2>1. at \in Times /\ row[n].running /\ SyncedSessions(n, report) = Append(Closed(n, at), e)
        BY <1>1, <1>2, <1>10, SyncedCases DEF e
  <2> HIDE DEF at
  <2>2. Closed(n, at) \in Seq(Session)
        BY <1>1, <2>1, ClosedForm
  <2>3. e.server = row[n].id
        BY <1>1, <1>3, <2>1 DEF RowSound
  <2>4. OpenIn(Closed(n, at), e.server) = {} /\ \A i \in DOMAIN Closed(n, at) : Closed(n, at)[i].server <= e.server
        BY <1>1, <2>1, <2>3, ClosedSound
  <2>5. \A i \in OpenIn(SyncedSessions(n, report), r.id) :
          Told(SyncedSessions(n, report)[i].started, r.started)
        BY <1>9, <1>10, <2>1, <2>2, <2>4
  <2> QED
      BY <1>7, <2>5 DEF r, Told
<1>11. CASE report.up /\ row[n].running /\ ~Restarted(n, x)
  <2>1. SyncedSessions(n, report) = h /\ r.id = row[n].id
        BY <1>1, <1>2, <1>3, <1>4, <1>11, SyncedCases DEF RowSound
  <2>2. ASSUME NEW i \in OpenIn(h, row[n].id)
        PROVE  Told(h[i].started, x)
    <3> DEFINE t == h[i].started
    <3>1. /\ t <= clock /\ (remote[n] # Never => t <= remote[n])
          /\ \A q, other \in Probes : Older(q, n, t) /\ Older(other, n, t) => q = other
          BY <1>1 DEF StartsSound
    <3>2. x < t => Older(p, n, t)
          BY <1>1, <1>11 DEF Older
    <3> QED
        BY <1>1, <3>1, <3>2 DEF Told
  <2> QED
      BY <1>5, <1>7, <1>11, <2>1, <2>2 DEF r, Told
<1>12. CASE report.up /\ ~row[n].running
  <2>1. SyncedSessions(n, report) = Append(h, e)
        BY <1>1, <1>2, <1>12, SyncedCases DEF e
  <2>2. OpenIn(h, e.server) = {} /\ \A i \in DOMAIN h : h[i].server <= e.server
        BY <1>1, <1>2, <1>12, FreshSound DEF e
  <2>3. \A i \in OpenIn(SyncedSessions(n, report), r.id) :
          Told(SyncedSessions(n, report)[i].started, r.started)
        BY <1>1, <1>9, <1>12, <2>1, <2>2
  <2> QED
      BY <1>7, <2>3 DEF r, Told
<1> QED
    BY <1>2, <1>3, <1>8, <1>10, <1>11, <1>12

(* Applying a snapshot *)
LEMMA ApplyStep ==
  ASSUME SessionsInv, NEW p \in Probes, Apply(p)
  PROVE  SessionsInv'
<1> DEFINE Snap(n) == probe[p].snap[n]
           table == [n \in Servers |-> SyncedSessions(n, Snap(n))]
           rows == [n \in Servers |-> SyncedRow(n, Snap(n))]
           idle == [busy |-> FALSE, snap |-> NoSnapshot]
<1>1. /\ SessionsTypeOK /\ CheckHolds(sessions) /\ Cardinality(Busy) <= nature.overlap
      /\ \A n \in Servers : RowSound(n, row[n], sessions[n])
      BY DEF SessionsInv
<1>2. /\ p \in Busy
      /\ IF CheckHolds(table) THEN sessions' = table /\ row' = rows /\ refused' = refused
         ELSE refused' = TRUE /\ sessions' = sessions /\ row' = row
      /\ probe' = [probe EXCEPT ![p] = idle]
      /\ UNCHANGED <<nature, clock, starts, remote, moves>>
      BY DEF Apply, Busy
<1>3. /\ probe' \in [Probes -> [busy: BOOLEAN, snap: [Servers -> Seen]]]
      /\ probe'[p] = idle /\ ~idle.busy /\ \A q \in Probes \ {p} : probe'[q] = probe[q]
  <2>1. idle \in [busy: BOOLEAN, snap: [Servers -> Seen]] /\ ~idle.busy
        BY DEF NoSnapshot, Down, Seen, Reported
  <2>2. probe \in [Probes -> [busy: BOOLEAN, snap: [Servers -> Seen]]]
        BY <1>1 DEF SessionsTypeOK
  <2> HIDE DEF idle
  <2> QED
      BY <1>2, <2>1, <2>2
<1>4. \A n \in Servers : /\ SyncedSessions(n, Snap(n)) \in Seq(Session)
                         /\ SyncedRow(n, Snap(n)) \in ServerRow
                         /\ RowSound(n, SyncedRow(n, Snap(n)), SyncedSessions(n, Snap(n)))
  <2> TAKE n \in Servers
  <2>1. Snap(n) \in Seen
        BY <1>1, ReportForm
  <2> QED
      BY <1>1, <2>1, SyncedSound, SyncedRowForm
<1>5. SessionsTypeOK'
  <2>1. sessions' \in [Servers -> Seq(Session)] /\ row' \in [Servers -> ServerRow] /\ refused' \in BOOLEAN
    <3>1. CASE CheckHolds(table)
          BY <1>1, <1>2, <1>4, <3>1 DEF SessionsTypeOK
    <3>2. CASE ~CheckHolds(table)
          BY <1>1, <1>2, <3>2 DEF SessionsTypeOK
    <3> QED
        BY <3>1, <3>2
  <2> QED
      BY <1>1, <1>2, <1>3, <2>1 DEF SessionsTypeOK
<1>6. \A n \in Servers : RowSound(n, row'[n], sessions'[n])
  <2>1. CASE CheckHolds(table)
        BY <1>2, <1>4, <2>1
  <2>2. CASE ~CheckHolds(table)
        BY <1>1, <1>2, <2>2
  <2> QED
      BY <2>1, <2>2
<1>7. CheckHolds(sessions')
      BY <1>1, <1>2
<1>8. Cardinality(Busy') <= nature'.overlap
  <2>1. Busy' \subseteq Busy
        BY <1>3 DEF Busy
  <2>2. IsFiniteSet(Busy)
    <3>1. IsFiniteSet(Probes) /\ Busy \subseteq Probes
          BY TimeAssumption DEF Busy
    <3> QED
        BY <3>1, FS_Subset
  <2>3. Cardinality(Busy') <= Cardinality(Busy) /\ IsFiniteSet(Busy')
        BY <2>1, <2>2, FS_Subset
  <2>4. Cardinality(Busy) \in Nat /\ Cardinality(Busy') \in Nat /\ nature.overlap \in Nat
        BY <1>1, <2>2, <2>3, FS_CardinalityType, TimesForm
  <2> HIDE DEF table, rows, idle
  <2> QED
      BY <1>1, <1>2, <2>3, <2>4
<1>9. ASSUME Orderly' PROVE ~refused' /\ \A n \in Servers : StartsSound(n)'
  <2>1. Orderly /\ ~refused /\ \A n \in Servers : StartsSound(n)
        BY <1>2, <1>9 DEF Orderly, SessionsInv
  <2>2. CheckHolds(table)
    <3>1. \A n \in Servers : \A i \in DOMAIN SyncedSessions(n, Snap(n)) :
            LET t == SyncedSessions(n, Snap(n)) IN t[i].ended = Never \/ t[i].ended >= t[i].started
          BY <1>2, <2>1, SyncedAccepted
    <3> QED
        BY <3>1 DEF CheckHolds
  <2>3. ~refused' /\ sessions' = table /\ row' = rows
        BY <1>2, <2>1, <2>2
  <2>4. ASSUME NEW n \in Servers PROVE StartsSound(n)'
    <3> DEFINE r == SyncedRow(n, Snap(n))
               h == SyncedSessions(n, Snap(n))
    <3>1. /\ r.running => r.started # Never
          /\ \A i \in OpenIn(h, r.id) :
               /\ h[i].started <= clock
               /\ remote[n] # Never => h[i].started <= remote[n]
               /\ \A q, other \in Probes \ {p} :
                    Older(q, n, h[i].started) /\ Older(other, n, h[i].started) => q = other
               /\ r.started < h[i].started => \A q \in Probes \ {p} : ~Older(q, n, h[i].started)
          BY <1>2, <2>1, SyncedStarts
    <3>2. row'[n] = r /\ sessions'[n] = h
          BY <2>3
    <3>3. \A q \in Probes : q = p => ~probe'[q].busy
          BY <1>3
    <3>4. \A q \in Probes \ {p} : probe'[q] = probe[q]
          BY <1>3
    <3>5. /\ remote[n] <= clock
          /\ \A q \in Probes : probe[q].busy /\ probe[q].snap[n].up =>
               /\ probe[q].snap[n].started # Never
               /\ probe[q].snap[n].started <= clock
               /\ remote[n] # Never => probe[q].snap[n].started <= remote[n]
          BY <2>1 DEF StartsSound
    <3> HIDE DEF r, h, table, rows, idle
    <3>6. \A q \in Probes : probe'[q].busy /\ probe'[q].snap[n].up =>
               /\ probe'[q].snap[n].started # Never
               /\ probe'[q].snap[n].started <= clock
               /\ remote[n] # Never => probe'[q].snap[n].started <= remote[n]
          BY <3>3, <3>4, <3>5
    <3>7. \A i \in OpenIn(h, r.id) :
            LET t == h[i].started
                Past(q) == probe'[q].busy /\ probe'[q].snap[n].up /\ probe'[q].snap[n].started < t
            IN /\ t <= clock /\ (remote[n] # Never => t <= remote[n])
               /\ \A q, other \in Probes : Past(q) /\ Past(other) => q = other
               /\ r.started < t => \A q \in Probes : ~Past(q)
          BY <3>1, <3>3, <3>4 DEF Older
    <3>8. clock' = clock /\ remote' = remote
          BY <1>2
    <3> QED
        BY <3>1, <3>2, <3>5, <3>6, <3>7, <3>8 DEF StartsSound, OpenIn, Older
  <2> QED
      BY <2>3, <2>4
<1> HIDE DEF table, rows, idle
<1> QED
    BY <1>5, <1>6, <1>7, <1>8, <1>9 DEF SessionsInv, RowSound, OpenIn, CheckHolds

(* Fetching a snapshot *)
LEMMA FetchStep ==
  ASSUME SessionsInv, NEW p \in Probes, Fetch(p)
  PROVE  SessionsInv'
<1>1. /\ SessionsTypeOK /\ CheckHolds(sessions) /\ Cardinality(Busy) <= nature.overlap
      /\ \A n \in Servers : RowSound(n, row[n], sessions[n])
      BY DEF SessionsInv
<1>2. PICK snap \in [Servers -> UNION {Reports(n) : n \in Servers}] :
        /\ \A n \in Servers : snap[n] \in Reports(n)
        /\ probe' = [probe EXCEPT ![p] = [busy |-> TRUE, snap |-> snap]]
      BY DEF Fetch
<1>3. /\ ~probe[p].busy /\ Cardinality(Busy) < nature.overlap
      /\ UNCHANGED <<nature, clock, starts, remote, row, sessions, moves, refused>>
      BY DEF Fetch
<1>4. \A n \in Servers :
        /\ snap[n] \in Seen
        /\ snap[n].up => remote[n] # Never /\ snap[n].started \in {remote[n], Never}
                         /\ (~nature.omits => snap[n].started = remote[n])
  <2> TAKE n \in Servers
  <2>1. remote[n] \in Reported /\ Never \in Reported
        BY <1>1, TimesForm DEF SessionsTypeOK
  <2>2. \A t \in Reported : /\ [up |-> TRUE, started |-> t] \in Seen
                            /\ [up |-> TRUE, started |-> t].started = t /\ [up |-> TRUE, started |-> t].up
        BY DEF Seen
  <2>3. Down \in Seen /\ ~Down.up
        BY <2>1 DEF Down, Seen
  <2>4. CASE remote[n] = Never
        BY <1>2, <2>3, <2>4 DEF Reports
  <2>5. CASE remote[n] # Never
    <3>1. PICK t \in {remote[n]} \cup (IF nature.omits THEN {Never} ELSE {}) :
            snap[n] = [up |-> TRUE, started |-> t]
          BY <1>2, <2>5 DEF Reports
    <3>2. t \in {remote[n], Never} /\ (~nature.omits => t = remote[n])
          OBVIOUS
    <3> QED
        BY <2>1, <2>2, <2>5, <3>1, <3>2
  <2> QED
      BY <2>4, <2>5
<1> DEFINE loaded == [busy |-> TRUE, snap |-> snap]
<1>5. /\ loaded \in [busy: BOOLEAN, snap: [Servers -> Seen]] /\ loaded.busy /\ loaded.snap = snap
      /\ probe' = [probe EXCEPT ![p] = loaded]
  <2>1. snap \in [Servers -> Seen]
        BY <1>4
  <2> QED
      BY <1>2, <2>1
<1> HIDE DEF loaded
<1>6. /\ probe' \in [Probes -> [busy: BOOLEAN, snap: [Servers -> Seen]]]
      /\ probe'[p] = loaded /\ \A q \in Probes \ {p} : probe'[q] = probe[q]
  <2>1. probe \in [Probes -> [busy: BOOLEAN, snap: [Servers -> Seen]]]
        BY <1>1 DEF SessionsTypeOK
  <2> QED
      BY <1>5, <2>1
<1>7. SessionsTypeOK'
      BY <1>1, <1>3, <1>6 DEF SessionsTypeOK
<1>8. Cardinality(Busy') <= nature.overlap
  <2>1. Busy' = Busy \cup {p} /\ p \notin Busy
        BY <1>3, <1>5, <1>6 DEF Busy
  <2>2. IsFiniteSet(Busy)
    <3>1. IsFiniteSet(Probes) /\ Busy \subseteq Probes
          BY TimeAssumption DEF Busy
    <3> QED
        BY <3>1, FS_Subset
  <2>3. Cardinality(Busy \cup {p}) = Cardinality(Busy) + 1 /\ Cardinality(Busy) \in Nat
        BY <2>1, <2>2, FS_AddElement, FS_CardinalityType
  <2>4. nature.overlap \in Nat
        BY <1>1, TimesForm
  <2> QED
      BY <1>3, <2>1, <2>3, <2>4
<1>9. ASSUME Orderly' PROVE ~refused' /\ \A n \in Servers : StartsSound(n)'
  <2>1. Orderly /\ ~refused /\ \A n \in Servers : StartsSound(n)
        BY <1>3, <1>9 DEF Orderly, SessionsInv
  <2>2. ASSUME NEW n \in Servers PROVE StartsSound(n)'
    <3>1. /\ remote[n] <= clock
          /\ \A q \in Probes : probe[q].busy /\ probe[q].snap[n].up =>
               /\ probe[q].snap[n].started # Never
               /\ probe[q].snap[n].started <= clock
               /\ remote[n] # Never => probe[q].snap[n].started <= remote[n]
          /\ row[n].running => row[n].started # Never
          /\ \A i \in OpenIn(sessions[n], row[n].id) :
               LET t == sessions[n][i].started
               IN /\ t <= clock
                  /\ remote[n] # Never => t <= remote[n]
                  /\ \A q, other \in Probes : Older(q, n, t) /\ Older(other, n, t) => q = other
                  /\ row[n].started < t => \A q \in Probes : ~Older(q, n, t)
          BY <2>1 DEF StartsSound
    <3>2. probe'[p].busy /\ probe'[p].snap[n] = snap[n]
          BY <1>5, <1>6
    <3>3. snap[n].up => snap[n].started = remote[n] /\ remote[n] # Never
          BY <1>4, <2>1 DEF Orderly
    <3>4. remote[n] \in Nat
          BY <1>1, TimesForm DEF SessionsTypeOK
    <3>5. \A q \in Probes : probe'[q].busy /\ probe'[q].snap[n].up =>
               /\ probe'[q].snap[n].started # Never
               /\ probe'[q].snap[n].started <= clock
               /\ remote[n] # Never => probe'[q].snap[n].started <= remote[n]
      <4> TAKE q \in Probes
      <4>1. CASE q = p
            BY <3>1, <3>2, <3>3, <3>4, <4>1
      <4>2. CASE q # p
            BY <1>6, <3>1, <4>2
      <4> QED
          BY <4>1, <4>2
    <3>6. ASSUME NEW i \in OpenIn(sessions[n], row[n].id), NEW q \in Probes, probe'[q].busy,
                 probe'[q].snap[n].up, probe'[q].snap[n].started < sessions[n][i].started
          PROVE  Older(q, n, sessions[n][i].started)
      <4>1. sessions[n][i].started \in Nat
        <5>1. sessions[n] \in Seq(Session)
              BY <1>1 DEF SessionsTypeOK
        <5> QED
            BY <1>1, <5>1, HistoryForm, TimesForm DEF OpenIn
      <4>2. q # p
            BY <3>1, <3>2, <3>3, <3>4, <3>6, <4>1
      <4> QED
          BY <1>6, <3>6, <4>2 DEF Older
    <3>7. \A i \in OpenIn(sessions[n], row[n].id) :
            LET t == sessions[n][i].started
                Past(q) == probe'[q].busy /\ probe'[q].snap[n].up /\ probe'[q].snap[n].started < t
            IN /\ t <= clock /\ (remote[n] # Never => t <= remote[n])
               /\ \A q, other \in Probes : Past(q) /\ Past(other) => q = other
               /\ row[n].started < t => \A q \in Probes : ~Past(q)
          BY <3>1, <3>6
    <3> QED
        BY <1>3, <3>1, <3>5, <3>7 DEF StartsSound, OpenIn, Older
  <2> QED
      BY <1>3, <2>1, <2>2
<1> QED
    BY <1>1, <1>3, <1>7, <1>8, <1>9 DEF SessionsInv, RowSound, OpenIn, CheckHolds

(* The remote Hub and the clock *)
LEMMA HubStep ==
  ASSUME SessionsInv, ClockTick \/ \E n \in Servers : RemoteStart(n) \/ RemoteStop(n)
  PROVE  SessionsInv'
<1>1. /\ SessionsTypeOK /\ CheckHolds(sessions) /\ Cardinality(Busy) <= nature.overlap
      /\ \A n \in Servers : RowSound(n, row[n], sessions[n])
      BY DEF SessionsInv
<1>2. UNCHANGED <<nature, row, sessions, probe, moves, refused>>
      BY DEF ClockTick, RemoteStart, RemoteStop
<1>3. /\ clock \in Nat /\ clock' \in Nat /\ clock' \in 1 .. LastTime /\ clock <= clock'
      /\ starts' \in 0 .. MaxStarts /\ remote' \in [Servers -> Reported]
      /\ \A n \in Servers : remote'[n] \in {remote[n], Never, clock + nature.skew}
                            /\ (remote'[n] = remote[n] \/ remote'[n] = Never \/ clock' = clock)
  <2>1. CASE ClockTick
        BY <1>1, <2>1, TimeAssumption DEF ClockTick, SessionsTypeOK
  <2>2. ASSUME NEW n \in Servers, RemoteStart(n) \/ RemoteStop(n)
        PROVE  /\ clock' = clock /\ starts' \in 0 .. MaxStarts
               /\ remote' \in [Servers -> Reported]
               /\ \A m \in Servers : remote'[m] \in {remote[m], Never, clock + nature.skew}
    <3>1. /\ remote \in [Servers -> Reported] /\ starts \in 0 .. MaxStarts
          /\ clock + nature.skew \in Reported /\ Never \in Reported
          BY <1>1, TimesForm DEF SessionsTypeOK
    <3>2. PICK t \in Reported : remote' = [remote EXCEPT ![n] = t] /\ t \in {Never, clock + nature.skew}
          BY <2>2, <3>1 DEF RemoteStart, RemoteStop
    <3>3. clock' = clock /\ starts' \in 0 .. MaxStarts
          BY <2>2, <3>1, TimeAssumption DEF RemoteStart, RemoteStop
    <3> QED
        BY <3>1, <3>2, <3>3
  <2>3. clock \in Nat /\ clock \in 1 .. LastTime
        BY <1>1, TimesForm DEF SessionsTypeOK
  <2> QED
      BY <2>1, <2>2, <2>3
<1>4. SessionsTypeOK'
      BY <1>1, <1>2, <1>3 DEF SessionsTypeOK
<1>5. ASSUME Orderly' PROVE ~refused' /\ \A n \in Servers : StartsSound(n)'
  <2>1. Orderly /\ ~refused /\ \A n \in Servers : StartsSound(n)
        BY <1>2, <1>5 DEF Orderly, SessionsInv
  <2>2. ASSUME NEW n \in Servers PROVE StartsSound(n)'
    <3>1. remote[n] \in Nat /\ Never = 0 /\ clock + nature.skew = clock
      <4>1. remote[n] \in Reported
            BY <1>1 DEF SessionsTypeOK
      <4> QED
          BY <1>1, <2>1, <4>1, TimesForm DEF Orderly
    <3>2. /\ remote[n] <= clock
          /\ \A q \in Probes : probe[q].busy /\ probe[q].snap[n].up =>
               /\ probe[q].snap[n].started # Never
               /\ probe[q].snap[n].started <= clock
               /\ remote[n] # Never => probe[q].snap[n].started <= remote[n]
          /\ row[n].running => row[n].started # Never
          /\ \A i \in OpenIn(sessions[n], row[n].id) :
               LET t == sessions[n][i].started
               IN /\ t <= clock
                  /\ remote[n] # Never => t <= remote[n]
                  /\ \A q, other \in Probes : Older(q, n, t) /\ Older(other, n, t) => q = other
                  /\ row[n].started < t => \A q \in Probes : ~Older(q, n, t)
          BY <2>1 DEF StartsSound
    <3>3. /\ remote'[n] <= clock'
          /\ \A t \in Nat : t <= clock /\ (remote[n] # Never => t <= remote[n]) =>
               t <= clock' /\ (remote'[n] # Never => t <= remote'[n])
          BY <1>3, <3>1, <3>2
    <3>4. \A q \in Probes : probe[q].snap[n].started \in Nat
          BY <1>1, ReportForm, TimesForm
    <3>5. \A i \in OpenIn(sessions[n], row[n].id) : sessions[n][i].started \in Nat
      <4>1. sessions[n] \in Seq(Session)
            BY <1>1 DEF SessionsTypeOK
      <4> QED
          BY <1>1, <4>1, HistoryForm, TimesForm DEF OpenIn
    <3>6. \A q \in Probes : probe[q].busy /\ probe[q].snap[n].up =>
               /\ probe[q].snap[n].started # Never
               /\ probe[q].snap[n].started <= clock'
               /\ remote'[n] # Never => probe[q].snap[n].started <= remote'[n]
          BY <3>2, <3>3, <3>4
    <3>7. \A i \in OpenIn(sessions[n], row[n].id) :
               LET t == sessions[n][i].started
               IN /\ t <= clock'
                  /\ remote'[n] # Never => t <= remote'[n]
                  /\ \A q, other \in Probes : Older(q, n, t) /\ Older(other, n, t) => q = other
                  /\ row[n].started < t => \A q \in Probes : ~Older(q, n, t)
          BY <3>2, <3>3, <3>5
    <3> QED
        BY <1>2, <3>2, <3>3, <3>6, <3>7 DEF StartsSound, OpenIn, Older
  <2> QED
      BY <1>2, <2>1, <2>2
<1> QED
    BY <1>1, <1>2, <1>4, <1>5 DEF SessionsInv, RowSound, OpenIn, CheckHolds, Busy

(* Pointing the Hub at another URL *)
LEMMA RetargetStep ==
  ASSUME SessionsInv, Retarget
  PROVE  SessionsInv'
<1> DEFINE Orphaned(n) == [i \in DOMAIN sessions[n] |-> [sessions[n][i] EXCEPT !.server = 0]]
           Gone(n) == [present |-> FALSE, running |-> FALSE, id |-> row[n].id, started |-> Never]
           idle == [busy |-> FALSE, snap |-> NoSnapshot]
<1>1. /\ SessionsTypeOK /\ CheckHolds(sessions) /\ Cardinality(Busy) <= nature.overlap
      /\ \A n \in Servers : RowSound(n, row[n], sessions[n])
      BY DEF SessionsInv
<1>2. /\ row' = [n \in Servers |-> Gone(n)]
      /\ sessions' = [n \in Servers |-> Orphaned(n)]
      /\ remote' = [n \in Servers |-> Never]
      /\ probe' = [p \in Probes |-> idle]
      /\ moves < Retargets /\ moves' = moves + 1
      /\ UNCHANGED <<nature, clock, starts, refused>>
      BY DEF Retarget
<1>3. \A n \in Servers : /\ Gone(n) \in ServerRow /\ Gone(n).id = row[n].id
                         /\ ~Gone(n).running /\ ~Gone(n).present
  <2> TAKE n \in Servers
  <2>1. row[n] \in ServerRow /\ Never \in Reported
        BY <1>1, TimesForm DEF SessionsTypeOK
  <2>2. row[n].id \in Nat
        BY <2>1 DEF ServerRow
  <2> QED
      BY <2>1, <2>2 DEF ServerRow
<1>4. \A n \in Servers :
        /\ Orphaned(n) \in Seq(Session) /\ DOMAIN Orphaned(n) = DOMAIN sessions[n]
        /\ \A i \in DOMAIN sessions[n] : /\ Orphaned(n)[i].server = 0
                                         /\ Orphaned(n)[i].started = sessions[n][i].started
                                         /\ Orphaned(n)[i].ended = sessions[n][i].ended
  <2> TAKE n \in Servers
  <2> DEFINE h == sessions[n]
             v(s) == [s EXCEPT !.server = 0]
  <2>1. h \in Seq(Session)
        BY <1>1 DEF SessionsTypeOK
  <2>2. Len(h) \in Nat /\ DOMAIN h = 1 .. Len(h) /\ \A i \in DOMAIN h : h[i] \in Session
        BY <2>1, HistoryForm
  <2>3. \A s \in Session : v(s) \in Session /\ v(s).server = 0 /\ v(s).started = s.started /\ v(s).ended = s.ended
        BY DEF Session
  <2>4. Orphaned(n) = [i \in 1 .. Len(h) |-> v(h[i])]
        BY <2>2
  <2> HIDE DEF h, v, Orphaned
  <2>5. Orphaned(n) \in [1 .. Len(h) -> Session]
        BY <2>2, <2>3, <2>4
  <2>6. Orphaned(n) \in Seq(Session) /\ DOMAIN Orphaned(n) = DOMAIN h
        BY <2>2, <2>5
  <2>7. \A i \in DOMAIN h : Orphaned(n)[i] = v(h[i])
        BY <2>2, <2>4
  <2> QED
      BY <2>2, <2>3, <2>6, <2>7 DEF h
<1>5. idle \in [busy: BOOLEAN, snap: [Servers -> Seen]] /\ ~idle.busy
      BY DEF NoSnapshot, Down, Seen, Reported
<1> HIDE DEF Orphaned, Gone, idle
<1>6. \A p \in Probes : ~probe'[p].busy
      BY <1>2, <1>5
<1>7. SessionsTypeOK'
  <2>1. probe' \in [Probes -> [busy: BOOLEAN, snap: [Servers -> Seen]]]
        BY <1>2, <1>5
  <2>2. row' \in [Servers -> ServerRow] /\ sessions' \in [Servers -> Seq(Session)]
        BY <1>2, <1>3, <1>4
  <2>3. remote' \in [Servers -> Reported]
        BY <1>1, <1>2, TimesForm
  <2>4. moves' \in 0 .. Retargets
        BY <1>1, <1>2, TimeAssumption DEF SessionsTypeOK
  <2> QED
      BY <1>1, <1>2, <2>1, <2>2, <2>3, <2>4 DEF SessionsTypeOK
<1>8. \A n \in Servers : row'[n] = Gone(n) /\ sessions'[n] = Orphaned(n) /\ remote'[n] = Never
      BY <1>2
<1>9. \A n \in Servers : OpenIn(sessions'[n], row'[n].id) = {}
  <2> TAKE n \in Servers
  <2>1. row[n].id = 0 => DOMAIN sessions[n] = {}
        BY <1>1 DEF RowSound
  <2> QED
      BY <1>3, <1>4, <1>8, <2>1 DEF OpenIn
<1>10. \A n \in Servers : RowSound(n, row'[n], sessions'[n])
  <2> TAKE n \in Servers
  <2> DEFINE r == row'[n]
             h == sessions'[n]
  <2>1. row[n] \in ServerRow
        BY <1>1 DEF SessionsTypeOK
  <2>2. row[n].id \in Nat
        BY <2>1 DEF ServerRow
  <2>3. /\ ~r.running /\ ~r.present /\ r.id = row[n].id
        /\ DOMAIN h = DOMAIN sessions[n] /\ \A i \in DOMAIN h : h[i].server = 0
        /\ OpenIn(h, r.id) = {}
        BY <1>3, <1>4, <1>8, <1>9
  <2>4. row[n].id = 0 => DOMAIN sessions[n] = {}
        BY <1>1 DEF RowSound
  <2> HIDE DEF r, h
  <2>5. RowSound(n, r, h)
        BY <2>2, <2>3, <2>4 DEF RowSound
  <2> QED
      BY <2>5 DEF r, h
<1>11. CheckHolds(sessions')
      BY <1>1, <1>4, <1>8 DEF CheckHolds
<1>12. Cardinality(Busy') <= nature'.overlap
  <2>1. Busy' = {}
        BY <1>6 DEF Busy
  <2>2. nature.overlap \in Nat
        BY <1>1, TimesForm
  <2> QED
      BY <1>2, <2>1, <2>2, FS_EmptySet
<1>13. ASSUME Orderly' PROVE ~refused' /\ \A n \in Servers : StartsSound(n)'
  <2>1. ~refused'
        BY <1>2, <1>13 DEF Orderly, SessionsInv
  <2>2. ASSUME NEW n \in Servers PROVE StartsSound(n)'
    <3>1. Never <= clock'
          BY <1>1, <1>2, TimesForm
    <3> QED
        BY <1>3, <1>6, <1>8, <1>9, <3>1 DEF StartsSound, OpenIn
  <2> QED
      BY <2>1, <2>2
<1> QED
    BY <1>7, <1>10, <1>11, <1>12, <1>13 DEF SessionsInv, RowSound, OpenIn, CheckHolds

LEMMA SessionsStart ==
  ASSUME SessionsInit
  PROVE  SessionsInv
<1> DEFINE new == [present |-> FALSE, running |-> FALSE, id |-> 0, started |-> Never]
           idle == [busy |-> FALSE, snap |-> NoSnapshot]
<1>1. new \in ServerRow /\ ~new.present /\ ~new.running /\ new.id = 0
      BY DEF ServerRow, Reported
<1>2. idle \in [busy: BOOLEAN, snap: [Servers -> Seen]] /\ ~idle.busy
      BY DEF NoSnapshot, Down, Seen, Reported
<1>3. /\ nature \in Natures /\ clock = 1 /\ starts = 0 /\ moves = 0 /\ refused = FALSE
      /\ remote = [n \in Servers |-> Never] /\ row = [n \in Servers |-> new]
      /\ sessions = [n \in Servers |-> <<>>] /\ probe = [p \in Probes |-> idle]
      BY DEF SessionsInit
<1> HIDE DEF new, idle
<1>4. SessionsTypeOK
  <2>1. sessions \in [Servers -> Seq(Session)] /\ row \in [Servers -> ServerRow]
        BY <1>1, <1>3
  <2>2. remote \in [Servers -> Reported]
        BY <1>3 DEF Reported
  <2>3. probe \in [Probes -> [busy: BOOLEAN, snap: [Servers -> Seen]]]
        BY <1>2, <1>3
  <2>4. LastTime \in Nat \ {0} /\ MaxStarts \in Nat /\ Retargets \in Nat
        BY TimeAssumption
  <2>5. 1 \in 1 .. LastTime /\ 0 \in 0 .. MaxStarts /\ 0 \in 0 .. Retargets
        BY <2>4
  <2>6. clock \in 1 .. LastTime /\ starts \in 0 .. MaxStarts /\ moves \in 0 .. Retargets
        BY <1>3, <2>5
  <2>7. refused \in BOOLEAN
        BY <1>3
  <2> QED
      BY <1>3, <2>1, <2>2, <2>3, <2>6, <2>7 DEF SessionsTypeOK
<1>5. \A n \in Servers : row[n] = new /\ sessions[n] = <<>> /\ remote[n] = Never
      BY <1>3
<1>6. \A n \in Servers : DOMAIN sessions[n] = {}
  <2>1. DOMAIN <<>> = {}
        OBVIOUS
  <2> QED
      BY <1>5, <2>1
<1>7. \A p \in Probes : ~probe[p].busy
      BY <1>2, <1>3
<1>8. \A n \in Servers : OpenIn(sessions[n], row[n].id) = {}
      BY <1>6 DEF OpenIn
<1>9. Cardinality(Busy) <= nature.overlap
  <2>1. Busy = {}
        BY <1>7 DEF Busy
  <2> QED
      BY <1>4, <2>1, FS_EmptySet, TimesForm
<1>10. \A n \in Servers : RowSound(n, row[n], sessions[n])
      BY <1>1, <1>5, <1>6, <1>8 DEF RowSound
<1>11. \A n \in Servers : StartsSound(n)
      BY <1>1, <1>3, <1>5, <1>7, <1>8 DEF StartsSound, Never
<1> QED
    BY <1>3, <1>4, <1>6, <1>9, <1>10, <1>11 DEF SessionsInv, CheckHolds

LEMMA SessionsStep ==
  ASSUME SessionsInv, [SessionsNext]_sessionVars
  PROVE  SessionsInv'
<1>1. CASE UNCHANGED sessionVars
      BY <1>1 DEF SessionsInv, SessionsTypeOK, RowSound, OpenIn, CheckHolds, Busy, Orderly, StartsSound, Older,
                  sessionVars
<1>2. CASE ClockTick \/ \E n \in Servers : RemoteStart(n) \/ RemoteStop(n)
      BY <1>2, HubStep
<1>3. CASE \E p \in Probes : Fetch(p) \/ Apply(p)
      BY <1>3, FetchStep, ApplyStep
<1>4. CASE Retarget
      BY <1>4, RetargetStep
<1> QED
    BY <1>1, <1>2, <1>3, <1>4 DEF SessionsNext

LEMMA SessionsAlways == SessionsSpec => []SessionsInv
<1> QED
    BY SessionsStart, SessionsStep, PTL DEF SessionsSpec

(* Every row, report and session stays within its type, whatever the probes *)
(* of syncHubUsers bring home and in whatever order.                        *)
THEOREM SessionsTypeCorrect == SessionsSpec => []SessionsTypeOK
<1>1. SessionsInv => SessionsTypeOK
      BY DEF SessionsInv
<1> QED
    BY <1>1, SessionsAlways, PTL

(* A row of servers runs exactly while one open session refers to it: what  *)
(* reconcileServerSession and the upsert of the row write never part ways.  *)
THEOREM HistoryMatchesInventory == SessionsSpec => []OpenMatchesRunning
<1>1. SessionsInv => OpenMatchesRunning
  <2> SUFFICES ASSUME SessionsInv PROVE OpenMatchesRunning
      OBVIOUS
  <2>1. \A n \in Servers : RowSound(n, row[n], sessions[n])
        BY DEF SessionsInv
  <2> QED
      BY <2>1 DEF OpenMatchesRunning, RowSound, OpenIn, IsOpen
<1> QED
    BY <1>1, SessionsAlways, PTL

(* The CHECK of server_sessions never refuses a snapshot of a Hub whose     *)
(* clock agrees, that reports every start and of whose probes two overlap   *)
(* at most: no session is ended before its start.                           *)
THEOREM OrderlyAccepted == SessionsSpec => []OrderlyHubsAccepted
<1>1. SessionsInv => OrderlyHubsAccepted
  <2> SUFFICES ASSUME SessionsInv, refused
               PROVE  nature.skew > 0 \/ nature.omits \/ nature.overlap > 2
      BY DEF OrderlyHubsAccepted
  <2>1. ~Orderly /\ nature.skew \in Nat /\ nature.overlap \in Nat /\ nature.omits \in BOOLEAN
        BY TimesForm DEF SessionsInv
  <2> QED
      BY <2>1 DEF Orderly
<1> QED
    BY <1>1, SessionsAlways, PTL

-----------------------------------------------------------------------------
(* Full hours *)

(* An instant lies in its hour, which is found from any of its instants.    *)
LEMMA HourForm ==
  ASSUME NEW t \in Int
  PROVE  /\ HourOf(t) \in Int /\ Truncate(t) \in Int
         /\ Truncate(t) = HourOf(t) * PerHour
         /\ Truncate(t) <= t /\ t < Truncate(t) + PerHour
BY RollupAssumption DEF HourOf, Truncate

LEMMA HourBefore ==
  ASSUME NEW a \in Int, NEW b \in Int, a < b
  PROVE  a * PerHour + PerHour <= b * PerHour
<1>1. PICK d \in Nat : b = a + 1 + d
      OBVIOUS
<1>2. b * PerHour = a * PerHour + PerHour + d * PerHour /\ d * PerHour >= 0
      BY <1>1, RollupAssumption
<1> QED
    BY <1>2, RollupAssumption

(* A full hour is at or before an instant if it is so for its hour.         *)
LEMMA FullHour ==
  ASSUME NEW b \in Int, NEW t \in Int
  PROVE  /\ b * PerHour \in Int
         /\ (b * PerHour <= t) <=> (b <= HourOf(t))
         /\ (b * PerHour <= t) <=> (b * PerHour <= Truncate(t))
         /\ (t < b * PerHour) <=> (HourOf(t) < b)
<1>1. /\ b * PerHour \in Int
      /\ b < HourOf(t) => b * PerHour + PerHour <= Truncate(t)
      /\ HourOf(t) < b => Truncate(t) + PerHour <= b * PerHour
      /\ b = HourOf(t) => Truncate(t) = b * PerHour
  <2>1. HourOf(t) \in Int /\ Truncate(t) = HourOf(t) * PerHour
        BY HourForm
  <2>2. b * PerHour \in Int
        BY RollupAssumption
  <2>3. b < HourOf(t) => b * PerHour + PerHour <= HourOf(t) * PerHour
        BY <2>1, HourBefore
  <2>4. HourOf(t) < b => HourOf(t) * PerHour + PerHour <= b * PerHour
        BY <2>1, HourBefore
  <2> QED
      BY <2>1, <2>2, <2>3, <2>4
<1> DEFINE p == b * PerHour
           q == Truncate(t)
           h == HourOf(t)
<1>2. /\ p \in Int /\ q \in Int /\ h \in Int /\ q <= t /\ t < q + PerHour
      /\ b < h => p + PerHour <= q
      /\ h < b => q + PerHour <= p
      /\ b = h => q = p
      BY <1>1, HourForm
<1> HIDE DEF p, q, h
<1>3. (p <= t <=> b <= h) /\ (p <= t <=> p <= q) /\ (t < p <=> h < b)
      BY <1>2, RollupAssumption
<1> QED
    BY <1>1, <1>3 DEF p, q, h

LEMMA TruncateMonotone ==
  ASSUME NEW a \in Int, NEW b \in Int, a <= b
  PROVE  Truncate(a) <= Truncate(b)
<1>1. /\ HourOf(a) \in Int /\ Truncate(a) = HourOf(a) * PerHour
      /\ Truncate(a) \in Int /\ Truncate(a) <= a
      BY HourForm
<1>2. HourOf(a) * PerHour <= b
      BY <1>1
<1> QED
    BY <1>1, <1>2, FullHour

LEMMA TruncateZero == Truncate(0) = 0
<1>1. 0 * PerHour = 0 /\ Truncate(0) \in Int /\ Truncate(0) <= 0
      BY HourForm, RollupAssumption
<1>2. 0 * PerHour <= Truncate(0)
      BY <1>1, FullHour
<1> QED
    BY <1>1, <1>2

(* Every instant of an hour that ends before a full hour is before it.      *)
LEMMA WithinHour ==
  ASSUME NEW t \in Int, NEW x \in Int
  PROVE  /\ HourOf(t) * PerHour \in Int /\ HourOf(t) * PerHour <= t /\ t < HourOf(t) * PerHour + PerHour
         /\ HourOf(t) * PerHour < Truncate(x) =>
              HourOf(t) * PerHour + PerHour <= Truncate(x) /\ t < Truncate(x)
         /\ (Truncate(x) <= HourOf(t) * PerHour) <=> (Truncate(x) <= t)
<1>1. /\ HourOf(t) \in Int /\ Truncate(t) \in Int /\ Truncate(t) = HourOf(t) * PerHour
      /\ Truncate(t) <= t /\ t < Truncate(t) + PerHour
      /\ HourOf(x) \in Int /\ Truncate(x) \in Int /\ Truncate(x) = HourOf(x) * PerHour
      BY HourForm
<1>2. HourOf(t) < HourOf(x) => HourOf(t) * PerHour + PerHour <= HourOf(x) * PerHour
      BY <1>1, HourBefore
<1>3. HourOf(x) < HourOf(t) => HourOf(x) * PerHour + PerHour <= HourOf(t) * PerHour
      BY <1>1, HourBefore
<1>4. (HourOf(x) * PerHour <= t) <=> (HourOf(x) * PerHour <= Truncate(t))
      BY <1>1, FullHour
<1>5. HourOf(t) < HourOf(x) \/ HourOf(x) < HourOf(t) \/ HourOf(x) = HourOf(t)
      BY <1>1
<1> QED
    BY <1>1, <1>2, <1>3, <1>4, <1>5, RollupAssumption

-----------------------------------------------------------------------------
(* The first and the last of a set of instants *)

LEMMA Earliest ==
  ASSUME NEW S \in SUBSET Nat, S # {}
  PROVE  \E m \in S : \A u \in S : m <= u
<1> DEFINE R == OpToRel(<, Nat)
<1>1. IsWellFoundedOn(R, Nat)
      BY NatLessThanWellFounded
<1>2. \A x, y \in Nat : x < y => <<x, y>> \in R
      BY DEF OpToRel
<1> HIDE DEF R
<1>3. PICK m \in S : \A u \in S : ~(<<u, m>> \in R)
      BY <1>1, WFMin
<1>4. ASSUME NEW u \in S PROVE m <= u
  <2>1. u \in Nat /\ m \in Nat
        OBVIOUS
  <2>2. ~(u < m)
        BY <1>2, <1>3, <2>1
  <2> QED
      BY <2>1, <2>2
<1> QED
    BY <1>4

LEMMA ExtremaForm ==
  ASSUME NEW S \in SUBSET Instants, S # {}
  PROVE  /\ Min(S) \in S /\ \A u \in S : Min(S) <= u
         /\ Max(S) \in S /\ \A u \in S : u <= Max(S)
<1>1. Instants \subseteq Nat /\ \A u \in Instants : u <= MaxTime
      BY RollupAssumption DEF Instants
<1>2. \E m \in S : \A u \in S : m <= u
      BY <1>1, Earliest
<1>3. \E m \in S : \A u \in S : m >= u
  <2> DEFINE T == {MaxTime - u : u \in S}
  <2>1. \A u \in S : MaxTime - u \in Nat /\ u \in Nat
        BY <1>1, RollupAssumption
  <2>2. T \in SUBSET Nat /\ T # {}
        BY <2>1
  <2>3. PICK x \in T : \A y \in T : x <= y
    <3> HIDE DEF T
    <3> QED
        BY <2>2, Earliest
  <2>4. PICK m \in S : x = MaxTime - m
        BY <2>3
  <2>5. ASSUME NEW u \in S PROVE m >= u
    <3>1. MaxTime - m <= MaxTime - u
          BY <2>3, <2>4
    <3> QED
        BY <2>1, <3>1, RollupAssumption
  <2> QED
      BY <2>5
<1> QED
    BY <1>2, <1>3 DEF Min, Max

-----------------------------------------------------------------------------
(* Spans *)

LEMMA InstantsForm == /\ Instants \subseteq Nat /\ Instants \subseteq Int /\ Cap \in Nat /\ Cap \in Int
                      /\ 0 \in Instants
BY RollupAssumption DEF Instants

LEMMA SpanForm ==
  ASSUME NEW w \in SUBSET Instants, NEW t \in w
  PROVE  Span(w, t) \in 1..Cap
<1> DEFINE later == {u \in w : u > t}
           earlier == {u \in w : u < t}
<1>1. later \in SUBSET Instants /\ earlier \in SUBSET Instants /\ t \in Int /\ Instants \subseteq Int
  <2>1. later \subseteq w /\ earlier \subseteq w
        OBVIOUS
  <2> QED
      BY <2>1, InstantsForm
<1>2. later # {} => Min(later) \in Int /\ Min(later) > t
      BY <1>1, ExtremaForm
<1>3. earlier # {} => Max(earlier) \in Int /\ Max(earlier) < t
      BY <1>1, ExtremaForm
<1>4. SpanUncapped(w, t) \in Int /\ SpanUncapped(w, t) >= 1
      BY <1>1, <1>2, <1>3, RollupAssumption DEF SpanUncapped, SpanOfLast
<1> QED
    BY <1>4, RollupAssumption DEF Span, Least

(* A sample is credited with what it stands for if the window holds what    *)
(* follows it within the cap, and reaches back from it without a hole.      *)
LEMMA SpanExact ==
  ASSUME stored \in SUBSET Instants, NEW w \in SUBSET stored, NEW t \in w,
         \A u \in stored : t < u /\ u <= t + Cap => u \in w,
         NEW s \in Int, \A u \in stored : u < t /\ u >= s => u \in w, \A u \in w : u >= s
  PROVE  IsSpan(t, Span(w, t))
<1> DEFINE later == {u \in w : u > t}
           before == {u \in w : u < t}
           soon == {u \in stored : u > t /\ u - t <= Cap}
           earlier == {u \in stored : u < t}
<1>1. /\ later \in SUBSET Instants /\ before \in SUBSET Instants /\ t \in Int /\ Instants \subseteq Int
      /\ soon \in SUBSET Instants /\ earlier \in SUBSET Instants /\ Cap \in Nat /\ w \in SUBSET Instants
  <2>1. later \subseteq w /\ before \subseteq w /\ soon \subseteq stored /\ earlier \subseteq stored
        OBVIOUS
  <2> QED
      BY <2>1, InstantsForm
<1>2. CASE soon # {}
  <2>1. soon \subseteq later /\ later # {}
    <3>1. ASSUME NEW u \in soon PROVE u \in later
      <4>1. u \in stored /\ u \in Int /\ u > t /\ u - t <= Cap
            BY <1>1, InstantsForm
      <4>2. u <= t + Cap
            BY <1>1, <4>1
      <4> QED
          BY <1>1, <4>1, <4>2
    <3> QED
        BY <1>2, <3>1
  <2>2. /\ Min(soon) \in soon /\ \A u \in soon : Min(soon) <= u
        /\ Min(later) \in later /\ \A u \in later : Min(later) <= u
        BY <1>1, <1>2, <2>1, ExtremaForm
  <2>3. Min(soon) \in Int /\ Min(later) \in Int /\ Min(later) <= Min(soon) /\ Min(soon) - t <= Cap
        BY <1>1, <2>1, <2>2
  <2>4. Min(later) \in soon
        BY <1>1, <2>2, <2>3
  <2>5. Min(later) = Min(soon)
        BY <2>2, <2>3, <2>4
  <2>6. Span(w, t) = Least(Cap, Min(later) - t)
        BY <2>1 DEF Span, SpanUncapped
  <2>7. Span(w, t) = Min(soon) - t
        BY <1>1, <2>3, <2>5, <2>6 DEF Least
  <2> HIDE DEF later, before, earlier
  <2> QED
      BY <1>2, <2>7 DEF IsSpan
<1>3. CASE soon = {}
  <2>1. CASE later # {}
    <3>1. Min(later) \in later /\ Min(later) \in Int /\ Min(later) \in stored
          BY <1>1, <2>1, ExtremaForm
    <3>2. ~(Min(later) - t <= Cap)
          BY <1>1, <1>3, <3>1
    <3>3. Span(w, t) = Cap
          BY <1>1, <2>1, <3>1, <3>2 DEF Span, SpanUncapped, Least
    <3> QED
        BY <1>3, <3>3 DEF IsSpan
  <2>2. CASE later = {} /\ before = {}
    <3>1. Span(w, t) = Cap
          BY <1>1, <2>2 DEF Span, SpanUncapped, SpanOfLast, Least
    <3> QED
        BY <1>3, <3>1 DEF IsSpan
  <2>3. CASE later = {} /\ before # {}
    <3>1. /\ Max(before) \in before /\ \A u \in before : u <= Max(before)
          /\ before \subseteq earlier /\ earlier # {}
          BY <1>1, <2>3, ExtremaForm
    <3>2. Max(earlier) \in earlier /\ \A u \in earlier : u <= Max(earlier)
          BY <1>1, <3>1, ExtremaForm
    <3>3. Max(before) \in Int /\ Max(earlier) \in Int /\ Max(before) <= Max(earlier) /\ Max(before) >= s
          BY <1>1, <3>1, <3>2
    <3>4. Max(earlier) \in before
          BY <1>1, <3>2, <3>3
    <3>5. Max(earlier) = Max(before)
          BY <3>1, <3>3, <3>4
    <3>6. Span(w, t) = Least(Cap, t - Max(earlier))
          BY <2>3, <3>5 DEF Span, SpanUncapped, SpanOfLast
    <3> HIDE DEF later, before
    <3> QED
        BY <1>3, <3>1, <3>6 DEF IsSpan
  <2> QED
      BY <2>1, <2>2, <2>3
<1> QED
    BY <1>2, <1>3

(* What is stored later than the cap behind a sample does not matter to it. *)
LEMMA SpanStable ==
  ASSUME stored \in SUBSET Instants, NEW t \in Int, NEW n, IsSpan(t, n),
         NEW X \in SUBSET Instants, stored' = stored \cup X, \A u \in X : u > t + Cap
  PROVE  IsSpan(t, n)'
<1>1. \A u \in X : ~(u - t <= Cap) /\ ~(u < t)
  <2> TAKE u \in X
  <2>1. u \in Int /\ Cap \in Nat /\ u > t + Cap
        BY InstantsForm
  <2> QED
      BY <2>1
<1>2. {u \in stored' : u > t /\ u - t <= Cap} = {u \in stored : u > t /\ u - t <= Cap}
      BY <1>1
<1>3. {u \in stored' : u < t} = {u \in stored : u < t}
      BY <1>1
<1> QED
    BY <1>2, <1>3 DEF IsSpan


-----------------------------------------------------------------------------
(* The invariant *)

Spans == UNION {[s -> 1 .. Cap] : s \in SUBSET Instants}

(* The position is a full hour that has passed. *)
PositionSound == through <= now /\ Truncate(through) = through

SamplesSound == raw \subseteq stored /\ \A t \in stored : t <= now

BucketSound == \A b \in Hours : \A t \in DOMAIN bucket[b] : t \in stored /\ HourOf(t) = b

(* Nothing was deleted that a rollup would still read. *)
DeletedSound == lagged \/ \A t \in stored \ raw : t < Truncate(through - LateWindow)

RollInv ==
  /\ TypeOK
  /\ PositionSound
  /\ SamplesSound
  /\ BucketSound
  /\ DeletedSound
  /\ NothingStranded
  /\ AccountedUnlessLagging
  /\ SettledExact

LEMMA TypesForm ==
  ASSUME TypeOK
  PROVE  /\ now \in Int /\ through \in Int /\ now \in Nat /\ through \in Nat
         /\ raw \in SUBSET Instants /\ stored \in SUBSET Instants
         /\ bucket \in [Hours -> Spans] /\ Instants \subseteq Int
         /\ LateWindow \in Int /\ Retention \in Int /\ UsageRetention \in Int /\ Backfill \in Int
         /\ Lateness \in Int /\ Cap \in Int /\ PerHour \in Int /\ PerHour > 0
         /\ Lateness >= 0 /\ LateWindow >= 0 /\ Cap > 0 /\ Backfill >= 0
         /\ through - LateWindow \in Int /\ now - UsageRetention \in Int /\ now - Retention \in Int
         /\ Truncate(now) - Backfill \in Int
<1>1. now \in Nat /\ through \in Nat
      BY InstantsForm DEF TypeOK
<1>2. Truncate(now) \in Int
      BY <1>1, HourForm
<1>3. bucket \in [Hours -> Spans]
      BY DEF TypeOK, Spans
<1> QED
    BY <1>1, <1>2, <1>3, RollupAssumption, InstantsForm DEF TypeOK

(* The hours of the buckets. *)
LEMMA HoursForm ==
  /\ Hours \subseteq Int
  /\ \A b \in Hours : b * PerHour \in Int
  /\ \A t \in Instants : HourOf(t) \in Hours
<1>1. \A t \in Instants : t \in Int
      BY InstantsForm
<1> QED
    BY <1>1, HourForm, RollupAssumption DEF Hours

(* Steps that only let time pass. *)
LEMMA TimePasses ==
  ASSUME RollInv, TypeOK', now <= now', UNCHANGED <<raw, bucket, through, stored, lagged, skipped>>
  PROVE  RollInv'
<1>1. now' \in Int /\ now \in Int /\ UsageRetention \in Int /\ through \in Int /\ stored \in SUBSET Instants
      /\ raw \in SUBSET Instants
      BY TypesForm, InstantsForm DEF RollInv, TypeOK
<1>2. \A t \in Instants : Accounted(t) => Accounted(t)'
  <2> TAKE t \in Instants
  <2>1. HourOf(t) * PerHour \in Int
        BY HoursForm
  <2> QED
      BY <1>1, <2>1 DEF Accounted
<1>3. PositionSound' /\ SamplesSound' /\ BucketSound' /\ DeletedSound'
  <2>1. \A t \in stored : t \in Int
        BY <1>1, InstantsForm
  <2> QED
      BY <1>1, <2>1 DEF RollInv, PositionSound, SamplesSound, BucketSound, DeletedSound
<1>4. NothingStranded' /\ AccountedUnlessLagging'
      BY <1>1, <1>2 DEF RollInv, NothingStranded, AccountedUnlessLagging, AccountedBeforePruned
<1>5. SettledExact'
  <2>1. \A b \in Hours : b * PerHour >= now' - UsageRetention => b * PerHour >= now - UsageRetention
        BY <1>1, HoursForm
  <2> QED
      BY <2>1 DEF RollInv, SettledExact, IsSpan
<1> QED
    BY <1>3, <1>4, <1>5 DEF RollInv

(* Samples arrive.  None is of an hour that is settled, or near one.        *)
LEMMA CollectKeeps ==
  ASSUME RollInv, NEW X \in SUBSET Instants, \A t \in X : t <= now /\ t >= now - Lateness, Collect(X)
  PROVE  RollInv'
<1>1. /\ raw' = raw \cup X /\ stored' = stored \cup X
      /\ UNCHANGED <<now, bucket, through, lagged, skipped>>
      BY DEF Collect
<1>2. TypeOK'
      BY DEF Collect, RollInv, TypeOK
<1>3. \A t \in Instants : Accounted(t)' = Accounted(t)
      BY <1>1 DEF Accounted
<1>4. PositionSound' /\ SamplesSound' /\ BucketSound' /\ DeletedSound'
      BY <1>1 DEF RollInv, PositionSound, SamplesSound, BucketSound, DeletedSound
<1>5. ASSUME NEW t \in X
      PROVE  /\ t \in Int /\ Truncate(through - LateWindow) \in Int
             /\ Truncate(through - LateWindow) + Cap <= t
  <2>1. t \in Int /\ t >= now - Lateness /\ through <= now
        BY InstantsForm DEF RollInv, PositionSound
  <2>2. Truncate(through - LateWindow) \in Int /\ Truncate(through - LateWindow) <= through - LateWindow
        BY TypesForm, HourForm DEF RollInv
  <2> QED
      BY <2>1, <2>2, TypesForm, LatenessAssumption DEF RollInv
<1>6. NothingStranded'
      BY <1>1, <1>3, <1>5, TypesForm DEF RollInv, NothingStranded
<1>7. AccountedUnlessLagging'
  <2>1. stored' \ raw' \subseteq stored \ raw /\ stored \subseteq Instants
        BY <1>1 DEF RollInv, TypeOK
  <2> QED
      BY <1>1, <1>3, <2>1 DEF RollInv, AccountedUnlessLagging, AccountedBeforePruned
<1>8. SettledExact'
  <2> SUFFICES ASSUME ~lagged, ~skipped, NEW b \in Hours, b * PerHour < Truncate(through - LateWindow),
                      b * PerHour >= now - UsageRetention, NEW t \in DOMAIN bucket[b]
               PROVE  IsSpan(t, bucket[b][t])'
      BY <1>1 DEF SettledExact
  <2>1. IsSpan(t, bucket[b][t]) /\ t \in Int /\ HourOf(t) = b
        BY InstantsForm DEF RollInv, SettledExact, BucketSound, TypeOK
  <2>2. t < Truncate(through - LateWindow)
        BY <2>1, WithinHour, TypesForm DEF RollInv
  <2>3. \A u \in X : u > t + Cap
        BY <1>5, <2>1, <2>2, InstantsForm
  <2>4. stored \in SUBSET Instants
        BY DEF RollInv, TypeOK
  <2>5. \A m : IsSpan(t, m) => IsSpan(t, m)'
        BY <1>1, <2>1, <2>3, <2>4, SpanStable
  <2> QED
      BY <1>1, <2>1, <2>5
<1> QED
    BY <1>2, <1>4, <1>6, <1>7, <1>8 DEF RollInv


-----------------------------------------------------------------------------
(* The rollup *)

(* It starts at a full hour, nowhere behind the late window unless the      *)
(* backfill limit has it.                                                   *)
LEMMA StartForm ==
  ASSUME RollInv
  PROVE  /\ \E x \in Int : Start = Truncate(x)
         /\ Start \in Int /\ Start >= 0 /\ Start >= Truncate(through - LateWindow)
         /\ Start \in {0, Truncate(through - LateWindow), Truncate(Truncate(now) - Backfill)}
<1> DEFINE p == through - LateWindow
           q == Truncate(now) - Backfill
           x == Latest(0, Latest(p, q))
<1>1. p \in Int /\ q \in Int
      BY TypesForm DEF RollInv
<1> HIDE DEF p, q
<1>2. x \in Int /\ x >= 0 /\ x >= p /\ (x = 0 \/ x = p \/ x = q)
      BY <1>1 DEF Latest
<1>3. Start = Truncate(x)
      BY DEF Start, p, q
<1> HIDE DEF x
<1>4. Truncate(x) \in Int /\ Truncate(x) >= 0 /\ Truncate(x) >= Truncate(p)
      BY <1>1, <1>2, HourForm, TruncateMonotone, TruncateZero
<1>5. Start \in {0, Truncate(p), Truncate(q)}
      BY <1>2, <1>3, TruncateZero
<1> QED
    BY <1>2, <1>3, <1>4, <1>5 DEF p, q

(* What a rollup reads. *)
Window == {t \in raw : t >= Start /\ t < Truncate(now)}

LEMMA DerivedForm ==
  ASSUME RollInv, NEW b
  PROVE  /\ Derived(b) \in Spans
         /\ DOMAIN Derived(b) = {t \in Window : HourOf(t) = b}
         /\ \A t \in DOMAIN Derived(b) : Derived(b)[t] = Span(Window, t)
<1>1. Window \in SUBSET Instants
      BY DEF Window, RollInv, TypeOK
<1>2. \A t \in Window : Span(Window, t) \in 1 .. Cap
      BY <1>1, SpanForm
<1>3. Derived(b) = [t \in {u \in Window : HourOf(u) = b} |-> Span(Window, t)]
      BY DEF Derived, Window
<1>4. {u \in Window : HourOf(u) = b} \in SUBSET Instants
      BY <1>1
<1>5. Derived(b) \in [{u \in Window : HourOf(u) = b} -> 1 .. Cap]
      BY <1>2, <1>3
<1> QED
    BY <1>3, <1>4, <1>5 DEF Spans

(* Everything that was stored from its start on is there for it, as long as *)
(* prunes do not lag.                                                       *)
LEMMA WindowForm ==
  ASSUME RollInv
  PROVE  /\ Window \in SUBSET Instants /\ Window \subseteq raw /\ Window \subseteq stored
         /\ \A t \in stored : ~lagged /\ t >= Start /\ t < Truncate(now) => t \in Window
<1>1. /\ Truncate(through - LateWindow) \in Int /\ Start \in Int /\ Start >= Truncate(through - LateWindow)
      /\ Truncate(now) \in Int
      BY StartForm, HourForm, TypesForm DEF RollInv
<1>2. \A t \in stored : t \in Int
      BY InstantsForm DEF RollInv, TypeOK
<1> QED
    BY <1>1, <1>2 DEF Window, RollInv, DeletedSound, SamplesSound, TypeOK

(* A bucket is derived again from everything it held.                       *)
LEMMA RollUpForm ==
  ASSUME RollInv, RollUp, Start < Truncate(now)
  PROVE  /\ through' = Truncate(now) /\ through <= through' /\ through' <= now /\ through' \in Instants
         /\ bucket' \in [Hours -> Spans]
         /\ \A b \in Hours :
              \/ Start <= b * PerHour /\ b * PerHour < Truncate(now) /\ bucket'[b] = Derived(b)
              \/ ~(Start <= b * PerHour /\ b * PerHour < Truncate(now)) /\ bucket'[b] = bucket[b]
         /\ skipped' \in BOOLEAN
         /\ \A t \in Unread : t < Truncate(Truncate(now) - Backfill) => skipped'
         /\ UNCHANGED <<now, raw, stored, lagged>>
<1>1. /\ through' = Truncate(now) /\ UNCHANGED <<now, raw, stored, lagged>>
      /\ bucket' = [b \in Hours |-> IF b * PerHour >= Start /\ b * PerHour < Truncate(now)
                                    THEN Derived(b) ELSE bucket[b]]
      /\ skipped' = (skipped \/ \E t \in Unread : t < Truncate(Truncate(now) - Backfill))
      BY DEF RollUp
<1>2. /\ now \in Int /\ now >= 0 /\ now <= MaxTime /\ Truncate(now) \in Int /\ Truncate(now) <= now
      /\ Truncate(now) >= 0
  <2>1. now \in Int /\ now >= 0 /\ now <= MaxTime
        BY RollupAssumption DEF RollInv, TypeOK, Instants
  <2>2. Truncate(now) >= Truncate(0) /\ Truncate(now) \in Int /\ Truncate(now) <= now
        BY <2>1, TruncateMonotone, HourForm
  <2> QED
      BY <2>1, <2>2, TruncateZero
<1>3. through <= through'
  <2>1. Truncate(through) <= Truncate(now)
        BY TruncateMonotone, TypesForm DEF RollInv, PositionSound
  <2> QED
      BY <1>1, <2>1 DEF RollInv, PositionSound
<1>4. through' \in Instants
      BY <1>1, <1>2, RollupAssumption DEF Instants
<1>5. bucket' \in [Hours -> Spans]
      BY <1>1, DerivedForm, TypesForm DEF RollInv
<1>6. \A b \in Hours : b * PerHour \in Int /\ Start \in Int
      BY HoursForm, StartForm
<1> QED
    BY <1>1, <1>2, <1>3, <1>4, <1>5, <1>6

LEMMA RederivedForm ==
  ASSUME RollInv, NEW b \in Hours, Start <= b * PerHour, b * PerHour < Truncate(now),
         NEW t \in stored, HourOf(t) = b, t \in raw \/ ~lagged
  PROVE  t \in DOMAIN Derived(b)
<1>1. t \in Int /\ Start \in Int /\ b * PerHour \in Int /\ b * PerHour <= t /\ t < Truncate(now)
      BY WithinHour, InstantsForm, StartForm, TypesForm DEF RollInv, TypeOK
<1>2. t >= Start
      BY <1>1
<1>3. t \in Window
      BY <1>1, <1>2, WindowForm DEF Window
<1> QED
    BY <1>3, DerivedForm


(* What the late window leaves behind only grows. *)
LEMMA BehindGrows ==
  ASSUME RollInv, NEW x \in Int, through <= x
  PROVE  /\ Truncate(through - LateWindow) \in Int /\ Truncate(x - LateWindow) \in Int
         /\ Truncate(through - LateWindow) <= Truncate(x - LateWindow)
         /\ Truncate(x - LateWindow) <= x - LateWindow
<1> through - LateWindow \in Int /\ x - LateWindow \in Int /\ through - LateWindow <= x - LateWindow
    BY TypesForm DEF RollInv
<1> QED
    BY TruncateMonotone, HourForm

(* A sample that a rollup passes over was read before, is missing, or is    *)
(* beyond the backfill limit.                                               *)
LEMMA PassedOver ==
  ASSUME RollInv, RollUp, Start < Truncate(now), ~skipped',
         NEW t \in raw, HourOf(t) * PerHour < Start
  PROVE  t < Truncate(through - LateWindow)
<1> DEFINE p == Truncate(through - LateWindow)
           q == Truncate(Truncate(now) - Backfill)
<1>1. t \in Int /\ t >= 0
      BY InstantsForm DEF RollInv, TypeOK
<1>2. p \in Int /\ q \in Int
      BY HourForm, TypesForm DEF RollInv
<1>3. t >= p => t >= q
      BY RollUpForm, <1>1, <1>2 DEF Unread
<1>4. t < Start
      BY <1>1, StartForm, WithinHour
<1> HIDE DEF p, q
<1> QED
    BY <1>1, <1>2, <1>3, <1>4, StartForm DEF p, q

LEMMA RollUpKeeps ==
  ASSUME RollInv, RollUp
  PROVE  RollInv'
<1>1. CASE ~(Start < Truncate(now))
  <2>1. UNCHANGED <<now, raw, bucket, through, stored, lagged, skipped>>
        BY <1>1 DEF RollUp
  <2>2. TypeOK'
        BY <2>1 DEF RollUp, RollInv, TypeOK
  <2> QED
      BY <2>1, <2>2, TimePasses, TypesForm DEF RollInv
<1>2. CASE Start < Truncate(now)
  <2> DEFINE p == Truncate(through - LateWindow)
             p1 == Truncate(through' - LateWindow)
  <2>1. /\ through' = Truncate(now) /\ through <= through' /\ through' <= now /\ through' \in Instants
        /\ bucket' \in [Hours -> Spans]
        /\ \A b \in Hours :
             \/ Start <= b * PerHour /\ b * PerHour < Truncate(now) /\ bucket'[b] = Derived(b)
             \/ ~(Start <= b * PerHour /\ b * PerHour < Truncate(now)) /\ bucket'[b] = bucket[b]
        /\ skipped' \in BOOLEAN
        /\ UNCHANGED <<now, raw, stored, lagged>>
        BY <1>2, RollUpForm
  <2>2. through' \in Int /\ Truncate(now) \in Int /\ Start \in Int
        BY <2>1, InstantsForm, StartForm
  <2>3. p \in Int /\ p1 \in Int /\ p <= p1 /\ p1 <= through' - LateWindow /\ p1 <= through' /\ p <= Start
        BY <2>1, <2>2, BehindGrows, StartForm, TypesForm DEF RollInv
  <2>4. PositionSound'
    <3>1. Truncate(Truncate(now)) = Truncate(now)
      <4>1. HourOf(now) \in Int /\ Truncate(now) = HourOf(now) * PerHour
            BY HourForm, TypesForm DEF RollInv
      <4>2. Truncate(now) <= Truncate(Truncate(now))
            BY <2>2, <4>1, FullHour
      <4>3. Truncate(Truncate(now)) <= Truncate(now) /\ Truncate(Truncate(now)) \in Int
            BY <2>2, HourForm
      <4> QED
          BY <2>2, <4>2, <4>3
    <3>2. Truncate(through)' = Truncate(through')
          BY DEF Truncate, HourOf
    <3> QED
        BY <2>1, <3>1, <3>2 DEF PositionSound
  <2>5. SamplesSound' /\ raw \in SUBSET Instants /\ stored \in SUBSET Instants
        BY <2>1 DEF RollInv, SamplesSound, TypeOK
  <2>6. \A b \in Hours : \A t \in DOMAIN bucket'[b] : t \in stored /\ HourOf(t) = b
    <3> TAKE b \in Hours
    <3>1. CASE bucket'[b] = Derived(b)
          BY <3>1, DerivedForm, WindowForm
    <3>2. CASE bucket'[b] = bucket[b]
          BY <3>2 DEF RollInv, BucketSound
    <3> QED
        BY <2>1, <3>1, <3>2
  <2>7. BucketSound'
        BY <2>1, <2>6 DEF BucketSound, HourOf
  <2>8. TypeOK'
    <3>1. \A b \in Hours, t \in Instants : t \in DOMAIN bucket'[b] => HourOf(t) = b
          BY <2>6
    <3>2. /\ now' \in Instants /\ raw' \subseteq Instants /\ stored' \subseteq Instants
          /\ pc' \in {"down", "sample", "rollup", "prune"} /\ since' \in Instants
          /\ lagged' \in BOOLEAN /\ skipped' \in BOOLEAN
          BY <2>1 DEF RollInv, TypeOK, RollUp
    <3> QED
        BY <2>1, <3>1, <3>2 DEF TypeOK, Spans, HourOf
  <2>9. DeletedSound'
    <3>1. \A t \in stored : t \in Int
          BY <2>5, InstantsForm
    <3> QED
        BY <2>1, <2>3, <3>1 DEF RollInv, DeletedSound
  <2>10. ASSUME NEW t \in stored, t \in raw \/ ~lagged, Accounted(t)
         PROVE  Accounted(t)'
    <3> DEFINE h == HourOf(t)
    <3>1. h \in Hours
          BY <2>5, HoursForm
    <3>2. t \in DOMAIN bucket[h] => t \in DOMAIN bucket'[h]
          BY <2>1, <2>10, <3>1, RederivedForm
    <3> QED
        BY <2>1, <2>10, <3>1, <3>2 DEF Accounted, HourOf
  <2>11. NothingStranded'
    <3> SUFFICES ASSUME ~skipped', NEW t \in raw, t < p1
                 PROVE  Accounted(t)'
        BY <2>1 DEF NothingStranded
    <3>1. t \in Instants /\ t \in Int /\ HourOf(t) \in Hours /\ t \in stored
          BY <2>5, InstantsForm, HoursForm DEF RollInv, SamplesSound
    <3>2. HourOf(t) * PerHour \in Int /\ HourOf(t) * PerHour < Truncate(now)
          BY <2>1, <2>2, <2>3, <3>1, WithinHour
    <3>3. CASE HourOf(t) * PerHour < Start
      <4>1. t < p
            BY <1>2, <3>3, PassedOver
      <4>2. ~skipped
            BY <1>2 DEF RollUp, RollInv, TypeOK
      <4>3. Accounted(t)
            BY <4>1, <4>2 DEF RollInv, NothingStranded
      <4> QED
          BY <2>10, <3>1, <4>3
    <3>4. CASE ~(HourOf(t) * PerHour < Start)
      <4>1. Start <= HourOf(t) * PerHour
            BY <2>2, <3>2, <3>4
      <4>2. bucket'[HourOf(t)] = Derived(HourOf(t)) /\ t \in DOMAIN Derived(HourOf(t))
            BY <2>1, <3>1, <3>2, <4>1, RederivedForm
      <4> QED
          BY <4>2 DEF Accounted, HourOf
    <3> QED
        BY <3>3, <3>4
  <2>12. AccountedUnlessLagging'
    <3> SUFFICES ASSUME ~lagged, ~skipped', NEW t \in stored \ raw
                 PROVE  Accounted(t)'
        BY <2>1 DEF AccountedUnlessLagging, AccountedBeforePruned
    <3>1. ~skipped
          BY <1>2 DEF RollUp, RollInv, TypeOK
    <3>2. Accounted(t)
          BY <3>1 DEF RollInv, AccountedUnlessLagging, AccountedBeforePruned
    <3> QED
        BY <2>10, <3>2
  <2>13. SettledExact'
    <3> SUFFICES ASSUME ~lagged, ~skipped', NEW b \in Hours, b * PerHour < p1,
                        b * PerHour >= now - UsageRetention, NEW t \in DOMAIN bucket'[b]
                 PROVE  IsSpan(t, bucket'[b][t])
        BY <2>1 DEF SettledExact, IsSpan
    <3>1. ~skipped
          BY <1>2 DEF RollUp, RollInv, TypeOK
    <3>2. t \in stored /\ HourOf(t) = b /\ t \in Int /\ b * PerHour \in Int
          BY <2>5, <2>6, InstantsForm, HoursForm
    <3>3. CASE ~(Start <= b * PerHour)
      <4>1. bucket'[b] = bucket[b]
            BY <2>1, <3>3
      <4>2. b * PerHour < p
        <5>1. CASE t \in raw
          <6>1. t < p
                BY <1>2, <2>2, <3>2, <3>3, <5>1, PassedOver
          <6> QED
              BY <2>3, <3>2, <6>1, WithinHour
        <5>2. CASE t \notin raw
          <6>1. t < p
                BY <3>2, <5>2 DEF RollInv, DeletedSound
          <6> QED
              BY <2>3, <3>2, <6>1, WithinHour
        <5> QED
            BY <5>1, <5>2
      <4> QED
          BY <3>1, <4>1, <4>2 DEF RollInv, SettledExact
    <3>4. CASE Start <= b * PerHour
      <4>1. b * PerHour < Truncate(now)
            BY <2>1, <2>2, <2>3, <3>2
      <4>2. bucket'[b] = Derived(b)
            BY <2>1, <3>4, <4>1
      <4>3. t \in Window /\ bucket'[b][t] = Span(Window, t)
            BY <4>2, DerivedForm
      <4>4. t + Cap < Truncate(now) /\ t >= Start
        <5>1. t < p1 /\ LateWindow >= Cap /\ b * PerHour <= t
              BY <3>2, <2>2, TypesForm, WithinHour, LatenessAssumption DEF RollInv
        <5> QED
            BY <2>1, <2>2, <2>3, <3>2, <3>4, <5>1, TypesForm DEF RollInv
      <4>5. \A u \in stored : t < u /\ u <= t + Cap => u \in Window
        <5> TAKE u \in stored
        <5>1. u \in Int /\ Cap \in Int
              BY <2>5, InstantsForm
        <5> QED
            BY <2>2, <3>2, <4>4, <5>1, WindowForm
      <4>6. \A u \in stored : u < t /\ u >= Start => u \in Window
        <5> TAKE u \in stored
        <5>1. u \in Int /\ t < Truncate(now)
              BY <2>5, <4>3, InstantsForm DEF Window
        <5> QED
            BY <2>2, <3>2, <5>1, WindowForm
      <4>7. \A u \in Window : u >= Start
            BY DEF Window
      <4> QED
          BY <2>2, <2>5, <4>3, <4>5, <4>6, <4>7, WindowForm, SpanExact
    <3> QED
        BY <3>3, <3>4
  <2> QED
      BY <2>4, <2>5, <2>7, <2>8, <2>9, <2>11, <2>12, <2>13 DEF RollInv
<1> QED
    BY <1>1, <1>2


-----------------------------------------------------------------------------
(* The prune *)

LEMMA PruneKeeps ==
  ASSUME RollInv, Prune
  PROVE  RollInv'
<1>1. /\ raw' = {t \in raw : t >= now - Retention}
      /\ bucket' = [b \in Hours |-> IF b * PerHour < now - UsageRetention THEN NoSpans ELSE bucket[b]]
      /\ lagged' = (lagged \/ \E t \in Unread : t < now - Retention)
      /\ UNCHANGED <<now, through, since, stored, skipped>> /\ pc' = "sample"
      BY DEF Prune, KeptRaw, KeptBuckets
<1>2. /\ raw \in SUBSET Instants /\ stored \in SUBSET Instants /\ bucket \in [Hours -> Spans]
      /\ now - UsageRetention \in Int /\ now - Retention \in Int /\ lagged \in BOOLEAN
      /\ Truncate(through - LateWindow) \in Int /\ \A t \in stored : t \in Int
      BY TypesForm, HourForm, InstantsForm DEF RollInv, TypeOK
<1>3. NoSpans \in Spans /\ DOMAIN NoSpans = {}
  <2>1. NoSpans \in [{} -> 1 .. Cap] /\ {} \in SUBSET Instants
        BY DEF NoSpans
  <2> QED
      BY <2>1 DEF Spans
<1>4. \A b \in Hours :
        /\ b * PerHour < now - UsageRetention => bucket'[b] = NoSpans
        /\ ~(b * PerHour < now - UsageRetention) => bucket'[b] = bucket[b]
      BY <1>1
<1>5. \A t \in stored : Accounted(t) => Accounted(t)'
  <2> TAKE t \in stored
  <2>1. HourOf(t) \in Hours
        BY <1>2, HoursForm
  <2> QED
      BY <1>1, <1>4, <2>1 DEF Accounted, HourOf
<1>6. TypeOK'
  <2>1. bucket' \in [Hours -> Spans]
        BY <1>1, <1>2, <1>3
  <2>2. \A b \in Hours, t \in Instants : t \in DOMAIN bucket'[b] => HourOf(t) = b
        BY <1>3, <1>4 DEF RollInv, TypeOK
  <2>3. raw' \subseteq Instants /\ lagged' \in BOOLEAN /\ pc' \in {"down", "sample", "rollup", "prune"}
        BY <1>1, <1>2
  <2> QED
      BY <1>1, <2>1, <2>2, <2>3 DEF RollInv, TypeOK, Spans, HourOf
<1>7. PositionSound' /\ SamplesSound' /\ BucketSound'
  <2>1. \A b \in Hours : \A t \in DOMAIN bucket'[b] : t \in stored /\ HourOf(t) = b
        BY <1>3, <1>4 DEF RollInv, BucketSound
  <2> QED
      BY <1>1, <2>1 DEF RollInv, PositionSound, SamplesSound, BucketSound, HourOf
<1>8. ASSUME ~lagged', NEW t \in raw, t \notin raw'
      PROVE  t < Truncate(through - LateWindow)
  <2>1. t \in Int
        BY <1>2, InstantsForm
  <2>2. t < now - Retention
        BY <1>1, <1>2, <1>8, <2>1
  <2>3. t \notin Unread
        BY <1>1, <1>8, <2>2
  <2> QED
      BY <1>2, <2>1, <2>3 DEF Unread
<1>9. ~lagged' => ~lagged
      BY <1>1
<1>10. DeletedSound'
       BY <1>1, <1>8, <1>9 DEF RollInv, DeletedSound
<1>11. NothingStranded'
  <2> SUFFICES ASSUME ~skipped, NEW t \in raw', t < Truncate(through - LateWindow)
               PROVE  Accounted(t)'
      BY <1>1 DEF NothingStranded
  <2>1. t \in raw /\ t \in stored
        BY <1>1 DEF RollInv, SamplesSound
  <2> QED
      BY <1>5, <2>1 DEF RollInv, NothingStranded
<1>12. AccountedUnlessLagging'
  <2> SUFFICES ASSUME ~lagged', ~skipped, NEW t \in stored, t \notin raw'
               PROVE  Accounted(t)'
      BY <1>1 DEF AccountedUnlessLagging, AccountedBeforePruned
  <2>1. CASE t \in raw
        BY <1>5, <1>8, <2>1 DEF RollInv, NothingStranded
  <2>2. CASE t \notin raw
        BY <1>5, <1>9, <2>2 DEF RollInv, AccountedUnlessLagging, AccountedBeforePruned
  <2> QED
      BY <2>1, <2>2
<1>13. SettledExact'
  <2> SUFFICES ASSUME ~lagged', ~skipped, NEW b \in Hours, b * PerHour < Truncate(through - LateWindow),
                      b * PerHour >= now - UsageRetention, NEW t \in DOMAIN bucket'[b]
               PROVE  IsSpan(t, bucket'[b][t])
      BY <1>1 DEF SettledExact, IsSpan
  <2>1. bucket'[b] = bucket[b]
        BY <1>2, <1>4, HoursForm
  <2> QED
      BY <1>9, <2>1 DEF RollInv, SettledExact
<1> QED
    BY <1>6, <1>7, <1>10, <1>11, <1>12, <1>13 DEF RollInv

-----------------------------------------------------------------------------
(* The whole *)

LEMMA RollInit == Init => RollInv
<1> SUFFICES ASSUME Init PROVE RollInv
    OBVIOUS
<1>1. 0 \in Instants /\ NoSpans \in [{} -> 1 .. Cap] /\ DOMAIN NoSpans = {}
      BY InstantsForm DEF NoSpans
<1>2. NoSpans \in Spans
      BY <1>1 DEF Spans
<1>3. TypeOK
      BY <1>1, <1>2 DEF Init, TypeOK, Spans
<1>4. PositionSound
      BY TruncateZero DEF Init, PositionSound
<1>5. BucketSound
      BY <1>1 DEF Init, BucketSound
<1>6. SettledExact
      BY <1>1 DEF Init, SettledExact
<1> QED
    BY <1>3, <1>4, <1>5, <1>6
    DEF Init, RollInv, SamplesSound, DeletedSound, NothingStranded, AccountedUnlessLagging, AccountedBeforePruned

LEMMA RollNext == RollInv /\ [Next]_vars => RollInv'
<1> SUFFICES ASSUME RollInv, [Next]_vars PROVE RollInv'
    OBVIOUS
<1>t. now \in Int /\ now \in Instants
      BY TypesForm DEF RollInv, TypeOK
<1>1. CASE Tick
  <2>1. now' \in Instants /\ now <= now'
        BY <1>1, RollupAssumption DEF Tick, RollInv, TypeOK, Instants
  <2>2. TypeOK'
        BY <1>1, <2>1 DEF Tick, RollInv, TypeOK
  <2> QED
      BY <1>1, <2>1, <2>2, TimePasses DEF Tick
<1>2. ASSUME NEW t \in Instants, t <= now, t >= now - Lateness, Collect({t})
      PROVE  RollInv'
      BY <1>2, CollectKeeps
<1>3. CASE Collect({})
      BY <1>3, CollectKeeps
<1>4. CASE RollUp
      BY <1>4, RollUpKeeps
<1>5. CASE Prune
      BY <1>5, PruneKeeps
<1>6. CASE SkipRollUp \/ SkipPrune \/ Stop \/ Boot \/ UNCHANGED vars
  <2>1. UNCHANGED <<now, raw, bucket, through, since, stored, lagged, skipped>>
        /\ pc' \in {"down", "sample", "rollup", "prune"}
        BY <1>6 DEF SkipRollUp, SkipPrune, Stop, Boot, vars, RollInv, TypeOK
  <2>2. TypeOK'
        BY <2>1 DEF RollInv, TypeOK
  <2> QED
      BY <1>t, <2>1, <2>2, TimePasses
<1> QED
    BY <1>1, <1>2, <1>3, <1>4, <1>5, <1>6 DEF Next

LEMMA Always == Spec => []RollInv
BY RollInit, RollNext, PTL DEF Spec

(* Every variable keeps its type: a bucket credits the samples of its own   *)
(* hour, each with at least a tick and at most the cap                      *)
(* (resourceUsageRollupSQL).                                                *)
THEOREM TypeCorrect == Spec => []TypeOK
<1>1. RollInv => TypeOK
      BY DEF RollInv
<1> QED
    BY <1>1, Always, PTL

(* The late window strands nothing: what the next rollup no longer reads is *)
(* in its bucket (RollUpResourceUsage).                                     *)
THEOREM LateSamplesCounted == Spec => []NothingStranded
<1>1. RollInv => NothingStranded
      BY DEF RollInv
<1> QED
    BY <1>1, Always, PTL

(* While the prune does not reach what a rollup would still read, a sample  *)
(* is only deleted once it is accounted (PruneMetrics).                     *)
THEOREM AccountedFirst == Spec => []AccountedUnlessLagging
<1>1. RollInv => AccountedUnlessLagging
      BY DEF RollInv
<1> QED
    BY <1>1, Always, PTL

(* A bucket that is derived no more credits every sample with exactly what  *)
(* it stood for (resourceUsageRollupSQL, rollupLateWindow).                 *)
THEOREM SettledIsExact == Spec => []SettledExact
<1>1. RollInv => SettledExact
      BY DEF RollInv
<1> QED
    BY <1>1, Always, PTL
=============================================================================
