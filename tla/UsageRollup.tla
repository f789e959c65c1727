----------------------------- MODULE UsageRollup -----------------------------
(***************************************************************************)
(* Consumption accounting: raw metric samples, the hourly buckets that     *)
(* RollUpResourceUsage derives from them, and the prune that deletes both  *)
(* on retention windows of their own.                                      *)
(*                                                                         *)
(* Every cycle of the collector stores samples, rolls up and then prunes;  *)
(* each of the three may fail while the others go on, and the process may  *)
(* stop anywhere.  A rollup derives the buckets from rolled_up_through     *)
(* minus the late window up to the last full hour again and overwrites     *)
(* what they held.  The samples are those of one series (a user, Hub, pod  *)
(* and metric) at a rate of one, so what a sample consumes is the span of  *)
(* time it is credited with; the series are integrated apart and added up. *)
(* The clock counts the ticks of which PerHour make one bucket.            *)
(***************************************************************************)
EXTENDS Integers, FiniteSetsExt

CONSTANTS
  PerHour,     \* ticks per bucket
  LateWindow,  \* rollupLateWindow, in ticks
  Cap,         \* maxSampleInterval, in ticks
  Backfill,    \* rollupBackfillLimit, in ticks
  Retention,   \* raw_retention_days, in ticks
  UsageRetention, \* usage_retention_days, in ticks
  Lateness,    \* bound: how late, in ticks, a sample may arrive
  MaxTime      \* bound: last instant of the clock

ASSUME RollupAssumption ==
  /\ PerHour \in Nat \ {0} /\ LateWindow \in Nat /\ Cap \in Nat \ {0} /\ Backfill \in Nat
  /\ Retention \in Nat /\ UsageRetention \in Nat /\ Lateness \in Nat
  /\ MaxTime \in Nat

(* A sample is stored while the rollups still look at its hour and at the    *)
(* one its predecessor's span may reach into.                                *)
ASSUME LatenessAssumption == Lateness + Cap <= LateWindow

VARIABLES
  now,       \* the clock
  raw,       \* metric_samples, one for each instant at most
  bucket,    \* bucket[b]: the spans the row of hour b is the sum of, by sample
  through,   \* rolled_up_through
  pc,        \* where the collector's cycle is
  since,     \* when that cycle began
  stored,    \* history: every sample that was ever stored
  lagged,    \* history: a prune deleted what the next rollup would have read
  skipped    \* history: a rollup left out, by the backfill limit, what it
             \* would have read

vars == <<now, raw, bucket, through, pc, since, stored, lagged, skipped>>

Instants == 0 .. MaxTime
HourOf(t) == t \div PerHour
Hours == {HourOf(t) : t \in Instants}
Truncate(t) == HourOf(t) * PerHour

TypeOK ==
  /\ now \in Instants
  /\ raw \subseteq Instants
  /\ bucket \in [Hours -> UNION {[s -> 1 .. Cap] : s \in SUBSET Instants}]
  /\ \A b \in Hours, t \in Instants : t \in DOMAIN bucket[b] => HourOf(t) = b
  /\ through \in Instants
  /\ pc \in {"down", "sample", "rollup", "prune"}
  /\ since \in Instants
  /\ stored \subseteq Instants
  /\ lagged \in BOOLEAN
  /\ skipped \in BOOLEAN

NoSpans == [t \in {} |-> 0]

Init ==
  /\ now = 0
  /\ raw = {}
  /\ bucket = [b \in Hours |-> NoSpans]
  /\ through = 0
  /\ pc = "sample"
  /\ since = 0
  /\ stored = {}
  /\ lagged = FALSE
  /\ skipped = FALSE

(* Time passes; a cycle, each of whose calls has a timeout, is over within   *)
(* an hour.                                                                  *)
Tick ==
  /\ now < MaxTime
  /\ pc \in {"rollup", "prune"} => now < since + PerHour
  /\ now' = now + 1
  /\ UNCHANGED <<raw, bucket, through, pc, since, stored, lagged, skipped>>

(* collectPrometheus stores what the query returned, with its timestamps,   *)
(* or nothing.                                                              *)
Collect(samples) ==
  /\ pc = "sample"
  /\ raw' = raw \cup samples
  /\ stored' = stored \cup samples
  /\ pc' = "rollup"
  /\ since' = now
  /\ UNCHANGED <<now, bucket, through, lagged, skipped>>

Latest(a, b) == IF a > b THEN a ELSE b

(* Where a rollup starts: behind the recorded position by the late window,  *)
(* but never further back than the backfill limit, at a full hour.          *)
StartAtRecorded == Truncate(Latest(0, Latest(through, Truncate(now) - Backfill)))
Start == Truncate(Latest(0, Latest(through - LateWindow, Truncate(now) - Backfill)))

(* Samples the late window would have the next rollup read. *)
Unread == {t \in raw : t >= Truncate(through - LateWindow)}

(* How long a sample stands for, seen from the samples of the window: until *)
(* the next one; after the last one, as long as the one before it did; at   *)
(* most the cap, which a sample that is alone is credited with.             *)
Least(a, b) == IF a < b THEN a ELSE b
SpanOfLast(window, t) ==
  LET earlier == {u \in window : u < t}
  IN IF earlier # {} THEN t - Max(earlier) ELSE Cap
SpanUncapped(window, t) ==
  LET later == {u \in window : u > t}
  IN IF later # {} THEN Min(later) - t ELSE SpanOfLast(window, t)
Span(window, t) == Least(Cap, SpanUncapped(window, t))

(* The upsert of resourceUsageRollupSQL: buckets that have samples, or a    *)
(* session in them, are replaced.  The user of this model always has one.   *)
Derived(b) ==
  LET window == {t \in raw : t >= Start /\ t < Truncate(now)}
  IN [t \in {u \in window : HourOf(u) = b} |-> Span(window, t)]
RollUp ==
  /\ pc = "rollup"
  /\ pc' = "prune"
  /\ IF Start < Truncate(now)
     THEN /\ bucket' = [b \in Hours |-> IF b * PerHour >= Start /\ b * PerHour < Truncate(now)
                                         THEN Derived(b) ELSE bucket[b]]
          /\ through' = Truncate(now)
          /\ skipped' = (skipped \/ \E t \in Unread : t < Truncate(Truncate(now) - Backfill))
     ELSE UNCHANGED <<bucket, through, skipped>>
  /\ UNCHANGED <<now, raw, since, stored, lagged>>

(* The transaction fails: the cycle goes on with the prune. *)
SkipRollUp ==
  /\ pc = "rollup"
  /\ pc' = "prune"
  /\ UNCHANGED <<now, raw, bucket, through, since, stored, lagged, skipped>>

(* PruneMetrics and PruneResourceUsage, when they are due and the settings  *)
(* can be read.                                                             *)
KeptRaw == {t \in raw : t >= now - Retention}
KeptBuckets == [b \in Hours |-> IF b * PerHour < now - UsageRetention THEN NoSpans ELSE bucket[b]]
Prune ==
  /\ pc = "prune"
  /\ pc' = "sample"
  /\ raw' = KeptRaw
  /\ bucket' = KeptBuckets
  /\ lagged' = (lagged \/ \E t \in Unread : t < now - Retention)
  /\ UNCHANGED <<now, through, since, stored, skipped>>

SkipPrune ==
  /\ pc = "prune"
  /\ pc' = "sample"
  /\ UNCHANGED <<now, raw, bucket, through, since, stored, lagged, skipped>>

Stop ==
  /\ pc # "down"
  /\ pc' = "down"
  /\ UNCHANGED <<now, raw, bucket, through, since, stored, lagged, skipped>>

Boot ==
  /\ pc = "down"
  /\ pc' = "sample"
  /\ UNCHANGED <<now, raw, bucket, through, since, stored, lagged, skipped>>

Next ==
  \/ Tick
  \/ \E t \in Instants : t <= now /\ t >= now - Lateness /\ Collect({t})
  \/ Collect({})
  \/ RollUp
  \/ SkipRollUp
  \/ Prune
  \/ SkipPrune
  \/ Stop
  \/ Boot

Spec == Init /\ [][Next]_vars

-----------------------------------------------------------------------------
(* Properties *)

Accounted(t) == HourOf(t) * PerHour < now - UsageRetention \/ t \in DOMAIN bucket[HourOf(t)]

(* Every sample the prune deleted is in its bucket, or its bucket is pruned. *)
AccountedBeforePruned == \A t \in stored \ raw : Accounted(t)

(* No sample is deleted before its consumption is accounted, as long as      *)
(* rollups do not fail for so long that the prune or the backfill limit      *)
(* reaches samples the next one would have read: late samples, skipped       *)
(* prunes, restarts and shorter failures lose nothing.                       *)
AccountedUnlessLagging == lagged \/ skipped \/ AccountedBeforePruned

(* A sample the next rollup no longer looks at is in its bucket already,     *)
(* though it came late and rollups failed: the late window strands nothing,  *)
(* unless the backfill limit did.                                            *)
NothingStranded ==
  \/ skipped
  \/ \A t \in raw : t < Truncate(through - LateWindow) => Accounted(t)

(* What a sample stood for, seen from every sample that was ever stored:     *)
(* until the next one if that followed within the cap; before a gap and      *)
(* after the last one, as long as the one before it did, or the cap.         *)
IsSpan(t, span) ==
  LET soon == {u \in stored : u > t /\ u - t <= Cap}
      earlier == {u \in stored : u < t}
  IN IF soon # {} THEN span = Min(soon) - t
     ELSE span = Cap \/ (earlier # {} /\ span = Least(Cap, t - Max(earlier)))

(* Once no rollup derives an hour again, its bucket credits every sample     *)
(* with what it stood for: that the hour was first derived without its late  *)
(* samples and without the successor of its last one leaves no trace, no     *)
(* time is credited twice, and none of a gap beyond the cap.                 *)
SettledExact ==
  \/ lagged \/ skipped
  \/ \A b \in Hours :
       /\ b * PerHour < Truncate(through - LateWindow)
       /\ b * PerHour >= now - UsageRetention
       => \A t \in DOMAIN bucket[b] : IsSpan(t, bucket[b][t])
=============================================================================
