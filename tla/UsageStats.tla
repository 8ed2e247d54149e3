----------------------------- MODULE UsageStats -----------------------------
(***************************************************************************)
(* The usage statistics: finished calls queue up in a table of pending     *)
(* ids, the base worker aggregates them in bounded batches, the snapshot   *)
(* worker claims dirty projects and rebuilds what the dashboards show, and *)
(* the queries sum the hourly rows                                         *)
(* (src/service/usage_stats.go, usage_stats_buckets.go,                    *)
(* usage_stats_query.go, src/tasks/stats.go).                              *)
(*                                                                         *)
(* Time is counted in periods of ten minutes, the finest the tables keep.  *)
(* The base aggregation is one transaction behind one locked row, so one   *)
(* action. A refresh reads in the snapshot its transaction opened and      *)
(* commits later: two actions, with the base worker free in between.       *)
(***************************************************************************)
EXTENDS Integers, Sequences, FiniteSets, Functions, SequencesExt, FiniteSetsExt

CONSTANTS
  Users,
  Projects,       \* project ids: numbers, the workers go by their order
  Owner,          \* Owner[p]: the user of project p
  Models,         \* model identities: numbers, in the order of their names
  Calls,          \* the jobs that may end, with what their calls will be
  SlotsPerHour,   \* periods of an hour: 6
  HoursPerDay,    \* 24
  Ranges,         \* the ranges of the snapshots: 1h, 1d, 7d
  RangeSlots,     \* RangeSlots[r]: their lengths in periods
  SeriesRanges,   \* the ranges of the daily series: 7d, 1m
  SeriesDays,     \* SeriesDays[r]: their lengths in days
  WindowSeconds,  \* usage_stats.recent_failure_window_seconds
  SlotSeconds,    \* seconds of a period: 600
  Buckets,        \* the number of small duration buckets: 12
  MaxDisplay,     \* maxDisplayBuckets: 12
  TopN,           \* rows of a model snapshot: 10
  BatchSize,      \* usageStatsBatchSize: 200
  ClaimLimit,     \* projects of one claim: 20
  ClearLimit,     \* staleProjectDaySummaryLimit: 20
  RefreshLimit,   \* recentFailureWindowRefreshLimit: 20
  Start,          \* the period in which the history begins
  MaxNow,         \* bound: the last period
  MaxFaults       \* bound: failed transactions and crashes of the snapshot worker

\* checkUsageStatsConfig
UsageStatsConfigIsChecked == WindowSeconds \in Nat \ {0}

ASSUME UsageStatsAssumption ==
  /\ Projects \subseteq Nat \ {0} /\ Models \subseteq Nat /\ IsFiniteSet(Projects)
  /\ Owner \in [Projects -> Users]
  /\ Calls \subseteq [job : Nat, project : Projects, model : Models, success : BOOLEAN, age : Nat,
                      tokens : Nat, credits : Nat, bucket : 1..Buckets]
  /\ \A n \in {SlotsPerHour, HoursPerDay, SlotSeconds, Buckets, MaxDisplay, TopN, BatchSize,
               ClaimLimit, ClearLimit, RefreshLimit} : n \in Nat \ {0}
  /\ RangeSlots \in [Ranges -> Nat \ {0}] /\ SeriesDays \in [SeriesRanges -> Nat \ {0}]
  /\ UsageStatsConfigIsChecked /\ Start \in Nat /\ MaxNow \in Nat

VARIABLES
  now,         \* the current period
  calls,       \* the task_call_records rows with their charges, by id
  pending,     \* usage_stats_pending_call_records
  accountHour, \* account_usage_hourly_stats
  projectHour, \* project_usage_hourly_stats
  modelUse,    \* project_model_usage_10m_stats
  durationUse, \* project_duration_usage_10m_stats
  lastRequest, \* projects.last_request_at, 0 for NULL
  dirty,       \* usage_stats_progress.dirty_generation
  claimed,     \* usage_stats_progress.claimed_generation
  summary,     \* summary[p]: the day and recent window counts of projects
  snapshot,    \* snapshot[p]: the snapshot rows, and the period they were read in
  worker,      \* the snapshot worker: where it is in its tick
  lost,        \* projects whose last claim ended without a refresh
  left         \* what is left of MaxFaults

tables == <<accountHour, projectHour, modelUse, durationUse>>
base == <<calls, pending, accountHour, projectHour, modelUse, durationUse, lastRequest>>
vars == <<now, calls, pending, accountHour, projectHour, modelUse, durationUse, lastRequest,
          dirty, claimed, summary, snapshot, worker, lost, left>>

-----------------------------------------------------------------------------
(* Periods, counters and rows. *)

SlotsPerDay == SlotsPerHour * HoursPerDay
HourStart(t) == t - (t % SlotsPerHour)
DayStart(t) == t - (t % SlotsPerDay)

NoUse == [success |-> 0, failure |-> 0, tokens |-> 0, credits |-> 0]
Plus(u, v) == [f \in DOMAIN u |-> u[f] + v[f]]
Requests(u) == u.success + u.failure

\* What one call adds, tokens standing for images too; credits only when a processed charge event refers to it.
Increment(call) ==
  [success |-> IF call.success THEN 1 ELSE 0, failure |-> IF call.success THEN 0 ELSE 1,
   tokens |-> call.tokens, credits |-> call.credits]

\* A table is a function from the keys of its rows; a missing row counts as zero.
NoRows == [key \in {} |-> NoUse]
Row(table, key, none) == IF key \in DOMAIN table THEN table[key] ELSE none
Put(table, key, row) == [k \in DOMAIN table \cup {key} |-> IF k = key THEN row ELSE table[k]]
Upsert(table, key, use) == Put(table, key, Plus(Row(table, key, NoUse), use))
UpsertCount(table, key) == Put(table, key, Row(table, key, 0) + 1)

SumRows(table, keys) == FoldFunctionOnSet(Plus, NoUse, table, DOMAIN table \cap keys)
CountRows(table, keys) == FoldFunctionOnSet(+, 0, table, DOMAIN table \cap keys)

\* The first n of a set of ids: ORDER BY ... LIMIT n.
FirstOf(ids, n) == {i \in ids : Cardinality({j \in ids : j < i}) < n}

-----------------------------------------------------------------------------
(* The base worker. *)

\* A job's call is recorded once, when it ends; it counts when it was accepted.
Finish(call) ==
  /\ call.age <= now /\ \A i \in DOMAIN calls : calls[i].job # call.job
  /\ calls' = Append(calls, Put(call, "at", now - call.age))
  /\ pending' = pending \cup {Len(calls')}
  /\ UNCHANGED <<now, tables, lastRequest, dirty, claimed, summary, snapshot, worker, lost, left>>

\* applyCallRecordToBaseStats
ApplyCall(stats, id) ==
  LET call == calls[id] IN
  [account |-> Upsert(stats.account, <<Owner[call.project], HourStart(call.at)>>, Increment(call)),
   project |-> Upsert(stats.project, <<call.project, HourStart(call.at)>>, Increment(call)),
   model |-> Upsert(stats.model, <<call.project, call.model, call.at>>, Increment(call)),
   duration |-> UpsertCount(stats.duration, <<call.project, call.bucket, call.at>>)]

\* updateProjectLastRequestAt
LastRequestAt(p, batch) == Max({lastRequest[p]} \cup {calls[i].at : i \in {j \in batch : calls[j].project = p}})

\* markProjectSnapshotDirty
MarkDirty(p) == dirty[p] + 1

\* The bug of a delete that spares the last row of the batch.
LeftPendingWithLast(batch) == {i \in pending : i >= Max(batch)}
LeftPending(batch) == pending \ batch

\* RunUsageStatsBaseAggregation: a failure of any of its calls rolls it back.
RunUsageStatsBaseAggregation ==
  LET batch == FirstOf(pending, BatchSize)
      touched == {calls[i].project : i \in batch}
      stats == FoldSet(LAMBDA i, acc : ApplyCall(acc, i),
                       [account |-> accountHour, project |-> projectHour,
                        model |-> modelUse, duration |-> durationUse], batch)
  IN /\ batch # {} /\ batch \subseteq DOMAIN calls
     /\ accountHour' = stats.account /\ projectHour' = stats.project
     /\ modelUse' = stats.model /\ durationUse' = stats.duration
     /\ lastRequest' = [p \in Projects |-> LastRequestAt(p, batch)]
     /\ dirty' = [p \in Projects |-> IF p \in touched THEN MarkDirty(p) ELSE dirty[p]]
     /\ pending' = LeftPending(batch)
     /\ lost' = lost \ touched
     /\ UNCHANGED <<now, calls, claimed, summary, snapshot, worker, left>>

-----------------------------------------------------------------------------
(* What a snapshot shows of a project at a time. *)

Window(slots, at) == at - (slots - 1) .. at

\* MergeDurationDisplayBuckets: neighbouring buckets are merged until each bar
\* but the last has its share of the total; a full display takes the rest.
Bar(from, to, count) == [from |-> from, to |-> to, count |-> count]
CeilDiv(m, n) == (m + n - 1) \div n
Full(acc, count, total) == count >= CeilDiv(total, MaxDisplay) /\ Len(acc.bars) # MaxDisplay - 1
Absorb(acc, b, count, total) ==
  LET sum == acc.sum + count[b] IN
  IF Full(acc, sum, total)
    THEN [bars |-> Append(acc.bars, Bar(acc.from, b, sum)), from |-> b + 1, sum |-> 0]
    ELSE [acc EXCEPT !.sum = sum]
MergeDurationDisplayBuckets(count) ==
  LET total == FoldFunctionOnSet(+, 0, count, DOMAIN count)
      merged[b \in 0..Buckets] ==
        IF b = 0 THEN [bars |-> <<>>, from |-> 1, sum |-> 0] ELSE Absorb(merged[b - 1], b, count, total)
      last == merged[Buckets]
  IN CASE total = 0 -> <<>>
       [] total > 0 /\ last.from > Buckets -> last.bars
       [] OTHER -> Append(last.bars, Bar(last.from, Buckets, last.sum))

\* rebuildDurationSnapshot
DurationSnapshot(p, r, at) ==
  MergeDurationDisplayBuckets(
    [b \in 1..Buckets |-> CountRows(durationUse, {p} \X {b} \X Window(RangeSlots[r], at))])

\* rebuildModelSnapshot: the most credits first, then the most requests.
Ranked(x, y) ==
  \/ x.use.credits > y.use.credits
  \/ x.use.credits = y.use.credits /\ Requests(x.use) > Requests(y.use)
  \/ x.use.credits = y.use.credits /\ Requests(x.use) = Requests(y.use) /\ x.model < y.model
Ranking(S) == CHOOSE list \in [1..Cardinality(S) -> S] : \A i, j \in DOMAIN list : i < j => Ranked(list[i], list[j])
ModelSnapshot(p, r, at) ==
  LET keys == DOMAIN modelUse \cap ({p} \X Models \X Window(RangeSlots[r], at))
      Of(m) == [model |-> m, use |-> SumRows(modelUse, {k \in keys : k[2] = m})]
      list == Ranking({Of(m) : m \in {k[2] : k \in keys}})
  IN SubSeq(list, 1, Min({Len(list), TopN}))

\* refreshProjectUsageSummaryDay
DaySummary(p, at) == SumRows(projectHour, {p} \X (DayStart(at)..HourStart(at)))

\* recentFailureWindow10m, refreshProjectRecentFailureWindowCounts
RecentWindow(at) == Window(Max({1, CeilDiv(WindowSeconds, SlotSeconds)}), at)
NoWindow == [success |-> 0, failure |-> 0]
WindowCounts(p, at) ==
  LET use == SumRows(modelUse, {p} \X Models \X RecentWindow(at)) IN
  IF lastRequest[p] = 0 \/ lastRequest[p] < Min(RecentWindow(at)) THEN NoWindow
  ELSE [success |-> use.success, failure |-> use.failure]

SnapshotOf(p, at) ==
  [at |-> at,
   models |-> [r \in Ranges |-> ModelSnapshot(p, r, at)],
   durations |-> [r \in Ranges |-> DurationSnapshot(p, r, at)]]

SummaryOf(p, at) == [day |-> DaySummary(p, at), window |-> WindowCounts(p, at)]

-----------------------------------------------------------------------------
(* The snapshot worker. *)

Steps == {"idle", "refresh", "commit", "clear", "window"}
NoView == [snapshot |-> <<>>, summary |-> <<>>]
Worker(step, queue, view) == [step |-> step, queue |-> queue, view |-> view]
NextStep(queue) == IF queue = {} THEN "clear" ELSE "refresh"

Take == left > 0 /\ left' = left - 1

\* ClaimDirtyProjectsForSnapshot commits before anything is rebuilt.
Dirty == {p \in Projects : dirty[p] > claimed[p]}
ClaimDirtyProjectsForSnapshot ==
  LET rows == FirstOf(Dirty, ClaimLimit) IN
  /\ worker.step = "idle"
  /\ claimed' = [p \in Projects |-> IF p \in rows THEN dirty[p] ELSE claimed[p]]
  /\ worker' = Worker(NextStep(rows), {<<p, dirty[p]>> : p \in rows}, NoView)
  /\ UNCHANGED <<now, base, dirty, summary, snapshot, lost, left>>

Head1(queue) == CHOOSE item \in queue : \A other \in queue : item[1] <= other[1]

\* RefreshProjectUsageSnapshots up to its commit: all it reads is one snapshot.
ReadForRefresh ==
  LET p == Head1(worker.queue)[1] IN
  /\ worker.step = "refresh"
  /\ worker' = [worker EXCEPT !.step = "commit",
                              !.view = [snapshot |-> SnapshotOf(p, now), summary |-> SummaryOf(p, now)]]
  /\ UNCHANGED <<now, base, dirty, claimed, summary, snapshot, lost, left>>

\* The end of RefreshProjectUsageSnapshots: it locks the progress row; calls
\* aggregated since the claim leave the project dirty.

\* The bug of a refresh that takes every generation for the one it claimed.
ReclaimLatest(p, generation) == dirty[p]
Reclaim(p, generation) == IF dirty[p] # generation THEN claimed[p] ELSE dirty[p]
CommitRefresh ==
  LET item == Head1(worker.queue)
      rest == worker.queue \ {item}
      p == item[1]
  IN /\ worker.step = "commit"
     /\ snapshot' = [snapshot EXCEPT ![p] = worker.view.snapshot]
     /\ summary' = [summary EXCEPT ![p] = worker.view.summary]
     /\ claimed' = [claimed EXCEPT ![p] = Reclaim(p, item[2])]
     /\ worker' = Worker(NextStep(rest), rest, NoView)
     /\ UNCHANGED <<now, base, dirty, lost, left>>

\* A refresh that fails is logged and not tried again: the claim stands.
RefreshFails ==
  LET item == Head1(worker.queue)
      rest == worker.queue \ {item}
  IN /\ worker.step \in {"refresh", "commit"} /\ Take
     /\ lost' = IF dirty[item[1]] = item[2] THEN lost \cup {item[1]} ELSE lost
     /\ worker' = Worker(NextStep(rest), rest, NoView)
     /\ UNCHANGED <<now, base, dirty, claimed, summary, snapshot>>

\* ClearStaleProjectDaySummaries
StaleDay(p) == summary[p].day # NoUse /\ lastRequest[p] < DayStart(now)
ClearStaleProjectDaySummaries ==
  LET rows == FirstOf({p \in Projects : StaleDay(p)}, ClearLimit) IN
  /\ worker.step = "clear"
  /\ summary' = [p \in Projects |-> IF p \in rows THEN [summary[p] EXCEPT !.day = NoUse] ELSE summary[p]]
  /\ worker' = [worker EXCEPT !.step = "window"]
  /\ UNCHANGED <<now, base, dirty, claimed, snapshot, lost, left>>

\* The bug of a batch that only looks for projects in use.
AgingInUse(p) == lastRequest[p] # 0 /\ lastRequest[p] >= Min(RecentWindow(now))

\* RefreshRecentFailureWindowCounts
Aging(p) == summary[p].window # NoWindow \/ (lastRequest[p] # 0 /\ lastRequest[p] >= Min(RecentWindow(now)))
RefreshRecentFailureWindowCounts ==
  LET rows == FirstOf({p \in Projects : Aging(p)}, RefreshLimit) IN
  /\ worker.step = "window"
  /\ summary' = [p \in Projects |->
                   IF p \in rows THEN [summary[p] EXCEPT !.window = WindowCounts(p, now)] ELSE summary[p]]
  /\ worker' = Worker("idle", {}, NoView)
  /\ UNCHANGED <<now, base, dirty, claimed, snapshot, lost, left>>

\* Either of the two fails: its error is logged, the tick goes on.
AgingFails ==
  /\ worker.step \in {"clear", "window"} /\ Take
  /\ worker' = IF worker.step = "clear" THEN [worker EXCEPT !.step = "window"] ELSE Worker("idle", {}, NoView)
  /\ UNCHANGED <<now, base, dirty, claimed, summary, snapshot, lost>>

\* The process ends in a tick: what was claimed and not refreshed is forgotten.
Crash ==
  /\ worker.step # "idle" /\ Take
  /\ lost' = lost \cup {item[1] : item \in {i \in worker.queue : dirty[i[1]] = i[2]}}
  /\ worker' = Worker("idle", {}, NoView)
  /\ UNCHANGED <<now, base, dirty, claimed, summary, snapshot>>

Tick ==
  /\ now < MaxNow /\ now' = now + 1
  /\ UNCHANGED <<base, dirty, claimed, summary, snapshot, worker, lost, left>>

-----------------------------------------------------------------------------
(* The queries of the dashboards. *)

\* accountHourlyPeriodStarts, projectHourlyPeriodStarts for the range 1d
LastHours(at) == {HourStart(at) - k * SlotsPerHour : k \in 0..(HoursPerDay - 1)}

\* dailyExpandedHourStarts: the hours of the last days that have begun
HoursOfDays(days, at) ==
  {h \in {DayStart(at) - d * SlotsPerDay + k * SlotsPerHour : d \in 0..(days - 1), k \in 0..(HoursPerDay - 1)} :
     h <= HourStart(at)}

\* A point of a series: what its hours hold, complete when none is still running.
Point(table, owner, hours, at) ==
  [use |-> SumRows(table, {owner} \X hours), complete |-> \A h \in hours : h < HourStart(at)]
HourSeries(table, owner, at) == [h \in LastHours(at) |-> Point(table, owner, {h}, at)]
DaySeries(table, owner, days, at) ==
  LET hours == HoursOfDays(days, at) IN
  [d \in {DayStart(h) : h \in hours} |-> Point(table, owner, {h \in hours : DayStart(h) = d}, at)]
Series(table, owner, r, at) ==
  IF r = "1d" THEN HourSeries(table, owner, at) ELSE DaySeries(table, owner, SeriesDays[r], at)

GetAccountUsageStats(u, r, at) == Series(accountHour, u, r, at)
GetProjectUsageStats(p, r, at) == Series(projectHour, p, r, at)

\* The totals of an account are those of its series.
Totals(series) == FoldFunctionOnSet(LAMBDA point, acc : Plus(point.use, acc), NoUse, series, DOMAIN series)

-----------------------------------------------------------------------------
Init ==
  /\ now = Start /\ calls = <<>> /\ pending = {}
  /\ accountHour = NoRows /\ projectHour = NoRows /\ modelUse = NoRows /\ durationUse = NoRows
  /\ lastRequest = [p \in Projects |-> 0]
  /\ dirty = [p \in Projects |-> 0] /\ claimed = [p \in Projects |-> 0]
  /\ summary = [p \in Projects |-> [day |-> NoUse, window |-> NoWindow]]
  /\ snapshot = [p \in Projects |-> SnapshotOf(p, Start)]
  /\ worker = Worker("idle", {}, NoView)
  /\ lost = {} /\ left = MaxFaults

Work ==
  \/ ClaimDirtyProjectsForSnapshot
  \/ ReadForRefresh
  \/ CommitRefresh
  \/ ClearStaleProjectDaySummaries
  \/ RefreshRecentFailureWindowCounts

Next ==
  \/ \E call \in Calls : Finish(call)
  \/ RunUsageStatsBaseAggregation
  \/ Work
  \/ RefreshFails
  \/ AgingFails
  \/ Crash
  \/ Tick

Spec == Init /\ [][Next]_vars

\* Both workers run on a ticker of their own, whatever happened in the last tick.
FairSpec == Spec /\ WF_vars(RunUsageStatsBaseAggregation) /\ WF_vars(Work)

-----------------------------------------------------------------------------
(* Properties. *)

Done == DOMAIN calls \ pending
Tally(ids) == FoldSet(LAMBDA i, acc : Plus(Increment(calls[i]), acc), NoUse, ids)

\* usage_stats.go, lines 23-118: whatever the batches were, the series a user
\* or a project is shown count every aggregated call of their time exactly
\* once, in the point of its acceptance, and call a point complete only when
\* no call can be accepted in it any more.
Counted(series, mine, length) ==
  \A s \in DOMAIN series :
    /\ series[s].use = Tally({i \in mine : calls[i].at \in s..(s + length - 1)})
    /\ series[s].complete <=> s + length <= HourStart(now) \/ (length = SlotsPerDay /\ s + length <= now)
SeriesCountCalls ==
  \A r \in SeriesRanges \cup {"1d"} :
    LET length == IF r = "1d" THEN SlotsPerHour ELSE SlotsPerDay
        OfAccount(u) == {i \in Done : Owner[calls[i].project] = u}
        OfProject(p) == {i \in Done : calls[i].project = p}
    IN /\ \A u \in Users :
            LET series == GetAccountUsageStats(u, r, now) IN
            /\ Counted(series, OfAccount(u), length)
            /\ Totals(series) = Tally({i \in OfAccount(u) : calls[i].at >= Min(DOMAIN series)})
       /\ \A p \in Projects : Counted(GetProjectUsageStats(p, r, now), OfProject(p), length)

\* usage_stats.go, lines 391-444: a project that is neither dirty nor claimed
\* shows, in every range, exactly the aggregated calls of that range at the time
\* of its last refresh, ranked by credits and requests and with no better model
\* left out; its histogram counts every call once, and only the last bar may
\* have less than its share. Calls aggregated during a refresh never leave the
\* project looking clean. The exception is a claim whose refresh failed.
Settled(p) == dirty[p] = claimed[p] /\ p \notin lost /\ \A item \in worker.queue : item[1] # p
InRange(p, r, at) == {i \in Done : calls[i].project = p /\ calls[i].at > at - RangeSlots[r]}
ShowsModels(rows, ids) ==
  LET used == {calls[i].model : i \in ids}
      Mine(m) == [model |-> m, use |-> Tally({i \in ids : calls[i].model = m})]
      shown == {rows[k].model : k \in DOMAIN rows}
  IN /\ Len(rows) = Min({TopN, Cardinality(used)}) /\ Cardinality(shown) = Len(rows)
     /\ \A k \in DOMAIN rows : rows[k].model \in used /\ rows[k] = Mine(rows[k].model)
     /\ \A k \in DOMAIN rows, m \in used :
          Ranked(Mine(m), rows[k]) => \E j \in 1..(k - 1) : rows[j].model = m
ShowsDurations(bars, ids) ==
  /\ Len(bars) <= MaxDisplay
  /\ ids = {} <=> bars = <<>>
  /\ \A k \in DOMAIN bars :
       /\ bars[k].count = Cardinality({i \in ids : calls[i].bucket \in bars[k].from..bars[k].to})
       /\ bars[k].from = IF k = 1 THEN 1 ELSE bars[k - 1].to + 1
       /\ IF k = Len(bars) THEN bars[k].to = Buckets ELSE bars[k].count * MaxDisplay >= Cardinality(ids)
SnapshotsAreCurrent ==
  \A p \in Projects : Settled(p) =>
    LET shown == snapshot[p]
        day == {i \in Done : calls[i].project = p /\ calls[i].at >= DayStart(shown.at)}
    IN /\ \A r \in Ranges :
            /\ ShowsModels(shown.models[r], InRange(p, r, shown.at))
            /\ ShowsDurations(shown.durations[r], InRange(p, r, shown.at))
       /\ summary[p].day = Tally(day) \/ (summary[p].day = NoUse /\ lastRequest[p] < DayStart(now))

\* usage_stats.go, lines 480-611: when time stands still, the counts of the
\* recent window come to be those of the aggregated calls of that window, and
\* the counts of an earlier day are cleared, in every project and whether or
\* not its refreshes failed; no project is starved while one batch holds all.
Aged(p) ==
  LET ids == {i \in Done : calls[i].project = p /\ calls[i].at \in RecentWindow(now)} IN
  /\ summary[p].window = [success |-> Tally(ids).success, failure |-> Tally(ids).failure]
  /\ lastRequest[p] < DayStart(now) => summary[p].day = NoUse
SummariesAge == \A p \in Projects : <>[]Aged(p)
=============================================================================
