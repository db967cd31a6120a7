----------------------------- MODULE UsageStats -----------------------------
(***************************************************************************)
(* The usage log of the day and the aggregate behind the statistics panel  *)
(* (src/admin/usage_stats.rs), as UsageRecordHook::record of               *)
(* src/anthropic/handlers.rs feeds them.  A record is the day its          *)
(* timestamp says; the aggregate is its chart of calls per day.            *)
(***************************************************************************)
EXTENDS Naturals, FiniteSets, Functions

CONSTANTS Writers,       \* requests that are recorded at the same time
          MaxRecords,    \* bound: records ever made
          MaxDay,        \* bound: the last day
          Horizon,       \* RETENTION_DAYS and DAY_BUCKETS
          Retentions     \* days of logs an operator may keep

ASSUME UsageStatsAssumption ==
    /\ IsFiniteSet(Writers) /\ MaxDay \in Nat
    /\ Horizon \in Nat \ {0} /\ Retentions \subseteq Nat \ {0}

VARIABLES
    day,           \* the local date
    logs,          \* usage_log.<date>.jsonl: records by their day, per date
    buckets,       \* AggregatorInner.day_buckets: day |-> calls
    writer,        \* the record each request is making
    retention,     \* UsageRecorder.retention_days
    records,       \* how many records were made
    unlogged,      \* history: records of this process that no log took, per day
    cleaned        \* history: days some record of which was cleaned up

statsVars == <<day, logs, buckets, writer, retention, records, unlogged, cleaned>>

Days == 0..MaxDay
Zero == [d \in Days |-> 0]
Plus(f, d) == [f EXCEPT ![d] = @ + 1]
NoRecord == [pc |-> "none", ts |-> 0]
At(w, pc) == writer' = [writer EXCEPT ![w].pc = pc]

\* upsert_bucket: the oldest buckets go when there are too many.
Newest(days) == {d \in days : Cardinality({e \in days : e > d}) < Horizon}
Ingested(b, d) ==
    LET calls == [e \in DOMAIN b \cup {d} |-> (IF e \in DOMAIN b THEN b[e] ELSE 0)
                                               + (IF e = d THEN 1 ELSE 0)]
    IN  Restrict(calls, Newest(DOMAIN calls))

\* rebuild_from_logs: the files of the horizon, into the day of each record.
Recent == {f \in Days : f + Horizon >= day}
OverDays(Calls(_)) ==
    LET sum[d \in Days] == (IF d = 0 THEN 0 ELSE sum[d - 1]) + Calls(d) IN sum[MaxDay]
Logged(dates, d) == OverDays(LAMBDA f : IF f \in dates THEN logs[f][d] ELSE 0)
FromFiles(Calls(_)) == [d \in Newest({e \in Days : Calls(e) > 0}) |-> Calls(d)]
RebuiltByFileName == FromFiles(LAMBDA f :                       \* mutant
    IF f \in Recent THEN OverDays(LAMBDA d : logs[f][d]) ELSE 0)
Rebuilt == FromFiles(LAMBDA d : Logged(Recent, d))

StatsInit ==
    /\ day = 0 /\ logs = [f \in Days |-> Zero] /\ buckets = <<>>
    /\ writer = [w \in Writers |-> NoRecord] /\ records = 0
    /\ retention \in Retentions /\ unlogged = Zero /\ cleaned = {}

\* A request ends: its record has the time of this moment.
Stamp(w) ==
    /\ writer[w] = NoRecord /\ records < MaxRecords /\ records' = records + 1
    /\ writer' = [writer EXCEPT ![w] = [pc |-> "log", ts |-> day]]
    /\ UNCHANGED <<day, logs, buckets, retention, unlogged, cleaned>>

\* UsageRecorder::record: into the file of a date it reads after the stamp and
\* before it waits for the lock (not for longer than a day), flushed at once; a
\* failure only warns.
Log(w, today, ok) ==
    /\ writer[w].pc = "log" /\ At(w, "ingest")
    /\ today \in writer[w].ts..day /\ today + 1 >= day
    /\ LET ts == writer[w].ts
       IN  /\ logs' = IF ok THEN [logs EXCEPT ![today] = Plus(@, ts)] ELSE logs
           /\ unlogged' = IF ok THEN unlogged ELSE Plus(unlogged, ts)
    /\ UNCHANGED <<day, buckets, retention, records, cleaned>>

\* UsageAggregator::ingest.
Ingest(w) ==
    /\ writer[w].pc = "ingest"
    /\ buckets' = Ingested(buckets, writer[w].ts)
    /\ writer' = [writer EXCEPT ![w] = NoRecord]
    /\ UNCHANGED <<day, logs, retention, records, unlogged, cleaned>>

SetRetention(days) ==
    /\ retention' = days
    /\ UNCHANGED <<day, logs, buckets, writer, records, unlogged, cleaned>>

\* cleanup_old_logs, once a day.
CleanUpLogs ==
    LET old == {f \in Days : f + retention < day}
    IN  /\ logs' = [f \in Days |-> IF f \in old THEN Zero ELSE logs[f]]
        /\ cleaned' = cleaned \cup {d \in Days : Logged(old, d) > 0}
        /\ UNCHANGED <<day, buckets, writer, retention, records, unlogged>>

NextDay ==
    /\ day < MaxDay /\ day' = day + 1
    /\ UNCHANGED <<logs, buckets, writer, retention, records, unlogged, cleaned>>

StatsRestart ==
    /\ buckets' = Rebuilt
    /\ writer' = [w \in Writers |-> NoRecord] /\ unlogged' = Zero
    /\ UNCHANGED <<day, logs, retention, records, cleaned>>

StatsNext ==
    \/ \E w \in Writers : Stamp(w) \/ (\E today \in Days, ok \in BOOLEAN : Log(w, today, ok)) \/ Ingest(w)
    \/ \E days \in Retentions : SetRetention(days)
    \/ CleanUpLogs \/ NextDay \/ StatsRestart

\* Every day of the chart counts what the logs hold of that day, less the
\* records logged and not ingested yet, plus those this process could not log:
\* no restart, midnight or full list of buckets counts a call twice or drops one.
ChartMatchesLogs ==
    \A d \in {e \in Days : e + Horizon > day} \ cleaned :
        LET shown == IF d \in DOMAIN buckets THEN buckets[d] ELSE 0
            coming == {w \in Writers : writer[w] = [pc |-> "ingest", ts |-> d]}
        IN  shown + Cardinality(coming) = Logged(Days, d) + unlogged[d]
=============================================================================
