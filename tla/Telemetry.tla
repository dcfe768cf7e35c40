------------------------------ MODULE Telemetry -----------------------------
(***************************************************************************)
(* What the API keeps about itself in memory: metrics, traces, the audit   *)
(* log and the activity feeds.  Each store but that of the traces has a    *)
(* cap, and what the reports say is computed from what is left in it.      *)
(***************************************************************************)
EXTENDS Naturals, Sequences, FiniteSets, FiniteSetsExt, SequencesExt

CONSTANTS Duration,   \* milliseconds: a small set
          HttpCap,    \* 2000
          AiCap,      \* 1000
          AuditCap,   \* 2000
          FeedCap,    \* 500
          Actor, Workspace,
          Primary,    \* the workspace whose feed stands in for one without activity
          MaxRecords  \* bound: records of one behaviour

VARIABLES totalRequests, errorRequests, httpLatencies,
          totalTokensConsumed, aiLatencies,
          cacheHits, cacheMisses,
          traces,               \* in the order of their start
          logs, feeds,          \* newest record first; a feed per workspace that has one
          recorded              \* history: the records, oldest first

metricsVars == <<totalRequests, errorRequests, httpLatencies, totalTokensConsumed, aiLatencies,
                 cacheHits, cacheMisses>>
vars == <<metricsVars, traces, logs, feeds, recorded>>

\* Of the seeds only what matters: few samples beside larger totals, two
\* traces, audit entries stored oldest first, and one feed.
Log(actor, status) == [actor |-> actor, status |-> status]
SeedLogs == LET a == CHOOSE x \in Actor : TRUE IN <<Log(a, "SUCCESS"), Log(a, "SUCCESS")>>
SeedTraces == <<[spans |-> <<[end |-> 4, status |-> "OK"]>>, duration |-> 4, status |-> "OK"]>>
SeedFeed == <<0>>

Init ==
  /\ totalRequests = 3 /\ errorRequests = 1 /\ httpLatencies = <<2>>
  /\ totalTokensConsumed = 5 /\ aiLatencies = <<2>>
  /\ cacheHits = 2 /\ cacheMisses = 1
  /\ traces = SeedTraces /\ logs = SeedLogs
  /\ feeds = [w \in {Primary} |-> SeedFeed]
  /\ recorded = <<>>

Record(what) == Len(recorded) < MaxRecords /\ recorded' = Append(recorded, what)

\* A window slides: the oldest sample goes when there is one too many.
Slid(samples, cap, sample) ==
  LET s == Append(samples, sample) IN IF Len(s) > cap THEN Tail(s) ELSE s

\* Fault variant of Stacked: the first one is dropped, as in a window that slides.
StackedAndSlid(entries, cap, entry) ==
  LET s == <<entry>> \o entries IN IF Len(s) > cap THEN Tail(s) ELSE s

\* The newest goes to the front and the last one is dropped.
Stacked(entries, cap, entry) ==
  LET s == <<entry>> \o entries IN IF Len(s) > cap THEN Front(s) ELSE s

-----------------------------------------------------------------------------
RecordHttpRequest(failed, durationMs) ==
  /\ Record([kind |-> "http", value |-> durationMs])
  /\ totalRequests' = totalRequests + 1
  /\ errorRequests' = IF failed THEN errorRequests + 1 ELSE errorRequests
  /\ httpLatencies' = Slid(httpLatencies, HttpCap, durationMs)
  /\ UNCHANGED <<totalTokensConsumed, aiLatencies, cacheHits, cacheMisses, traces, logs, feeds>>

RecordAiUsage(tokens, durationMs) ==
  /\ Record([kind |-> "ai", value |-> durationMs])
  /\ totalTokensConsumed' = totalTokensConsumed + tokens
  /\ aiLatencies' = Slid(aiLatencies, AiCap, durationMs)
  /\ UNCHANGED <<totalRequests, errorRequests, httpLatencies, cacheHits, cacheMisses, traces, logs, feeds>>

RecordCacheAccess(hit) ==
  /\ Record([kind |-> "cache", value |-> hit])
  /\ cacheHits' = IF hit THEN cacheHits + 1 ELSE cacheHits
  /\ cacheMisses' = IF hit THEN cacheMisses ELSE cacheMisses + 1
  /\ UNCHANGED <<totalRequests, errorRequests, httpLatencies, totalTokensConsumed, aiLatencies, traces, logs, feeds>>

StartTrace ==
  /\ Record([kind |-> "trace", value |-> 0])
  /\ traces' = Append(traces, [spans |-> <<>>, duration |-> 0, status |-> "OK"])
  /\ UNCHANGED <<metricsVars, logs, feeds>>

\* Spans of one trace are added in whatever order they end.
WithSpan(trace, span) ==
  [spans |-> Append(trace.spans, span),
   duration |-> Max({trace.duration, span.end}),
   status |-> IF span.status = "ERROR" THEN "ERROR" ELSE trace.status]

AddSpan(t, start, durationMs, status) ==
  /\ t \in DOMAIN traces
  /\ Record([kind |-> "span", value |-> t])
  /\ traces' = [traces EXCEPT ![t] = WithSpan(@, [end |-> start + durationMs, status |-> status])]
  /\ UNCHANGED <<metricsVars, logs, feeds>>

RecordAudit(actor, status) ==
  /\ Record([kind |-> "audit", value |-> Log(actor, status)])
  /\ logs' = Stacked(logs, AuditCap, Log(actor, status))
  /\ UNCHANGED <<metricsVars, traces, feeds>>

\* An item is the number of its record.
RecordActivity(w) ==
  /\ Record([kind |-> "activity", value |-> w])
  /\ LET list == IF w \in DOMAIN feeds THEN feeds[w] ELSE <<>>
         stacked == Stacked(list, FeedCap, Len(recorded'))
     IN feeds' = [v \in DOMAIN feeds \cup {w} |-> IF v = w THEN stacked ELSE feeds[v]]
  /\ UNCHANGED <<metricsVars, traces, logs>>

Next ==
  \/ \E d \in Duration, failed \in BOOLEAN : RecordHttpRequest(failed, d)
  \/ \E d \in Duration : RecordAiUsage(1, d)
  \/ \E hit \in BOOLEAN : RecordCacheAccess(hit)
  \/ StartTrace
  \/ \E t \in DOMAIN traces, start, d \in Duration, status \in {"OK", "ERROR"} : AddSpan(t, start, d, status)
  \/ \E a \in Actor, status \in {"SUCCESS", "FAILURE"} : RecordAudit(a, status)
  \/ \E w \in Workspace : RecordActivity(w)

Spec == Init /\ [][Next]_vars

-----------------------------------------------------------------------------
(***************************************************************************)
(* The reports.                                                            *)
(***************************************************************************)
\* The sample below which p percent of them are, at most the greatest.
Percentile(samples, p) ==
  LET sorted == SortSeq(samples, <)
      index == Min({Len(samples) - 1, (p * Len(samples)) \div 100})
  IN sorted[index + 1]

Percentiles(samples) ==
  [p \in {50, 95, 99} |-> IF samples = <<>> THEN 0 ELSE Percentile(samples, p)]

Stats ==
  [total |-> Len(logs),
   byStatus |-> [s \in {l.status : l \in ToSet(logs)} |-> Len(SelectSeq(logs, LAMBDA l : l.status = s))],
   byUser |-> [a \in {l.actor : l \in ToSet(logs)} |-> Len(SelectSeq(logs, LAMBDA l : l.actor = a))]]

FilteredLogs(status, limit) ==
  LET list == SelectSeq(logs, LAMBDA l : l.status = status)
  IN SubSeq(list, 1, Min({Len(list), limit}))

ActivityFeed(w) == IF w \in DOMAIN feeds THEN feeds[w] ELSE feeds[Primary]

Traced(status) == SelectSeq(traces, LAMBDA t : t.status = status)

-----------------------------------------------------------------------------
(***************************************************************************)
(* Properties                                                              *)
(***************************************************************************)
\* Types of the counters, the windows and the stores.
TypeOK ==
  /\ {totalRequests, errorRequests, totalTokensConsumed, cacheHits, cacheMisses} \subseteq Nat
  /\ Len(httpLatencies) \in 1 .. HttpCap /\ Len(aiLatencies) \in 1 .. AiCap
  /\ Len(logs) \in 1 .. AuditCap /\ \A w \in DOMAIN feeds : Len(feeds[w]) \in 1 .. FeedCap
  /\ DOMAIN feeds \subseteq Workspace /\ Primary \in DOMAIN feeds

\* The values of the records of one kind, oldest first.
Values(kind) == LET ofKind == SelectSeq(recorded, LAMBDA r : r.kind = kind)
                IN [i \in DOMAIN ofKind |-> ofKind[i].value]
LastOf(s, n) == SubSeq(s, Len(s) - Min({n, Len(s)}) + 1, Len(s))

\* After any records, in whatever order and over every cap, the windows hold
\* the latest samples, the logs and feeds the latest entries of their own
\* workspace (one without any shows the primary workspace's), and no counter counts what was not recorded.
LatestKept ==
  /\ httpLatencies = LastOf(<<2>> \o Values("http"), HttpCap)
  /\ aiLatencies = LastOf(<<2>> \o Values("ai"), AiCap)
  /\ totalRequests = 3 + Len(Values("http")) /\ errorRequests <= totalRequests
  /\ cacheHits + cacheMisses = 3 + Len(Values("cache"))
  /\ LET mine == Reverse(Values("audit")) \o SeedLogs
     IN logs = SubSeq(mine, 1, Min({AuditCap, Len(mine)}))
  /\ \A w \in Workspace : LET feed == ActivityFeed(w) IN \A i, j \in DOMAIN feed :
       /\ i < j => feed[i] > feed[j]
       /\ feed[i] > 0 => LET r == recorded[feed[i]]
                         IN r.kind = "activity" /\ (r.value = w \/ (w \notin DOMAIN feeds /\ r.value = Primary))

\* Percentiles are samples in the order of their percentages, the statistics
\* of the audit log add up, and a trace lasts to the end of its last span and
\* is in error when one of its spans is.
ReportsAddUp ==
  /\ \A samples \in {httpLatencies, aiLatencies} :
       LET p == Percentiles(samples)
       IN /\ {p[q] : q \in DOMAIN p} \subseteq ToSet(samples)
          /\ p[50] <= p[95] /\ p[95] <= p[99] /\ p[99] <= Max(ToSet(samples))
          /\ Cardinality({i \in DOMAIN samples : samples[i] <= p[50]}) * 2 >= Len(samples)
  /\ FoldFunction(+, 0, Stats.byStatus) = Stats.total
  /\ FoldFunction(+, 0, Stats.byUser) = Stats.total
  /\ \A s \in DOMAIN Stats.byStatus : Len(FilteredLogs(s, Stats.total)) = Stats.byStatus[s]
  /\ Len(Traced("OK")) + Len(Traced("ERROR")) = Len(traces)
  /\ \A i \in DOMAIN traces :
       /\ traces[i].duration = Max({s.end : s \in ToSet(traces[i].spans)} \cup {0})
       /\ traces[i].status = "ERROR" <=> \E s \in ToSet(traces[i].spans) : s.status = "ERROR"
=============================================================================
