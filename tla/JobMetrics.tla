----------------------------- MODULE JobMetrics -----------------------------
(* Resource metrics of one Attempt: the sampler beside the executor, which    *)
(* prints whole snapshots and a final one when its stdin closes               *)
(* (apps/runtime/internal/jobmetrics), the Agent's forwarding of its lines,   *)
(* one upload in flight and the newest unsent one behind it                   *)
(* (apps/action-runner-agent/job-metrics.ts), and the summary and series rows *)
(* the control plane keeps (packages/backend/convex/attemptMetrics.ts).       *)
(*                                                                            *)
(* A snapshot is the CPU of each bucket so far, one sample to a bucket. An    *)
(* upload whose call failed may still be processed, and any may be repeated.  *)
EXTENDS Naturals, Sequences, FiniteSets, FiniteSetsExt, TLC

CONSTANTS
  CpuLevels,         \* what a bucket may measure
  MaxSamples,        \* the buckets of a series
  Percentile,        \* of weightedQuantile, in percent
  LateUpload,        \* METRICS_LATE_REPORT_MS
  MetricsRetention,  \* METRICS_RETENTION_MS
  MaxMinutes,        \* the end of time
  MaxUploadFaults,   \* failed, lost and repeated uploads
  Nothing            \* no report, no row, not yet

ASSUME MetricsAssumption ==
  /\ CpuLevels \subseteq Nat /\ Percentile \in 1..100
  /\ {MaxSamples, LateUpload, MetricsRetention, MaxMinutes, MaxUploadFaults} \subseteq Nat
  /\ LateUpload < MetricsRetention

VARIABLES
  measured,    \* the sampler's series
  printed,     \* the samples of the last line it wrote
  sampler,     \* "running" or "gone"
  pipe,        \* lines the Agent has not read
  pending, inFlight,  \* reports of the Agent
  wire,        \* uploads the control plane may still process
  stopping,    \* how far stop() is: "no", "exit", "flush", "done"
  finishedAt,
  summaryRow, seriesRow,
  took,        \* history: the snapshots taken for the rows
  lossy,       \* history: a snapshot was given up on the way, or expired
  faulted, minute

metricVars == <<measured, printed, sampler, pipe, pending, inFlight, wire, stopping,
                finishedAt, summaryRow, seriesRow, took, lossy, faulted, minute>>
agentVars == <<pending, inFlight, wire>>
rowVars == <<summaryRow, seriesRow, took>>

MetricsInit ==
  /\ measured = <<>> /\ printed = 0 /\ sampler = "running" /\ pipe = <<>>
  /\ pending = Nothing /\ inFlight = Nothing /\ wire = {} /\ stopping = "no"
  /\ finishedAt = Nothing /\ summaryRow = Nothing /\ seriesRow = Nothing /\ took = {}
  /\ lossy = FALSE /\ faulted = 0 /\ minute = 0

sampleOnce(cpu) ==
  /\ sampler = "running" /\ Len(measured) < MaxSamples
  /\ measured' = Append(measured, cpu)
  /\ UNCHANGED <<printed, sampler, pipe, agentVars, stopping, finishedAt, rowVars, lossy, faulted,
                 minute>>

(* WriteReports: a line whenever the series gained a sample, and a final one  *)
(* once stdin is closed, if there is anything to say.                         *)
WriteReports ==
  /\ sampler = "running"
  /\ \/ /\ Len(measured) > printed
        /\ pipe' = Append(pipe, [final |-> FALSE, points |-> measured])
        /\ printed' = Len(measured) /\ UNCHANGED sampler
     \/ /\ stopping # "no" /\ sampler' = "gone"
        /\ pipe' = IF measured = <<>> THEN pipe
                   ELSE Append(pipe, [final |-> TRUE, points |-> measured])
        /\ UNCHANGED printed
  /\ UNCHANGED <<measured, agentVars, stopping, finishedAt, rowVars, lossy, faulted, minute>>

samplerDies ==
  /\ sampler = "running" /\ sampler' = "gone" /\ lossy' = TRUE
  /\ UNCHANGED <<measured, printed, pipe, agentVars, stopping, finishedAt, rowVars, faulted, minute>>

(* pump: the waiting report goes out when nothing else is.                    *)
pump(waiting, flying) ==
  /\ inFlight' = IF flying = Nothing THEN waiting ELSE flying
  /\ pending' = IF flying = Nothing THEN Nothing ELSE waiting
  /\ wire' = IF flying = Nothing /\ waiting # Nothing THEN wire \cup {waiting} ELSE wire

(* A line is read. One beyond MAX_LINE_BYTES is discarded.                    *)
accept ==
  /\ pipe # <<>> /\ pipe' = Tail(pipe)
  /\ \/ LET report == Head(pipe) IN
        /\ IF pending # Nothing /\ pending.final /\ ~report.final THEN UNCHANGED agentVars
           ELSE pump(report, inFlight)
        /\ UNCHANGED lossy
     \/ lossy' = TRUE /\ UNCHANGED agentVars
  /\ UNCHANGED <<measured, printed, sampler, stopping, finishedAt, rowVars, faulted, minute>>

(* The call returns, or fails: then nobody knows whether it was processed.    *)
send ==
  /\ inFlight # Nothing
  /\ \/ inFlight \notin wire /\ UNCHANGED <<lossy, faulted>>
     \/ /\ inFlight \in wire /\ faulted < MaxUploadFaults
        /\ lossy' = TRUE /\ faulted' = faulted + 1
  /\ pump(pending, Nothing)
  /\ UNCHANGED <<measured, printed, sampler, pipe, stopping, finishedAt, rowVars, minute>>

loseUpload ==
  /\ faulted < MaxUploadFaults /\ faulted' = faulted + 1 /\ lossy' = TRUE
  /\ \E r \in wire : wire' = wire \ {r}
  /\ UNCHANGED <<measured, printed, sampler, pipe, pending, inFlight, stopping, finishedAt, rowVars,
                 minute>>

(* Mutant of busy: an upload under way is not waited for.                     *)
onlyPending == pending # Nothing
busy == inFlight # Nothing \/ pending # Nothing

(* stop: stdin closes; the sampler gets its time to exit and is killed        *)
(* otherwise; what is still to be sent gets its time and is abandoned         *)
(* otherwise.                                                                 *)
stopCalled ==
  /\ stopping = "no" /\ stopping' = "exit"
  /\ UNCHANGED <<measured, printed, sampler, pipe, agentVars, finishedAt, rowVars, lossy, faulted,
                 minute>>
exitAwaited ==
  /\ stopping = "exit" /\ stopping' = "flush"
  /\ \/ sampler = "gone" /\ pipe = <<>> /\ UNCHANGED <<sampler, lossy>>
     \/ ~(sampler = "gone" /\ pipe = <<>>) /\ sampler' = "gone" /\ lossy' = TRUE
  /\ UNCHANGED <<measured, printed, pipe, agentVars, finishedAt, rowVars, faulted, minute>>
flushed ==
  /\ stopping = "flush" /\ stopping' = "done"
  /\ \/ ~busy /\ UNCHANGED <<pending, lossy>>
     \/ busy /\ pending' = Nothing /\ lossy' = TRUE
  /\ UNCHANGED <<measured, printed, sampler, pipe, inFlight, wire, finishedAt, rowVars, faulted,
                 minute>>

(* weightedQuantile: the sorted buckets are walked until the wanted share of  *)
(* the time is behind; summarizeMetrics keeps it beside the busiest bucket.   *)
weightedQuantile(points, percent) ==
  LET sorted == SortSeq(points, <)
  IN  sorted[Min({i \in DOMAIN sorted : 100 * i >= percent * Len(points)})]
summarizeMetrics(r) ==
  [final |-> r.final, samples |-> Len(r.points), updatedAt |-> minute,
   cpuP95 |-> weightedQuantile(r.points, Percentile),
   cpuMax |-> Max({r.points[i] : i \in DOMAIN r.points})]

(* A snapshot the stored one is no older than changes nothing, nor does       *)
(* anything after a final one.                                                *)
(* Mutant of superseded: an upload that arrives late replaces a newer one.    *)
finalOnly(r) == summaryRow # Nothing /\ summaryRow.final
superseded(r) ==
  /\ summaryRow # Nothing
  /\ \/ summaryRow.final
     \/ Len(r.points) < summaryRow.samples
     \/ Len(r.points) = summaryRow.samples /\ ~r.final

(* The control plane processes an upload: nothing once the Attempt has been   *)
(* settled too long.                                                          *)
recordAttemptMetrics(r, repeated) ==
  /\ r \in wire
  /\ wire' = IF repeated THEN wire ELSE wire \ {r}
  /\ faulted' = IF repeated THEN faulted + 1 ELSE faulted
  /\ faulted' <= MaxUploadFaults
  /\ IF finishedAt # Nothing /\ minute > finishedAt + LateUpload
       THEN lossy' = TRUE /\ UNCHANGED rowVars
       ELSE /\ took' = took \cup {r} /\ UNCHANGED lossy
            /\ IF superseded(r) THEN UNCHANGED <<summaryRow, seriesRow>>
               ELSE summaryRow' = summarizeMetrics(r) /\ seriesRow' = r.points
  /\ UNCHANGED <<measured, printed, sampler, pipe, pending, inFlight, stopping, finishedAt, minute>>

(* Whether right-sizing reads the Attempt for a window: by its summary, or by *)
(* its repository, whose finished Attempts are looked up from an upload's     *)
(* lateness before the window.                                                *)
measuredAll(start) ==
  summaryRow # Nothing /\ summaryRow.updatedAt >= start /\ summaryRow.final
(* Mutant of measuredForRepo: the range starts with the window.               *)
repoFromWindow(start) ==
  finishedAt # Nothing /\ finishedAt >= start /\ measuredAll(start)
measuredForRepo(start) ==
  finishedAt # Nothing /\ finishedAt + LateUpload >= start /\ measuredAll(start)

(* The Attempt settles, by its Agent's report or without one.                 *)
settle ==
  /\ finishedAt = Nothing /\ finishedAt' = minute
  /\ UNCHANGED <<measured, printed, sampler, pipe, agentVars, stopping, rowVars, lossy, faulted,
                 minute>>

purgeMetrics ==
  /\ summaryRow # Nothing /\ summaryRow.updatedAt + MetricsRetention < minute
  /\ summaryRow' = Nothing /\ seriesRow' = Nothing /\ took' = {} /\ lossy' = TRUE
  /\ UNCHANGED <<measured, printed, sampler, pipe, agentVars, stopping, finishedAt, faulted, minute>>

minutePasses ==
  /\ minute < MaxMinutes /\ minute' = minute + 1
  /\ UNCHANGED <<measured, printed, sampler, pipe, agentVars, stopping, finishedAt, rowVars, lossy,
                 faulted>>

MetricsNext ==
  \/ \E cpu \in CpuLevels : sampleOnce(cpu)
  \/ WriteReports \/ samplerDies \/ accept \/ send \/ loseUpload
  \/ stopCalled \/ exitAwaited \/ flushed
  \/ \E r \in wire, repeated \in BOOLEAN : recordAttemptMetrics(r, repeated)
  \/ settle \/ purgeMetrics \/ minutePasses

MetricsSpec == MetricsInit /\ [][MetricsNext]_metricVars

(* Whatever order uploads arrive in, what is kept is the newest snapshot      *)
(* taken, marked final exactly when a final one was, with its own series; and *)
(* stop() called over with nothing given up leaves the whole job stored as    *)
(* final, never an upload still under way.                                    *)
NewestKept ==
  /\ summaryRow = Nothing <=> took = {}
  /\ summaryRow # Nothing =>
       /\ summaryRow.samples = Len(seriesRow)
       /\ summaryRow.samples = Max({Len(r.points) : r \in took})
       /\ summaryRow.final <=> \E r \in took : r.final
FinalArrives ==
  stopping = "done" /\ ~lossy /\ measured # <<>> =>
    summaryRow # Nothing /\ summaryRow.final /\ seriesRow = measured
(* The kept percentile is the least bucket the wanted share of the job was at *)
(* or below.                                                                  *)
PercentileRight ==
  summaryRow # Nothing =>
    LET share(v) == 100 * Cardinality({i \in DOMAIN seriesRow : seriesRow[i] <= v})
        wanted == Percentile * Len(seriesRow)
        values == {seriesRow[i] : i \in DOMAIN seriesRow}
    IN  /\ summaryRow.cpuP95 \in values /\ share(summaryRow.cpuP95) >= wanted
        /\ \A v \in values : v < summaryRow.cpuP95 => share(v) < wanted
        /\ summaryRow.cpuP95 <= summaryRow.cpuMax

(* Every settled Attempt the report over all repositories reads is read for   *)
(* its own repository too, however late its last upload was.                  *)
ReadsAgree ==
  finishedAt # Nothing =>
    \A start \in 0..MaxMinutes : measuredAll(start) <=> measuredForRepo(start)

(* The metrics kept of an Attempt are its own, the newest and, where nothing  *)
(* was given up, complete; right-sizing finds them by either of its reads.    *)
MetricsTrue == NewestKept /\ FinalArrives /\ PercentileRight /\ ReadsAgree
=============================================================================
