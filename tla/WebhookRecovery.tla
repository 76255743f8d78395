-------------------------- MODULE WebhookRecovery ---------------------------
(* Webhook deliveries: recorded once, applied by a scheduled transaction,     *)
(* retried while pending, and asked for again when GitHub's own log says they *)
(* failed (packages/backend/convex/webhooks.ts, recovery.ts, the recovery     *)
(* action of github.ts, the route of http.ts, the retention of reconcile.ts). *)
(*                                                                            *)
(* A mutation is one step. The recovery action is not a transaction: each of  *)
(* its queries, mutations and GitHub calls is a step, and it may die between   *)
(* two of them. Convex starts no second run of a cron while one runs.         *)
EXTENDS Naturals, Sequences, FiniteSets, FiniteSetsExt

CONSTANTS
  Guids,               \* deliveries, by X-GitHub-Delivery
  NoRow,
  RetryAfter,          \* DELIVERY_RETRY_AFTER_MS
  MaxDeliveryAttempts, \* MAX_DELIVERY_ATTEMPTS
  Overlap,             \* WATERMARK_OVERLAP_MS
  Seed,                \* RECOVERY_SEED_MS
  MaxAge,              \* MAX_RECOVERABLE_AGE_MS
  Window,              \* RECOVERY_WINDOW_MS
  Retention,           \* DELIVERY_RETENTION_MS
  PerPage, MaxPages,   \* PER_PAGE, MAX_PAGES
  MaxPerRun,           \* MAX_REDELIVERIES_PER_RUN
  MaxRequests,         \* MAX_RECOVERY_ATTEMPTS
  MaxHours,            \* the end of time
  MaxSends,            \* deliveries GitHub makes
  LastSend,            \* the last time at which something happens on GitHub
  MaxHiccups           \* slow answers, roll-backs, failed listings...

(* The rows; "dropped" stands for rejected and failed.                         *)
DeliveryRows == [status : {"pending", "processed", "dropped"}, at : Nat, tries : Nat]
RecoveryRows == [state : {"requested", "recovered", "abandoned"}, attempts : Nat, last : Nat, next : Nat,
                 refused : BOOLEAN]

ASSUME RecoveryAssumption ==
  /\ {RetryAfter, MaxHours, MaxSends, LastSend, MaxHiccups} \subseteq Nat
  /\ {MaxDeliveryAttempts, Overlap, Seed, PerPage, MaxPages, MaxPerRun, MaxRequests} \subseteq Nat \ {0}
  /\ NoRow \notin Guids /\ NoRow \notin DeliveryRows \cup RecoveryRows
  /\ MaxAge \in Nat /\ Window \in Nat /\ Retention \in Nat
  /\ MaxAge < Window /\ Window < Retention   \* asserted in tests/recovery.test.ts

VARIABLES
  hour,      \* now
  log,       \* GitHub's delivery log, oldest first
  inflight,  \* redeliveries GitHub accepted and has not made yet
  row,       \* webhookDeliveries
  due,       \* per delivery: scheduled runs of processDelivery
  applied,   \* history: times a delivery's event was applied
  rec,       \* webhookRecovery
  asked,     \* history: redelivery requests made
  scan,     \* webhookRecoveryState
  run,       \* the recovery action
  hiccups    \* faults so far

recoveryVars == <<hour, log, inflight, row, due, applied, rec, asked, scan, run, hiccups>>

NoRecovery == [at |-> "idle"]

Monus(a, b) == IF a > b THEN a - b ELSE 0
MaxOf(a, b) == IF a > b THEN a ELSE b
MinOf(a, b) == IF a < b THEN a ELSE b

(* The first run of a deployment looks back RECOVERY_SEED_MS.                 *)
RecoveryInit ==
  /\ hour = Overlap /\ log = <<>> /\ inflight = {}
  /\ row = [g \in Guids |-> NoRow] /\ due = [g \in Guids |-> 0] /\ applied = [g \in Guids |-> 0]
  /\ rec = [g \in Guids |-> NoRow] /\ asked = [g \in Guids |-> 0]
  /\ scan = [mark |-> Monus(hour, Seed), next |-> hour, failures |-> 0] /\ run = NoRecovery /\ hiccups = 0

Hiccup == hiccups < MaxHiccups /\ hiccups' = hiccups + 1

-----------------------------------------------------------------------------
(* Deliveries that arrive.                                                    *)

RecordDelivery(g) ==
  IF row[g] # NoRow THEN UNCHANGED <<row, due>>
  ELSE /\ row' = [row EXCEPT ![g] = [status |-> "pending", at |-> hour, tries |-> 0]]
       /\ due' = [due EXCEPT ![g] = @ + 1]

(* What can become of a delivery: accepted, lost on the way or refused, or    *)
(* accepted too slowly for GitHub, which records a failure all the same.      *)
Deliver(g, how) ==
  /\ Len(log) < MaxSends
  /\ log' = Append(log, [guid |-> g, at |-> hour, ok |-> how = "accepted"])
  /\ IF how = "lost" THEN UNCHANGED <<row, due>> ELSE RecordDelivery(g)
  /\ IF how = "slow" THEN Hiccup ELSE UNCHANGED hiccups
  /\ UNCHANGED <<hour, applied, rec, asked, scan, run>>

FirstDelivery(g, how) ==
  /\ hour <= LastSend /\ \A i \in DOMAIN log : log[i].guid # g
  /\ Deliver(g, how) /\ UNCHANGED inflight

Redelivery(g, how) ==
  /\ g \in inflight
  /\ inflight' = inflight \ {g}
  /\ Deliver(g, how)

(* GitHub logs the events this route ignores beside the others.               *)
OtherEvent ==
  /\ hour <= LastSend /\ Len(log) < MaxSends
  /\ log' = Append(log, [guid |-> NoRow, at |-> hour, ok |-> TRUE])
  /\ UNCHANGED <<hour, inflight, row, due, applied, rec, asked, scan, run, hiccups>>

WhateverItsStatus(g) == row[g] # NoRow   \* a mutant: a settled delivery is applied again
StillPending(g) == row[g] # NoRow /\ row[g].status = "pending"

(* Applied, dropped by the allowlist, or rolled back by an unexpected error.  *)
ProcessDelivery(g, outcome) ==
  /\ due[g] > 0
  /\ due' = [due EXCEPT ![g] = @ - 1]
  /\ IF StillPending(g) /\ outcome # "rolled-back"
     THEN /\ row' = [row EXCEPT ![g] = [status |-> outcome, at |-> hour, tries |-> 0]]
          /\ applied' = [applied EXCEPT ![g] = @ + (IF outcome = "processed" THEN 1 ELSE 0)]
     ELSE UNCHANGED <<row, applied>>
  /\ UNCHANGED <<hour, log, inflight, rec, asked, scan, run>>
  /\ IF outcome # "processed" THEN Hiccup ELSE UNCHANGED hiccups

DeliveryRetryDueAt(g) == row[g].at + (row[g].tries + 1) * RetryAfter

RetryStalledDeliveries ==
  LET stalled == {g \in Guids : StillPending(g) /\ hour >= DeliveryRetryDueAt(g)}
      spent(g) == row[g].tries + 1 >= MaxDeliveryAttempts
  IN /\ stalled # {}
     /\ row' = [g \in Guids |-> IF g \notin stalled THEN row[g]
                                ELSE IF spent(g) THEN [status |-> "dropped", at |-> hour, tries |-> 0]
                                ELSE [row[g] EXCEPT !.tries = @ + 1]]
     /\ due' = [g \in Guids |-> due[g] + (IF g \in stalled /\ ~spent(g) THEN 1 ELSE 0)]
     /\ UNCHANGED <<hour, log, inflight, applied, rec, asked, scan, run, hiccups>>

ShortRetention(at) == hour > at   \* a mutant: a delivery is forgotten while it can be listed
Forgotten(at) == hour >= at + Retention

(* The reconciler forgets what settled a retention ago.                       *)
PurgeSettled ==
  LET gone == {g \in Guids : row[g] # NoRow /\ row[g].status # "pending" /\ Forgotten(row[g].at)}
      over == {g \in Guids : rec[g] # NoRow /\ rec[g].state # "requested" /\ Forgotten(rec[g].last)}
  IN /\ gone \cup over # {}
     /\ row' = [g \in Guids |-> IF g \in gone THEN NoRow ELSE row[g]]
     /\ rec' = [g \in Guids |-> IF g \in over THEN NoRow ELSE rec[g]]
     /\ UNCHANGED <<hour, log, inflight, due, applied, asked, scan, run, hiccups>>

-----------------------------------------------------------------------------
(* The recovery run.                                                          *)

ClampWatermark(previous, now) == MinOf(MaxOf(previous, Monus(now, Window)), now)
AdvanceWatermark(previous, newest, now) ==
  ClampWatermark(MaxOf(previous, Monus(newest, Overlap)), now)

NextRunDelay(failures) == MinOf(failures, 2)

(* Rows whose delivery arrived are closed; rows that spent their requests and *)
(* whose last backoff passed are given up.                                    *)
ReconcileRecovered(g) ==
  IF rec[g] = NoRow \/ rec[g].state # "requested" THEN rec[g]
  ELSE IF row[g] # NoRow THEN [rec[g] EXCEPT !.state = "recovered", !.refused = FALSE]
  ELSE IF rec[g].attempts >= MaxRequests /\ hour >= rec[g].next THEN [rec[g] EXCEPT !.state = "abandoned"]
  ELSE rec[g]

BeginRecoveryRun ==
  /\ run = NoRecovery
  /\ rec' = [g \in Guids |-> ReconcileRecovered(g)]
  /\ run' = IF hour < scan.next THEN NoRecovery
            ELSE [at |-> "listing", now |-> hour, from |-> ClampWatermark(scan.mark, hour),
                  hi |-> Len(log), lo |-> Len(log) + 1, todo |-> {}, cut |-> FALSE]
  /\ UNCHANGED <<hour, log, inflight, row, due, applied, asked, scan, hiccups>>

LowOf(k) == Monus(run.hi, k * PerPage) + 1
PageIsExhausted(k) == \A i \in LowOf(k) .. Monus(run.hi, (k - 1) * PerPage) : log[i].at <= run.from
Ends(k) == LowOf(k) = 1 \/ PageIsExhausted(k)

(* The pages of the log, newest first; it only grows at its newer end, so     *)
(* reading them one by one makes no difference. The scan is cut when the last *)
(* page it may read is neither the log's end nor wholly behind the watermark. *)
ListDeliveries ==
  /\ run.at = "listing"
  /\ LET ending == {k \in 1 .. MaxPages : Ends(k)}
     IN run' = [run EXCEPT !.at = "listed", !.cut = ending = {},
                           !.lo = LowOf(IF ending = {} THEN MaxPages ELSE Min(ending))]
  /\ UNCHANGED <<hour, log, inflight, row, due, applied, rec, asked, scan, hiccups>>

NewestFailed(items, g) == Max({i \in items : log[i].guid = g})

(* A delivery with any success in the listing is not recoverable; of the rest *)
(* the oldest come first, as many as one run may ask for.                     *)
Recoverable(items) ==
  {g \in {log[i].guid : i \in items} \ {NoRow} :
     /\ \A i \in items : log[i].guid = g => ~log[i].ok
     /\ LET at == log[NewestFailed(items, g)].at IN at > run.from /\ Monus(run.now, at) <= MaxAge}

SelectRecoverable(items) ==
  {g \in Recoverable(items) :
     Cardinality({h \in Recoverable(items) : NewestFailed(items, h) < NewestFailed(items, g)}) < MaxPerRun}

NeverCut(cands) == FALSE   \* a mutant: the cap on a run does not hold the watermark
Capped(cands) == Cardinality(cands) = MaxPerRun

MissingGuids ==
  /\ run.at = "listed"
  /\ LET cands == SelectRecoverable(run.lo .. run.hi)
     IN run' = [run EXCEPT !.at = "missing", !.cut = @ \/ Capped(cands),
                           !.todo = {g \in cands : row[g] = NoRow}]
  /\ UNCHANGED <<hour, log, inflight, row, due, applied, rec, asked, scan, hiccups>>

RecoveryBackoff(attempts) == MinOf(attempts, 2)

MayAsk(g) == rec[g] = NoRow \/ rec[g].attempts + 1 <= MaxRequests

Waits(g) == rec[g] # NoRow /\ (rec[g].state # "requested" \/ run.now < rec[g].next)

NotCounted(g) == 1   \* a mutant: the attempt is not carried over
Attempt(g) == IF rec[g] = NoRow THEN 1 ELSE rec[g].attempts + 1

Decided(g) ==
  IF Waits(g) THEN rec[g]
  ELSE IF ~MayAsk(g) THEN [rec[g] EXCEPT !.state = "abandoned"]
  ELSE [state |-> "requested", attempts |-> Attempt(g), last |-> run.now,
        next |-> run.now + RecoveryBackoff(Attempt(g)), refused |-> IF rec[g] = NoRow THEN FALSE ELSE rec[g].refused]

(* The attempt is counted before the request is made.                         *)
ClaimRecovery ==
  /\ run.at = "missing"
  /\ rec' = [g \in Guids |-> IF g \in run.todo THEN Decided(g) ELSE rec[g]]
  /\ run' = [run EXCEPT !.at = "asking", !.todo = {g \in @ : ~Waits(g) /\ MayAsk(g)}]
  /\ UNCHANGED <<hour, log, inflight, row, due, applied, asked, scan, hiccups>>

(* GitHub takes the request or refuses it; settleRecovery notes which.        *)
Redeliver(g, ok) ==
  /\ run.at = "asking" /\ g \in run.todo
  /\ asked' = [asked EXCEPT ![g] = @ + 1]
  /\ inflight' = IF ok THEN inflight \cup {g} ELSE inflight
  /\ rec' = [rec EXCEPT ![g] = IF @ = NoRow THEN @ ELSE [@ EXCEPT !.refused = ~ok]]
  /\ run' = [run EXCEPT !.todo = @ \ {g}]
  /\ UNCHANGED <<hour, log, row, due, applied, scan, hiccups>>

FinishRecoveryRun ==
  /\ run.at = "asking" /\ run.todo = {}
  /\ scan' = [mark |-> IF run.cut \/ run.lo > run.hi THEN ClampWatermark(scan.mark, run.now)
                        ELSE AdvanceWatermark(scan.mark, log[run.hi].at, run.now),
               next |-> run.now, failures |-> 0]
  /\ run' = NoRecovery
  /\ UNCHANGED <<hour, log, inflight, row, due, applied, rec, asked, hiccups>>

(* No App configured: a run that did nothing.                                 *)
SkipNoApp ==
  /\ Hiccup
  /\ run.at = "listing"
  /\ scan' = [mark |-> ClampWatermark(scan.mark, run.now), next |-> run.now, failures |-> 0]
  /\ run' = NoRecovery
  /\ UNCHANGED <<hour, log, inflight, row, due, applied, rec, asked>>

(* GitHub fails the listing: the breaker widens the gap to the next run.      *)
ListFails ==
  /\ Hiccup
  /\ run.at = "listing"
  /\ scan' = [mark |-> ClampWatermark(scan.mark, run.now), failures |-> MinOf(scan.failures + 1, 2),
               next |-> run.now + NextRunDelay(scan.failures + 1)]
  /\ run' = NoRecovery
  /\ UNCHANGED <<hour, log, inflight, row, due, applied, rec, asked>>

(* The action dies and writes no run record.                                  *)
RunDies ==
  /\ Hiccup
  /\ run # NoRecovery /\ run' = NoRecovery
  /\ UNCHANGED <<hour, log, inflight, row, due, applied, rec, asked, scan>>

(* Time is counted in ten minutes, in which Convex ends an action and runs    *)
(* what is scheduled at once, and GitHub makes a redelivery it accepted.      *)
Passes ==
  /\ hour < MaxHours
  /\ inflight = {} /\ run = NoRecovery /\ \A g \in Guids : due[g] = 0
  /\ hour' = hour + 1
  /\ UNCHANGED <<log, inflight, row, due, applied, rec, asked, scan, run, hiccups>>

RecoveryNext ==
  \/ \E g \in Guids, how \in {"accepted", "lost", "slow"} : FirstDelivery(g, how) \/ Redelivery(g, how)
  \/ \E g \in Guids, o \in {"processed", "dropped", "rolled-back"} : ProcessDelivery(g, o)
  \/ OtherEvent \/ RetryStalledDeliveries \/ PurgeSettled
  \/ BeginRecoveryRun \/ ListDeliveries \/ MissingGuids \/ ClaimRecovery
  \/ \E g \in Guids, ok \in BOOLEAN : Redeliver(g, ok)
  \/ FinishRecoveryRun \/ SkipNoApp \/ ListFails \/ RunDies \/ Passes

RecoverySpec == RecoveryInit /\ [][RecoveryNext]_recoveryVars

-----------------------------------------------------------------------------
(* A delivery's event is applied at most once, whatever redeliveries, late    *)
(* originals, retries and forgotten rows come together.                       *)
AppliedOnce == \A g \in Guids : applied[g] <= 1

LastTry(g) == Max({i \in DOMAIN log : log[i].guid = g})
LostFor(g) ==
  /\ row[g] = NoRow
  /\ \E i \in DOMAIN log : log[i].guid = g
  /\ \A i \in DOMAIN log : log[i].guid = g => ~log[i].ok
  /\ hour <= log[LastTry(g)].at + MaxAge

(* No lost delivery that still matters falls behind the watermark before it   *)
(* has been asked for once, however pages, caps, failures and deaths cut the  *)
(* runs short.                                                                *)
NoneSkipped ==
  \A g \in Guids :
    (LostFor(g) /\ rec[g] = NoRow)
      => log[LastTry(g)].at > scan.mark

(* GitHub is asked for one delivery a bounded number of times, ever, also     *)
(* when requests are refused and runs die between claim and request.          *)
RequestsBounded == \A g \in Guids : asked[g] <= MaxRequests

(* What GitHub delivers, loses and delivers again is applied once, is not     *)
(* passed over, and costs a bounded number of requests.                       *)
DeliveriesSafe == AppliedOnce /\ NoneSkipped /\ RequestsBounded

(* "a permanently rejected delivery still walks its way to abandoned": while  *)
(* a refused request may be repeated, the next scan can still see its         *)
(* delivery.                                                                  *)
RefusedStaysInSight ==
  \A g \in Guids :
    (LostFor(g) /\ rec[g] # NoRow /\ rec[g].state = "requested" /\ rec[g].refused /\ g \notin inflight
      /\ rec[g].attempts < MaxRequests)
      => log[LastTry(g)].at > scan.mark
=============================================================================
