--------------------------- MODULE AttemptLifecycle ---------------------------
(* The life of an Attempt: one GitHub Runner, from its JIT registration to    *)
(* the end of its executor. Convex keeps the Attempt rows, their secrets and  *)
(* the slot counters (controllerApi.ts, workerApi.ts, attemptScheduler.ts,    *)
(* attemptRetirement.ts, pinnedAttempts.ts, reconcile.ts); the controller     *)
(* creates Runners at GitHub and deletes them (scaler.go); the Agent on a     *)
(* Worker claims Attempts and runs their executors (action-runner-agent);     *)
(* GitHub hands jobs to idle Runners.                                         *)
(*                                                                            *)
(* Every Convex mutation is one serialisable transaction, so one action. Time *)
(* is abstracted: a limit (24 hours unassigned, 45 minutes preparing, 6 hours *)
(* retiring, 30 days terminal) may have passed for an Attempt or not, which   *)
(* the reconciler sees as the set `elapsed`; a Worker's silence has the three *)
(* levels the code tells apart.                                               *)
EXTENDS Naturals, FiniteSets

CONSTANTS
  Attempts,  \* Runners of one Profile, one Attempt each
  Machines,  \* Workers
  None,      \* no machine; no retirement
  MaxSlots   \* a Worker's slots

ASSUME LifecycleConstants ==
  /\ IsFiniteSet(Attempts)
  /\ None \notin Machines
  /\ None \notin {"cancelled", "failed"}
  /\ MaxSlots \in Nat \ {0}

VARIABLES
  state,           \* the Attempt row's state; "absent" before it, "purged" after
  machine,         \* machineId
  retirement,      \* retirement.outcome, or None
  cleanupPending,  \* Attempts with runnerCleanupPending
  secrets,         \* Attempts with an attemptSecrets row
  usedSlots,       \* per Worker
  qualifies,       \* Workers that carry the Profile's pinned host labels
  silence,         \* per Worker: how long since lastSeen
  issuing,         \* the controller's createAttempt calls in progress
  deleting,        \* the controller's deleteRunner calls in progress
  controller,      \* whether a controller reports for the Profile
  executor,        \* the Agent's executor of each Attempt
  runner,          \* what GitHub knows of the Attempt's Runner
  unconfirmed      \* history: Attempts the reconciler's backstop ended

rows    == <<state, machine, retirement, cleanupPending, secrets, usedSlots>>
control == <<issuing, deleting, controller>>
workers == <<silence, executor>>
vars    == <<rows, qualifies, control, workers, runner, unconfirmed>>

Online   == {"preparing", "ready", "running"}   \* runnerMayBeOnline
Active   == {"pending"} \cup Online
Terminal == {"completed", "cancelled", "failed"}

RowsTypeOK ==
  /\ state \in [Attempts -> {"absent", "purged"} \cup Active \cup Terminal]
  /\ machine \in [Attempts -> Machines \cup {None}]
  /\ retirement \in [Attempts -> {None, "cancelled", "failed"}]
  /\ cleanupPending \subseteq Attempts
  /\ secrets \subseteq Attempts
  /\ usedSlots \in [Machines -> Nat]

TypeOK ==
  /\ RowsTypeOK
  /\ qualifies \subseteq Machines
  /\ silence \in [Machines -> {"reports", "offline", "abandoned"}]
  /\ issuing \in [Attempts -> {"no", "sent", "late"}]
  /\ deleting \in [Attempts -> {"no", "listed", "confirmed"}]
  /\ controller \in {"up", "down"}
  /\ executor \in [Attempts -> {"none", "up", "orphaned", "exited", "settled"}]
  /\ runner \in [Attempts -> {"none", "idle", "busy", "finished", "deleted"}]
  /\ unconfirmed \subseteq Attempts

Init ==
  /\ state = [a \in Attempts |-> "absent"]
  /\ machine = [a \in Attempts |-> None]
  /\ retirement = [a \in Attempts |-> None]
  /\ cleanupPending = {}
  /\ secrets = {}
  /\ usedSlots = [m \in Machines |-> 0]
  /\ qualifies = Machines
  /\ silence = [m \in Machines |-> "reports"]
  /\ issuing = [a \in Attempts |-> "no"]
  /\ deleting = [a \in Attempts |-> "no"]
  /\ controller = "up"
  /\ executor = [a \in Attempts |-> "none"]
  /\ runner = [a \in Attempts |-> "none"]
  /\ unconfirmed = {}

isRetiring(a) == retirement[a] # None /\ state[a] \in Online

\* The work that holds a slot on a Worker, as the reconciler counts it.
ActiveOn(m) == {a \in Attempts : state[a] \in Active /\ machine[a] = m}

-----------------------------------------------------------------------------
(* Row updates shared by the handlers                                        *)

releaseMachineSlot(m) ==
  IF m = None THEN usedSlots
  ELSE [usedSlots EXCEPT ![m] = IF @ = 0 THEN 0 ELSE @ - 1]

\* Mutant of Settle: the JIT config is left behind.
SettleKeepsSecret(a, outcome, owesCleanup) ==
  /\ state' = [state EXCEPT ![a] = outcome]
  /\ usedSlots' = releaseMachineSlot(machine[a])
  /\ retirement' = [retirement EXCEPT ![a] = None]
  /\ cleanupPending' = IF owesCleanup THEN cleanupPending \cup {a} ELSE cleanupPending \ {a}
  /\ UNCHANGED <<machine, secrets>>

\* Ends Attempt a with `outcome`: slot, secret, retirement and cleanup mark.
Settle(a, outcome, owesCleanup) ==
  /\ state' = [state EXCEPT ![a] = outcome]
  /\ usedSlots' = releaseMachineSlot(machine[a])
  /\ secrets' = secrets \ {a}
  /\ retirement' = [retirement EXCEPT ![a] = None]
  /\ cleanupPending' = IF owesCleanup THEN cleanupPending \cup {a} ELSE cleanupPending \ {a}
  /\ UNCHANGED machine

\* Records the intent to end a claimed Attempt; a second request keeps the first.
retireAttempt(a, outcome) ==
  /\ IF retirement[a] # None
     THEN UNCHANGED <<retirement, cleanupPending, secrets>>
     ELSE /\ retirement' = [retirement EXCEPT ![a] = outcome]
          /\ cleanupPending' = cleanupPending \cup {a}
          /\ secrets' = secrets \ {a}
  /\ UNCHANGED <<state, machine, usedSlots>>

\* Mutant of endIdleAttempt: a claimed idle Attempt ends at once, executor first.
EndIdleAtOnce(a) == state[a] \in {"pending", "preparing", "ready"} /\ Settle(a, "cancelled", TRUE)

endIdleAttempt(a) ==
  \/ state[a] = "pending" /\ Settle(a, "cancelled", TRUE)
  \/ state[a] \in {"preparing", "ready"} /\ retireAttempt(a, "cancelled")

-----------------------------------------------------------------------------
(* The controller: scaler.go and the Convex routes it calls                  *)

\* HandleDesiredRunnerCount runs under a mutex: between two of its calls, or in none.
ScalerIdle == \A a \in Attempts : issuing[a] # "sent" /\ deleting[a] # "listed"

\* createAttempt registers the Runner at GitHub and then asks Convex for a row.
GenerateJIT(a) ==
  /\ controller = "up" /\ ScalerIdle
  /\ runner[a] = "none"
  /\ runner' = [runner EXCEPT ![a] = "idle"]
  /\ issuing' = [issuing EXCEPT ![a] = "sent"]
  /\ UNCHANGED <<rows, qualifies, deleting, controller, workers, unconfirmed>>

\* The createAttempt mutation; a request the controller gave up on may still land.
createAttempt(a) ==
  /\ issuing[a] # "no"
  /\ state[a] = "absent"
  /\ state' = [state EXCEPT ![a] = "pending"]
  /\ secrets' = secrets \cup {a}
  /\ issuing' = [issuing EXCEPT ![a] = IF @ = "late" THEN "no" ELSE @]
  /\ UNCHANGED <<machine, retirement, cleanupPending, usedSlots, qualifies, deleting,
                 controller, workers, runner, unconfirmed>>

CreateReturns(a) ==
  /\ issuing[a] = "sent" /\ state[a] # "absent"
  /\ issuing' = [issuing EXCEPT ![a] = "no"]
  /\ UNCHANGED <<rows, qualifies, deleting, controller, workers, runner, unconfirmed>>

\* GitHub's answer to RemoveRunner: a busy Runner stays, any other is gone after.
RunnerAfterRemove(a) ==
  IF runner[a] = "idle" THEN [runner EXCEPT ![a] = "deleted"] ELSE runner

\* CreateAttempt failed, whether or not Convex committed it: the controller removes
\* the Runner it takes for an orphan, which may fail too. A request Convex has not
\* processed may still land, or never.
CreateFails(a) ==
  /\ issuing[a] = "sent"
  /\ issuing' = [issuing EXCEPT ![a] = IF state[a] = "absent" THEN "late" ELSE "no"]
  /\ runner' \in {runner, RunnerAfterRemove(a)}
  /\ UNCHANGED <<rows, qualifies, deleting, controller, workers, unconfirmed>>

\* A scale-down of an Attempt the controller believes idle. One that took a job
\* meanwhile is refused, a settled one answers nothing; unless refused, the
\* controller goes on to delete the Runner.
cancelAttempt(a) ==
  /\ controller = "up" /\ ScalerIdle
  /\ deleting[a] = "no"
  /\ \/ endIdleAttempt(a)
     \/ state[a] \in Terminal /\ UNCHANGED rows
  /\ deleting' = [deleting EXCEPT ![a] = "listed"]
  /\ UNCHANGED <<qualifies, issuing, controller, workers, runner, unconfirmed>>

\* A pass begins with the list of Runners to delete, which it then works through.
listRunnerCleanups ==
  LET listed == {a \in cleanupPending : deleting[a] = "no"} IN
  /\ controller = "up" /\ ScalerIdle
  /\ listed # {}
  /\ deleting' = [a \in Attempts |-> IF a \in listed THEN "listed" ELSE deleting[a]]
  /\ UNCHANGED <<rows, qualifies, issuing, controller, workers, runner, unconfirmed>>

\* Mutant of RemoveRunner: a Runner that is already gone is an error.
RemoveRunnerNotFound(a) ==
  /\ deleting[a] = "listed" /\ runner[a] = "idle"
  /\ runner' = RunnerAfterRemove(a)
  /\ deleting' = [deleting EXCEPT ![a] = "confirmed"]
  /\ UNCHANGED <<rows, qualifies, issuing, controller, workers, unconfirmed>>

\* deleteRunner asks GitHub. The Attempt may have changed since it was listed.
RemoveRunner(a) ==
  /\ deleting[a] = "listed"
  /\ runner[a] # "busy"
  /\ runner' = RunnerAfterRemove(a)
  /\ deleting' = [deleting EXCEPT ![a] = "confirmed"]
  /\ UNCHANGED <<rows, qualifies, issuing, controller, workers, unconfirmed>>

\* The Runner is busy, or GitHub failed with or without deleting it: the Runner is
\* left for a later pass.
RemoveRunnerFails(a) ==
  /\ deleting[a] = "listed"
  /\ runner' \in {runner, RunnerAfterRemove(a)}
  /\ deleting' = [deleting EXCEPT ![a] = "no"]
  /\ UNCHANGED <<rows, qualifies, issuing, controller, workers, unconfirmed>>

\* Mutant of completeRunnerCleanup: does not ask whether the Attempt is retiring.
CleanupEndsAny(a) ==
  /\ deleting[a] = "confirmed"
  /\ \/ a \notin cleanupPending /\ UNCHANGED rows
     \/ a \in cleanupPending /\ Settle(a, retirement[a], FALSE)
  /\ deleting' = [deleting EXCEPT ![a] = "no"]
  /\ UNCHANGED <<qualifies, issuing, controller, workers, runner, unconfirmed>>

completeRunnerCleanup(a) ==
  /\ deleting[a] = "confirmed"
  /\ \/ a \notin cleanupPending /\ UNCHANGED rows
     \/ a \in cleanupPending /\ isRetiring(a) /\ Settle(a, retirement[a], FALSE)
     \/ /\ a \in cleanupPending /\ ~isRetiring(a)
        /\ cleanupPending' = cleanupPending \ {a}
        /\ retirement' = [retirement EXCEPT ![a] = None]
        /\ UNCHANGED <<state, machine, secrets, usedSlots>>
  /\ deleting' = [deleting EXCEPT ![a] = "no"]
  /\ UNCHANGED <<qualifies, issuing, controller, workers, runner, unconfirmed>>

\* Mutant of markJobStarted: does not look for a settled Attempt.
JobStartedRevives(a) ==
  /\ controller = "up"
  /\ runner[a] \in {"busy", "finished"} /\ state[a] \in Active \cup Terminal
  /\ state' = [state EXCEPT ![a] = "running"]
  /\ retirement' = [retirement EXCEPT ![a] = None]
  /\ cleanupPending' = cleanupPending \ {a}
  /\ UNCHANGED <<machine, secrets, usedSlots, qualifies, control, workers, runner, unconfirmed>>

\* GitHub's JobStarted, relayed at least once and possibly again at any later time
\* (a redelivered message, the second call that carries the head branch). Only the
\* first one can call a retirement off; a settled Attempt stays settled.
markJobStarted(a) ==
  /\ controller = "up"
  /\ runner[a] \in {"busy", "finished"}
  /\ state[a] \in Active \cup Terminal
  /\ IF state[a] \in Terminal THEN UNCHANGED rows
     ELSE /\ state' = [state EXCEPT ![a] = "running"]
          /\ IF state[a] = "running" \/ retirement[a] = None
             THEN UNCHANGED <<retirement, cleanupPending>>
             ELSE /\ retirement' = [retirement EXCEPT ![a] = None]
                  /\ cleanupPending' = cleanupPending \ {a}
          /\ UNCHANGED <<machine, secrets, usedSlots>>
  /\ UNCHANGED <<qualifies, issuing, deleting, controller, workers, runner, unconfirmed>>

\* Mutant of markJobCompleted: frees the slot of a settled Attempt a second time.
JobCompletedFreesTwice(a) ==
  /\ controller = "up"
  /\ runner[a] = "finished" /\ state[a] \in Active \cup Terminal
  /\ Settle(a, "completed", FALSE)
  /\ UNCHANGED <<qualifies, control, workers, runner, unconfirmed>>

\* GitHub's JobCompleted settles the Attempt whatever settled it before.
markJobCompleted(a) ==
  /\ controller = "up"
  /\ runner[a] = "finished"
  /\ \/ state[a] \in Active /\ Settle(a, "completed", FALSE)
     \/ /\ state[a] \in Terminal
        /\ state' = [state EXCEPT ![a] = "completed"]
        /\ secrets' = secrets \ {a}
        /\ retirement' = [retirement EXCEPT ![a] = None]
        /\ cleanupPending' = cleanupPending \ {a}
        /\ UNCHANGED <<machine, usedSlots>>
  /\ UNCHANGED <<qualifies, control, workers, runner, unconfirmed>>

\* The controller dies, or loses its lease: its calls in progress go with it, but
\* an acknowledgement it has sent may still land.
ControllerStops ==
  /\ controller = "up"
  /\ controller' = "down"
  /\ \E sent \in SUBSET {a \in Attempts : deleting[a] = "confirmed"} :
       deleting' = [a \in Attempts |-> IF a \in sent THEN "confirmed" ELSE "no"]
  /\ issuing' = [a \in Attempts |->
       IF issuing[a] = "sent" THEN (IF state[a] = "absent" THEN "late" ELSE "no") ELSE issuing[a]]
  /\ UNCHANGED <<rows, qualifies, workers, runner, unconfirmed>>

ControllerStarts ==
  /\ controller = "down"
  /\ controller' = "up"
  /\ UNCHANGED <<rows, qualifies, issuing, deleting, workers, runner, unconfirmed>>

-----------------------------------------------------------------------------
(* The scheduler, pins and the reconciler                                    *)

Unassigned == {a \in Attempts : state[a] = "pending" /\ machine[a] = None}

\* Mutant of tryAssign: every placement of a pass reads the count the pass began with.
TryAssignStale ==
  /\ \E placed \in [Unassigned -> {m \in qualifies : silence[m] = "reports"} \cup {None}] :
       LET put(m) == {a \in Unassigned : placed[a] = m} IN
       /\ \A m \in Machines : put(m) # {} => usedSlots[m] < MaxSlots
       /\ machine' = [a \in Attempts |-> IF a \in Unassigned THEN placed[a] ELSE machine[a]]
       /\ usedSlots' = [m \in Machines |-> usedSlots[m] + Cardinality(put(m))]
  /\ UNCHANGED <<state, retirement, cleanupPending, secrets, qualifies, control, workers,
                 runner, unconfirmed>>

\* tryAssign places every queued Attempt it can; which Worker wins, and what else
\* keeps an Attempt off one, is the placement's business.
tryAssign ==
  /\ \E placed \in [Unassigned -> {m \in qualifies : silence[m] = "reports"} \cup {None}] :
       LET put(m) == {a \in Unassigned : placed[a] = m} IN
       /\ \A m \in Machines :
            put(m) # {} => usedSlots[m] + Cardinality(put(m)) <= MaxSlots
       /\ machine' = [a \in Attempts |-> IF a \in Unassigned THEN placed[a] ELSE machine[a]]
       /\ usedSlots' = [m \in Machines |-> usedSlots[m] + Cardinality(put(m))]
  /\ UNCHANGED <<state, retirement, cleanupPending, secrets, qualifies, control, workers,
                 runner, unconfirmed>>

\* retireOffPinOnWorker and retireOffPinForProfile, after the pinned Workers become
\* `pinned`: unclaimed Attempts of the others go back to the queue with their slot,
\* idle ones retire.
retireOffPin(pinned) ==
  LET off      == {a \in Attempts : machine[a] # None /\ machine[a] \notin pinned}
      requeued == {a \in off : state[a] = "pending"}
      retired  == {a \in off : state[a] \in {"preparing", "ready"} /\ retirement[a] = None}
  IN /\ machine' = [a \in Attempts |-> IF a \in requeued THEN None ELSE machine[a]]
     /\ usedSlots' = [m \in Machines |->
          LET n == Cardinality({a \in requeued : machine[a] = m})
          IN IF usedSlots[m] < n THEN 0 ELSE usedSlots[m] - n]
     /\ retirement' = [a \in Attempts |-> IF a \in retired THEN "cancelled" ELSE retirement[a]]
     /\ cleanupPending' = cleanupPending \cup retired
     /\ secrets' = secrets \ retired
     /\ UNCHANGED state

setLabels(m) ==
  \E pinned \in {qualifies \cup {m}, qualifies \ {m}} :
    /\ qualifies' = pinned
    /\ retireOffPin(pinned \cup (Machines \ {m}))
    /\ UNCHANGED <<control, workers, runner, unconfirmed>>

registerProfile ==
  /\ controller = "up"
  /\ \E pinned \in SUBSET Machines :
       /\ qualifies' = pinned
       /\ retireOffPin(pinned)
  /\ UNCHANGED <<control, workers, runner, unconfirmed>>

Reports(m) == m # None /\ silence[m] = "reports"

\* What one reconciler pass does to each Attempt, given those whose limit passed.
Expired(elapsed) == {a \in elapsed : state[a] = "pending" /\ machine[a] = None}

Requeued == {a \in Attempts : state[a] = "pending" /\ machine[a] # None /\ ~Reports(machine[a])}

Kept == {a \in Attempts : state[a] = "running" /\ retirement[a] # None /\ Reports(machine[a])}

\* Mutant of retirementBackstopDue: waits for the Worker in every state.
BackstopWaitsForWorker(elapsed) ==
  {a \in elapsed : isRetiring(a) /\ ~Reports(machine[a]) /\ controller = "down"}

retirementBackstopDue(elapsed) ==
  {a \in elapsed : /\ isRetiring(a) /\ controller = "down"
                   /\ ~(state[a] = "running" /\ Reports(machine[a]))}

\* Mutant of Abandoned: no limit on becoming usable.
AbandonedOffline(elapsed) ==
  {a \in Attempts :
     /\ retirement[a] = None
     /\ \/ state[a] \in {"preparing", "ready"} /\ ~Reports(machine[a])
        \/ state[a] = "running" /\ silence[machine[a]] = "abandoned"}

Abandoned(elapsed) ==
  {a \in Attempts :
     /\ retirement[a] = None
     /\ \/ state[a] \in {"preparing", "ready"} /\ (a \in elapsed \/ ~Reports(machine[a]))
        \/ state[a] = "running" /\ silence[machine[a]] = "abandoned"}

Purged(elapsed) == {a \in elapsed : state[a] \in Terminal /\ a \notin cleanupPending}

\* One pass, and the slot counters recomputed from the work that is left.
reconcilePass(elapsed) ==
  LET expired == Expired(elapsed)
      ended   == retirementBackstopDue(elapsed)
      retired == Abandoned(elapsed)
      purged  == Purged(elapsed)
  IN /\ state' = [a \in Attempts |->
                    IF a \in expired THEN "cancelled"
                    ELSE IF a \in ended THEN retirement[a]
                    ELSE IF a \in purged THEN "purged" ELSE state[a]]
     /\ machine' = [a \in Attempts |-> IF a \in Requeued THEN None ELSE machine[a]]
     /\ retirement' = [a \in Attempts |->
                         IF a \in retired THEN "failed"
                         ELSE IF a \in Kept \cup ended THEN None ELSE retirement[a]]
     /\ cleanupPending' = (cleanupPending \ Kept) \cup expired \cup ended \cup retired
     /\ secrets' = secrets \ (expired \cup ended \cup retired \cup purged)
     /\ unconfirmed' = unconfirmed \cup ended
     /\ usedSlots' = [m \in Machines |-> Cardinality(ActiveOn(m)')]
     /\ UNCHANGED <<qualifies, control, workers, runner>>

reconcile == \E elapsed \in SUBSET Attempts : reconcilePass(elapsed)

-----------------------------------------------------------------------------
(* The Worker: its Agent, its heartbeat, its executors                       *)

\* Nothing from the Worker for more than two, then more than ten minutes. Its
\* executors run on, and calls already under way may still land.
GoSilent(m) ==
  /\ silence[m] # "abandoned"
  /\ silence' = [silence EXCEPT ![m] = IF @ = "reports" THEN "offline" ELSE "abandoned"]
  /\ UNCHANGED <<rows, qualifies, control, executor, runner, unconfirmed>>

\* Mutant of heartbeat: the Runner stays marked for deletion.
HeartbeatKeepsMark(m) ==
  LET kept == {a \in Attempts : machine[a] = m /\ state[a] = "running" /\ retirement[a] # None}
  IN /\ silence[m] # "reports"
     /\ silence' = [silence EXCEPT ![m] = "reports"]
     /\ retirement' = [a \in Attempts |-> IF a \in kept THEN None ELSE retirement[a]]
     /\ UNCHANGED <<state, machine, cleanupPending, secrets, usedSlots, qualifies, control,
                    executor, runner, unconfirmed>>

\* The first heartbeat after a silence calls off the retirement of running Attempts.
heartbeat(m) ==
  LET kept == {a \in Attempts : machine[a] = m /\ state[a] = "running" /\ retirement[a] # None}
  IN /\ silence[m] # "reports"
     /\ silence' = [silence EXCEPT ![m] = "reports"]
     /\ retirement' = [a \in Attempts |-> IF a \in kept THEN None ELSE retirement[a]]
     /\ cleanupPending' = cleanupPending \ kept
     /\ UNCHANGED <<state, machine, secrets, usedSlots, qualifies, control, executor, runner,
                    unconfirmed>>

\* The Agent claims an Attempt and its one copy of the JIT config. It then starts
\* the executor, fails to, or dies before it does.
claimAttempt(a) ==
  /\ machine[a] # None /\ state[a] = "pending" /\ a \in secrets
  /\ state' = [state EXCEPT ![a] = "preparing"]
  /\ secrets' = secrets \ {a}
  /\ \E now \in {"up", "exited", "settled"} : executor' = [executor EXCEPT ![a] = now]
  /\ UNCHANGED <<machine, retirement, cleanupPending, usedSlots, qualifies, control, silence,
                 runner, unconfirmed>>

markReady(a) ==
  /\ state[a] = "preparing"
  /\ state' = [state EXCEPT ![a] = "ready"]
  /\ UNCHANGED <<machine, retirement, cleanupPending, secrets, usedSlots, qualifies, control,
                 workers, runner, unconfirmed>>

\* The Attempt's VM or container runs, under the Agent or left behind by one that died.
Runs(a) == executor[a] \in {"up", "orphaned"}

\* The end of an executor; nobody reports for one whose Agent is gone.
Ended(a) == [executor EXCEPT ![a] = IF @ = "orphaned" THEN "settled" ELSE "exited"]

\* The executor ends: after its job, because GitHub dropped its Runner, or by a fault.
ExecutorExits(a) ==
  /\ Runs(a)
  /\ executor' = Ended(a)
  /\ UNCHANGED <<rows, qualifies, control, silence, runner, unconfirmed>>

\* pendingAttempts no longer lists the Attempt: it ended, and if it completed, its
\* drain period is over.
leftLiveSet(a) == state[a] \notin Active

\* The Agent stops an executor whose Attempt has left the Worker's live set, also one
\* it finds at start.
stopExecutor(a) ==
  /\ Runs(a)
  /\ leftLiveSet(a)
  /\ executor' = Ended(a)
  /\ UNCHANGED <<rows, qualifies, control, silence, runner, unconfirmed>>

\* Mutant of runnerOutlivesExecutor: trusts the exit code.
OutlivesIfFailed(a, exitCode) == exitCode # 0

\* A failed executor, or a Runner that never took a job, still owes GitHub a delete.
runnerOutlivesExecutor(a, exitCode) ==
  state[a] # "running" \/ exitCode # 0 \/ retirement[a] # None

\* reportAttempt: the guest may also report that its runner exited without a job.
reportAttempt(a) ==
  /\ executor[a] = "exited"
  /\ executor' = [executor EXCEPT ![a] = "settled"]
  /\ \/ state[a] \in Active /\ retirement[a] # None /\ state[a] # "running"
        /\ Settle(a, retirement[a], TRUE)
     \/ /\ state[a] \in Active /\ (retirement[a] = None \/ state[a] = "running")
        /\ \E exitCode \in {0, 1}, ranJob \in BOOLEAN :
             Settle(a,
                    IF exitCode = 0 /\ (ranJob \/ state[a] = "running") THEN "completed" ELSE "failed",
                    runnerOutlivesExecutor(a, exitCode))
     \/ state[a] \in Terminal /\ secrets' = secrets \ {a}
        /\ UNCHANGED <<state, machine, retirement, cleanupPending, usedSlots>>
     \/ state[a] = "purged" /\ UNCHANGED rows
  /\ UNCHANGED <<qualifies, control, silence, runner, unconfirmed>>

\* The Agent stops, and its executors with it, or dies and leaves some running. Nobody
\* reports for any of them any more.
AgentRestarts(m) ==
  /\ \E left \in SUBSET {a \in Attempts : machine[a] = m /\ executor[a] = "up"} :
       executor' = [a \in Attempts |->
         IF a \in left THEN "orphaned"
         ELSE IF machine[a] = m /\ executor[a] \in {"up", "exited"} THEN "settled"
         ELSE executor[a]]
  /\ UNCHANGED <<rows, qualifies, control, silence, runner, unconfirmed>>

-----------------------------------------------------------------------------
(* GitHub                                                                    *)

\* A Runner whose executor is up is handed a job at any time.
AssignJob(a) ==
  /\ runner[a] = "idle" /\ Runs(a)
  /\ runner' = [runner EXCEPT ![a] = "busy"]
  /\ UNCHANGED <<rows, qualifies, control, workers, unconfirmed>>

\* The job ends, by itself or because its executor is gone, and with it the
\* ephemeral Runner's registration.
JobEnds(a) ==
  /\ runner[a] = "busy"
  /\ runner' = [runner EXCEPT ![a] = "finished"]
  /\ UNCHANGED <<rows, qualifies, control, workers, unconfirmed>>

-----------------------------------------------------------------------------

ControllerStep(a) ==
  \/ GenerateJIT(a) \/ createAttempt(a) \/ CreateReturns(a) \/ CreateFails(a)
  \/ cancelAttempt(a) \/ RemoveRunner(a) \/ RemoveRunnerFails(a)
  \/ completeRunnerCleanup(a) \/ markJobStarted(a) \/ markJobCompleted(a)

WorkerStep(a) ==
  \/ claimAttempt(a) \/ markReady(a) \/ ExecutorExits(a) \/ stopExecutor(a) \/ reportAttempt(a)

Next ==
  \/ \E a \in Attempts : ControllerStep(a) \/ WorkerStep(a) \/ AssignJob(a) \/ JobEnds(a)
  \/ \E m \in Machines : GoSilent(m) \/ heartbeat(m) \/ AgentRestarts(m) \/ setLabels(m)
  \/ listRunnerCleanups \/ ControllerStops \/ ControllerStarts
  \/ tryAssign \/ registerProfile \/ reconcile

Spec == Init /\ [][Next]_vars

\* What keeps happening: the cron passes, until every limit has passed; jobs end; an
\* Agent claims what it is offered, if it is offered often enough; a call to
\* Convex answers or times out; GitHub's errors and controller crashes do not hit the
\* same call for ever. Reports are not among them: the Agent sends each once.
Fairness ==
  /\ SF_vars(reconcilePass(Attempts)) /\ SF_vars(listRunnerCleanups)
  /\ \A a \in Attempts :
       /\ SF_vars(claimAttempt(a)) /\ WF_vars(JobEnds(a)) /\ SF_vars(RemoveRunner(a))
       /\ SF_vars(completeRunnerCleanup(a)) /\ SF_vars(markJobCompleted(a))
       /\ WF_vars(CreateReturns(a) \/ CreateFails(a))

\* Controllers may all stop for good.
FairSpec == Spec /\ Fairness

\* A stopped controller is started again, or a standby takes over from it.
ControllersReturn == []<>(controller = "up")
-----------------------------------------------------------------------------
(* What the lifecycle promises                                               *)

\* A Worker's usedSlots is the number of active Attempts placed on it: of the many
\* handlers that end an Attempt (JobCompleted, the Agent's report, a confirmed
\* delete, a cancel, the backstop) exactly one gives its slot back, whatever order
\* they arrive in, and none gives back a slot that was never taken.
SlotsExact == \A m \in Machines : usedSlots[m] = Cardinality(ActiveOn(m))

\* A Runner registered at GitHub that has not taken a job, and so will not remove
\* itself, is never forgotten: once its Attempt has ended, the controller is still
\* told to delete it (listRunnerCleanups), and the row is not purged before.
RunnerRemembered ==
  \A a \in Attempts :
    runner[a] = "idle" /\ state[a] \in Terminal \cup {"purged"} => a \in cleanupPending

\* The Agent never stops an executor whose Runner is running a job, except after the
\* reconciler's backstop: GitHub first, the executor last (attemptRetirement.ts).
JobSpared ==
  \A a \in Attempts :
    runner[a] = "busy" /\ Runs(a) => state[a] \in Active \/ a \in unconfirmed

\* The JIT config exists exactly while the Attempt waits to be claimed: a placed Attempt
\* can always be claimed (one that cannot would hold its slot for good), and no second
\* executor can ever be started for the Runner.
SecretUntilClaim ==
  \A a \in Attempts : (a \in secrets) <=> (state[a] = "pending" /\ executor[a] = "none")

\* The controller's two lists never overlap: an Attempt it counts as capacity
\* (listActiveAttempts) is not one whose Runner it is told to delete.
CapacityNotDoomed ==
  \A a \in cleanupPending : state[a] \in Active => isRetiring(a)

\* What counts as capacity is capacity: it can be claimed once, and is not being deleted.
CapacityTrue == SecretUntilClaim /\ CapacityNotDoomed

\* A settled Attempt is never revived, and only GitHub's JobCompleted changes how it
\* ended.
SettledStays ==
  [][\A a \in Attempts : state[a] \in Terminal /\ state'[a] # state[a] =>
        \/ state'[a] = "completed" /\ runner[a] = "finished"
        \/ state'[a] = "purged" /\ runner[a] # "idle"]_vars

\* Under a fixed maxSlots a Worker never holds more Attempts than it has slots, the
\* retiring ones whose executors still run included.
WithinSlots == \A m \in Machines : Cardinality(ActiveOn(m)) <= MaxSlots

\* The slot counter that places work is right, and work fits the slots.
SlotsRight == SlotsExact /\ WithinSlots

\* Every retirement is settled or called off, also when no controller ever comes back
\* to confirm it (retirementBackstopDue) and whatever the Worker does.
RetirementSettles == \A a \in Attempts : (retirement[a] # None) ~> (retirement[a] = None)

\* As long as controllers come back, every Attempt ends, and with it the slot it holds.
AttemptSettles ==
  ControllersReturn => \A a \in Attempts : (state[a] \in Active) ~> (state[a] \in Terminal)

\* As long as controllers come back, every Runner they are told to delete is confirmed
\* deleted, or kept by its job or by its returning Worker.
CleanupDrains ==
  ControllersReturn => \A a \in Attempts : (a \in cleanupPending) ~> (a \notin cleanupPending)

\* Nothing of an Attempt stays half done: not its retirement, not its run, not the
\* deletion of its Runner; and what is settled stays settled.
AttemptsEnd == RetirementSettles /\ AttemptSettles /\ CleanupDrains /\ SettledStays
=============================================================================
