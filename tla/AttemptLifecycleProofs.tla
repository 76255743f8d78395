----------------------- MODULE AttemptLifecycleProofs -----------------------
(* Theorems about the Attempt lifecycle, for every finite set of Attempts,   *)
(* every set of Workers and every number of slots.                           *)
EXTENDS AttemptLifecycle, FiniteSetTheorems, TLAPS

-----------------------------------------------------------------------------
(* The inductive invariant                                                   *)

\* Retirement and the cleanup mark: both on the same claimed Attempts.
MarksAgree(a) ==
  /\ retirement[a] # None => state[a] \in Online /\ a \in cleanupPending
  /\ a \in cleanupPending => state[a] \in Terminal \/ isRetiring(a)

\* An Attempt before its claim: no place, then no executor, and its secret.
BeforeClaim(a) ==
  /\ state[a] = "absent" => machine[a] = None
  /\ (a \in secrets) <=> (state[a] = "pending")
  /\ executor[a] # "none" => state[a] \notin {"absent", "pending"}

\* The Runner outlives what the row and the controller know of it.
RunnerKnown(a) ==
  /\ runner[a] \in {"busy", "finished"} => executor[a] # "none"
  /\ state[a] # "absent" \/ issuing[a] # "no" => runner[a] # "none"
  /\ deleting[a] # "no" => state[a] # "absent"
  /\ deleting[a] = "confirmed" => runner[a] \in {"finished", "deleted"}
  /\ state[a] = "running" => runner[a] \in {"busy", "finished"}
  /\ runner[a] = "idle" /\ state[a] \in Terminal \cup {"purged"} => a \in cleanupPending

\* A Runner GitHub may hand a job, or has, is not taken from under it.
RunnerSpared(a) ==
  runner[a] \in {"idle", "busy"} /\ Runs(a) => state[a] \in Active \/ a \in unconfirmed

Coherent(a) == MarksAgree(a) /\ BeforeClaim(a) /\ RunnerKnown(a) /\ RunnerSpared(a)

AllCoherent == \A a \in Attempts : Coherent(a)

-----------------------------------------------------------------------------
(* Types                                                                     *)

USE DEF Online, Active, Terminal

LEMMA InitType == Init => TypeOK
  BY DEF Init, TypeOK, RowsTypeOK

LEMMA SettleType ==
  ASSUME RowsTypeOK, NEW a \in Attempts, NEW outcome \in Terminal, NEW owes,
         Settle(a, outcome, owes)
  PROVE  RowsTypeOK'
<1>1. usedSlots' \in [Machines -> Nat]
  BY DEF RowsTypeOK, Settle, releaseMachineSlot
<1>2. cleanupPending' \subseteq Attempts
  BY DEF RowsTypeOK, Settle
<1> QED BY <1>1, <1>2 DEF RowsTypeOK, Settle

LEMMA RetireType ==
  ASSUME RowsTypeOK, NEW a \in Attempts, NEW outcome \in {"cancelled", "failed"},
         retireAttempt(a, outcome)
  PROVE  RowsTypeOK'
  BY DEF RowsTypeOK, retireAttempt

LEMMA ControllerStepType ==
  ASSUME TypeOK, NEW a \in Attempts, ControllerStep(a)
  PROVE  TypeOK'
<1>0. RowsTypeOK
  BY DEF TypeOK
<1>1. CASE GenerateJIT(a)
  BY <1>1 DEF TypeOK, RowsTypeOK, GenerateJIT, rows, workers
<1>2. CASE createAttempt(a)
  BY <1>2 DEF TypeOK, RowsTypeOK, createAttempt, workers
<1>3. CASE CreateReturns(a)
  BY <1>3 DEF TypeOK, RowsTypeOK, CreateReturns, rows, workers
<1>4. CASE CreateFails(a)
  BY <1>4 DEF TypeOK, RowsTypeOK, CreateFails, RunnerAfterRemove, rows, workers
<1>5. CASE cancelAttempt(a)
  <2>1. RowsTypeOK'
    <3>1. CASE endIdleAttempt(a)
      BY <1>0, <3>1, SettleType, RetireType DEF endIdleAttempt
    <3>2. CASE UNCHANGED rows
      BY <1>0, <3>2 DEF RowsTypeOK, rows
    <3> QED BY <1>5, <3>1, <3>2 DEF cancelAttempt
  <2> QED BY <1>5, <2>1 DEF TypeOK, cancelAttempt, workers
<1>6. CASE RemoveRunner(a)
  BY <1>6 DEF TypeOK, RowsTypeOK, RemoveRunner, RunnerAfterRemove, rows, workers
<1>7. CASE RemoveRunnerFails(a)
  BY <1>7 DEF TypeOK, RowsTypeOK, RemoveRunnerFails, RunnerAfterRemove, rows, workers
<1>8. CASE completeRunnerCleanup(a)
  <2>1. RowsTypeOK'
    <3>1. CASE UNCHANGED rows
      BY <1>0, <3>1 DEF RowsTypeOK, rows
    <3>2. CASE isRetiring(a) /\ Settle(a, retirement[a], FALSE)
      <4>1. retirement[a] \in Terminal
        BY <1>0, <3>2 DEF RowsTypeOK, isRetiring
      <4> QED BY <1>0, <3>2, <4>1, SettleType
    <3>3. CASE /\ cleanupPending' = cleanupPending \ {a}
               /\ retirement' = [retirement EXCEPT ![a] = None]
               /\ UNCHANGED <<state, machine, secrets, usedSlots>>
      BY <1>0, <3>3 DEF RowsTypeOK
    <3> QED BY <1>8, <3>1, <3>2, <3>3 DEF completeRunnerCleanup
  <2> QED BY <1>8, <2>1 DEF TypeOK, completeRunnerCleanup, workers
<1>9. CASE markJobStarted(a)
  BY <1>9 DEF TypeOK, RowsTypeOK, markJobStarted, rows, workers
<1>10. CASE markJobCompleted(a)
  <2>1. RowsTypeOK'
    <3>1. CASE Settle(a, "completed", FALSE)
      BY <1>0, <3>1, SettleType
    <3>2. CASE state[a] \in Terminal
      BY <1>0, <1>10, <3>2 DEF RowsTypeOK, markJobCompleted
    <3> QED BY <1>10, <3>1, <3>2 DEF markJobCompleted
  <2> QED BY <1>10, <2>1 DEF TypeOK, markJobCompleted, control, workers
<1> QED BY <1>1, <1>2, <1>3, <1>4, <1>5, <1>6, <1>7, <1>8, <1>9, <1>10
        DEF ControllerStep

LEMMA WorkerStepType ==
  ASSUME TypeOK, NEW a \in Attempts, WorkerStep(a)
  PROVE  TypeOK'
<1>0. RowsTypeOK
  BY DEF TypeOK
<1>1. CASE claimAttempt(a)
  BY <1>1 DEF TypeOK, RowsTypeOK, claimAttempt, control
<1>2. CASE markReady(a)
  BY <1>2 DEF TypeOK, RowsTypeOK, markReady, control, workers
<1>3. CASE ExecutorExits(a)
  BY <1>3 DEF TypeOK, RowsTypeOK, ExecutorExits, Ended, rows, control
<1>4. CASE stopExecutor(a)
  BY <1>4 DEF TypeOK, RowsTypeOK, stopExecutor, Ended, rows, control
<1>5. CASE reportAttempt(a)
  <2>1. RowsTypeOK'
    <3>1. CASE /\ retirement[a] # None
               /\ Settle(a, retirement[a], TRUE)
      <4>1. retirement[a] \in Terminal
        BY <1>0, <3>1 DEF RowsTypeOK
      <4> QED BY <1>0, <3>1, <4>1, SettleType
    <3>2. ASSUME NEW exitCode \in {0, 1}, NEW ranJob \in BOOLEAN,
                 Settle(a, IF exitCode = 0 /\ (ranJob \/ state[a] = "running")
                           THEN "completed" ELSE "failed",
                        runnerOutlivesExecutor(a, exitCode))
          PROVE  RowsTypeOK'
      BY <1>0, <3>2, SettleType
    <3>3. CASE /\ secrets' = secrets \ {a}
               /\ UNCHANGED <<state, machine, retirement, cleanupPending, usedSlots>>
      BY <1>0, <3>3 DEF RowsTypeOK
    <3>4. CASE UNCHANGED rows
      BY <1>0, <3>4 DEF RowsTypeOK, rows
    <3> QED BY <1>5, <3>1, <3>2, <3>3, <3>4 DEF reportAttempt
  <2> QED BY <1>5, <2>1 DEF TypeOK, reportAttempt, control
<1> QED BY <1>1, <1>2, <1>3, <1>4, <1>5 DEF WorkerStep

\* Label and pin changes give back the slots of the requeued Attempts.
LEMMA OffPinType ==
  ASSUME TypeOK, NEW pinned, retireOffPin(pinned)
  PROVE  RowsTypeOK'
<1> DEFINE requeued == {a \in Attempts : /\ machine[a] # None /\ machine[a] \notin pinned
                                         /\ state[a] = "pending"}
           n(m) == Cardinality({a \in requeued : machine[a] = m})
<1>1. usedSlots' \in [Machines -> Nat]
  <2>1. ASSUME NEW m \in Machines PROVE n(m) \in Nat
    BY LifecycleConstants, FS_Subset, FS_CardinalityType
  <2>2. \A m \in Machines : usedSlots[m] \in Nat
    BY DEF TypeOK, RowsTypeOK
  <2>3. usedSlots' = [m \in Machines |-> IF usedSlots[m] < n(m) THEN 0 ELSE usedSlots[m] - n(m)]
    <3>1. requeued = {a \in {b \in Attempts : machine[b] # None /\ machine[b] \notin pinned} :
                        state[a] = "pending"}
      OBVIOUS
    <3> QED BY <3>1 DEF retireOffPin
  <2> HIDE DEF n
  <2> QED BY <2>1, <2>2, <2>3
<1>2. /\ machine' \in [Attempts -> Machines \cup {None}]
      /\ retirement' \in [Attempts -> {None, "cancelled", "failed"}]
      /\ cleanupPending' \subseteq Attempts
      /\ secrets' \subseteq Attempts
      /\ state' = state
  BY DEF TypeOK, RowsTypeOK, retireOffPin
<1> QED BY <1>1, <1>2 DEF TypeOK, RowsTypeOK

LEMMA MachineStepType ==
  ASSUME TypeOK, NEW m \in Machines,
         GoSilent(m) \/ heartbeat(m) \/ AgentRestarts(m) \/ setLabels(m)
  PROVE  TypeOK'
<1>1. CASE GoSilent(m)
  BY <1>1 DEF TypeOK, RowsTypeOK, GoSilent, rows, control
<1>2. CASE heartbeat(m)
  BY <1>2 DEF TypeOK, RowsTypeOK, heartbeat, control
<1>3. CASE AgentRestarts(m)
  BY <1>3 DEF TypeOK, RowsTypeOK, AgentRestarts, rows, control
<1>4. CASE setLabels(m)
  BY <1>4, OffPinType DEF TypeOK, setLabels, control, workers
<1> QED BY <1>1, <1>2, <1>3, <1>4

LEMMA tryAssignType ==
  ASSUME TypeOK, tryAssign
  PROVE  TypeOK'
<1>1. PICK placed \in [Unassigned -> {m \in qualifies : silence[m] = "reports"} \cup {None}] :
        /\ machine' = [a \in Attempts |-> IF a \in Unassigned THEN placed[a] ELSE machine[a]]
        /\ usedSlots' = [m \in Machines |->
             usedSlots[m] + Cardinality({a \in Unassigned : placed[a] = m})]
  BY DEF tryAssign
<1>2. ASSUME NEW m \in Machines
      PROVE  Cardinality({a \in Unassigned : placed[a] = m}) \in Nat
  BY LifecycleConstants, FS_Subset, FS_CardinalityType DEF Unassigned
<1>3. usedSlots' \in [Machines -> Nat]
  BY <1>1, <1>2 DEF TypeOK, RowsTypeOK
<1>4. machine' \in [Attempts -> Machines \cup {None}]
  BY <1>1 DEF TypeOK, RowsTypeOK, Unassigned
<1> QED BY <1>3, <1>4 DEF TypeOK, RowsTypeOK, tryAssign, control, workers

LEMMA reconcileType ==
  ASSUME TypeOK, reconcile
  PROVE  TypeOK'
<1>1. PICK elapsed \in SUBSET Attempts : reconcilePass(elapsed)
  BY DEF reconcile
<1>2. state' \in [Attempts -> {"absent", "purged"} \cup Active \cup Terminal]
  BY <1>1 DEF TypeOK, RowsTypeOK, reconcilePass, retirementBackstopDue, isRetiring
<1>3. machine' \in [Attempts -> Machines \cup {None}]
  BY <1>1 DEF TypeOK, RowsTypeOK, reconcilePass
<1>4. retirement' \in [Attempts -> {None, "cancelled", "failed"}]
  BY <1>1 DEF TypeOK, RowsTypeOK, reconcilePass
<1>5. /\ cleanupPending' \subseteq Attempts
      /\ secrets' \subseteq Attempts
      /\ unconfirmed' \subseteq Attempts
  BY <1>1 DEF TypeOK, RowsTypeOK, reconcilePass, Expired, retirementBackstopDue, Abandoned, Purged
<1>6. usedSlots' \in [Machines -> Nat]
  <2>1. ASSUME NEW m \in Machines PROVE Cardinality(ActiveOn(m)') \in Nat
    <3>1. ActiveOn(m)' \in SUBSET Attempts
      BY DEF ActiveOn
    <3> QED BY <3>1, LifecycleConstants, FS_Subset, FS_CardinalityType
  <2>2. usedSlots' = [m \in Machines |-> Cardinality(ActiveOn(m)')]
    BY <1>1 DEF reconcilePass
  <2> QED BY <2>1, <2>2
<1> QED BY <1>1, <1>2, <1>3, <1>4, <1>5, <1>6
        DEF TypeOK, RowsTypeOK, reconcilePass, control, workers

LEMMA NextType == TypeOK /\ [Next]_vars => TypeOK'
<1> SUFFICES ASSUME TypeOK, [Next]_vars PROVE TypeOK'
  OBVIOUS
<1>1. ASSUME NEW a \in Attempts, ControllerStep(a) PROVE TypeOK'
  BY <1>1, ControllerStepType
<1>2. ASSUME NEW a \in Attempts, WorkerStep(a) PROVE TypeOK'
  BY <1>2, WorkerStepType
<1>3. ASSUME NEW a \in Attempts, AssignJob(a) \/ JobEnds(a) PROVE TypeOK'
  BY <1>3 DEF TypeOK, RowsTypeOK, AssignJob, JobEnds, rows, control, workers
<1>4. ASSUME NEW m \in Machines,
             GoSilent(m) \/ heartbeat(m) \/ AgentRestarts(m) \/ setLabels(m)
      PROVE  TypeOK'
  BY <1>4, MachineStepType
<1>5. CASE ControllerStops
  BY <1>5 DEF TypeOK, RowsTypeOK, ControllerStops, rows, workers
<1>6. CASE ControllerStarts
  BY <1>6 DEF TypeOK, RowsTypeOK, ControllerStarts, rows, workers
<1>7. CASE tryAssign
  BY <1>7, tryAssignType
<1>8. CASE registerProfile
  BY <1>8, OffPinType DEF TypeOK, registerProfile, control, workers
<1>9. CASE reconcile
  BY <1>9, reconcileType
<1>10. CASE listRunnerCleanups
  BY <1>10 DEF TypeOK, RowsTypeOK, listRunnerCleanups, rows, workers
<1>11. CASE UNCHANGED vars
  BY <1>11 DEF TypeOK, RowsTypeOK, vars, rows, control, workers
<1> QED BY <1>1, <1>2, <1>3, <1>4, <1>5, <1>6, <1>7, <1>8, <1>9, <1>10, <1>11 DEF Next

\* Every variable of the lifecycle keeps its type; in particular a Worker's usedSlots is
\* never negative and an Attempt ends only in a state its handlers know.
THEOREM LifecycleTypeCorrect == Spec => []TypeOK
  BY InitType, NextType, PTL DEF Spec

-----------------------------------------------------------------------------
(* The invariant                                                             *)

LEMMA InitCoherent == Init => AllCoherent
  BY DEF Init, AllCoherent, Coherent, MarksAgree, BeforeClaim, RunnerKnown, RunnerSpared,
         isRetiring, Runs

LEMMA ControllerStepCoherent ==
  ASSUME TypeOK, NEW a \in Attempts, ControllerStep(a), NEW b \in Attempts, Coherent(b)
  PROVE  Coherent(b)'
<1> USE LifecycleConstants DEF TypeOK, RowsTypeOK, Coherent, MarksAgree, BeforeClaim,
                           RunnerKnown, RunnerSpared, isRetiring, Runs
<1>1. CASE GenerateJIT(a)
  BY <1>1 DEF GenerateJIT, rows, workers
<1>2. CASE createAttempt(a)
  BY <1>2 DEF createAttempt, workers
<1>3. CASE CreateReturns(a)
  BY <1>3 DEF CreateReturns, rows, workers
<1>4. CASE CreateFails(a)
  BY <1>4 DEF CreateFails, RunnerAfterRemove, rows, workers
<1>5. CASE cancelAttempt(a)
  BY <1>5 DEF cancelAttempt, endIdleAttempt, retireAttempt, Settle, rows, workers
<1>6. CASE RemoveRunner(a)
  BY <1>6 DEF RemoveRunner, RunnerAfterRemove, rows, workers
<1>7. CASE RemoveRunnerFails(a)
  BY <1>7 DEF RemoveRunnerFails, RunnerAfterRemove, rows, workers
<1>8. CASE completeRunnerCleanup(a)
  BY <1>8 DEF completeRunnerCleanup, Settle, rows, workers
<1>9. CASE markJobStarted(a)
  BY <1>9 DEF markJobStarted, rows, workers
<1>10. CASE markJobCompleted(a)
  BY <1>10 DEF markJobCompleted, Settle, control, workers
<1> HIDE DEF Coherent, TypeOK
<1> QED BY <1>1, <1>2, <1>3, <1>4, <1>5, <1>6, <1>7, <1>8, <1>9, <1>10 DEF ControllerStep

LEMMA WorkerStepCoherent ==
  ASSUME TypeOK, NEW a \in Attempts, WorkerStep(a), NEW b \in Attempts, Coherent(b)
  PROVE  Coherent(b)'
<1> USE LifecycleConstants DEF TypeOK, RowsTypeOK, Coherent, MarksAgree, BeforeClaim,
                           RunnerKnown, RunnerSpared, isRetiring, Runs
<1>1. CASE claimAttempt(a)
  BY <1>1 DEF claimAttempt, control
<1>2. CASE markReady(a)
  BY <1>2 DEF markReady, control, workers
<1>3. CASE ExecutorExits(a)
  BY <1>3 DEF ExecutorExits, Ended, rows, control
<1>4. CASE stopExecutor(a)
  BY <1>4 DEF stopExecutor, Ended, rows, control
<1>5. CASE reportAttempt(a)
  BY <1>5 DEF reportAttempt, Settle, runnerOutlivesExecutor, rows, control
<1> HIDE DEF Coherent, TypeOK
<1> QED BY <1>1, <1>2, <1>3, <1>4, <1>5 DEF WorkerStep

LEMMA MachineStepCoherent ==
  ASSUME TypeOK, NEW m \in Machines, NEW b \in Attempts, Coherent(b),
         GoSilent(m) \/ heartbeat(m) \/ AgentRestarts(m) \/ setLabels(m)
  PROVE  Coherent(b)'
<1> USE LifecycleConstants DEF TypeOK, RowsTypeOK, Coherent, MarksAgree, BeforeClaim,
                           RunnerKnown, RunnerSpared, isRetiring, Runs
<1>1. CASE GoSilent(m)
  BY <1>1 DEF GoSilent, rows, control
<1>2. CASE heartbeat(m)
  BY <1>2 DEF heartbeat, control
<1>3. CASE AgentRestarts(m)
  BY <1>3 DEF AgentRestarts, rows, control
<1>4. CASE setLabels(m)
  BY <1>4 DEF setLabels, retireOffPin, control, workers
<1> QED BY <1>1, <1>2, <1>3, <1>4

LEMMA GlobalStepCoherent ==
  ASSUME TypeOK, NEW b \in Attempts, Coherent(b),
         \/ listRunnerCleanups \/ ControllerStops \/ ControllerStarts
         \/ tryAssign \/ registerProfile \/ reconcile
  PROVE  Coherent(b)'
<1> USE LifecycleConstants DEF TypeOK, RowsTypeOK, Coherent, MarksAgree, BeforeClaim,
                           RunnerKnown, RunnerSpared, isRetiring, Runs
<1>0. CASE listRunnerCleanups
  BY <1>0 DEF listRunnerCleanups, rows, workers
<1>1. CASE ControllerStops
  BY <1>1 DEF ControllerStops, rows, workers
<1>2. CASE ControllerStarts
  BY <1>2 DEF ControllerStarts, rows, workers
<1>3. CASE tryAssign
  BY <1>3 DEF tryAssign, Unassigned, control, workers
<1>4. CASE registerProfile
  BY <1>4 DEF registerProfile, retireOffPin, control, workers
<1>5. CASE reconcile
  BY <1>5, SMTT(40) DEF reconcile, reconcilePass, Expired, retirementBackstopDue, Abandoned, Purged,
                        Requeued, Kept, control, workers
<1> QED BY <1>0, <1>1, <1>2, <1>3, <1>4, <1>5

LEMMA NextCoherent == TypeOK /\ AllCoherent /\ [Next]_vars => AllCoherent'
<1> SUFFICES ASSUME TypeOK, AllCoherent, [Next]_vars, NEW b \in Attempts PROVE Coherent(b)'
  BY DEF AllCoherent
<1>0. Coherent(b)
  BY DEF AllCoherent
<1>1. ASSUME NEW a \in Attempts, ControllerStep(a) PROVE Coherent(b)'
  BY <1>0, <1>1, ControllerStepCoherent
<1>2. ASSUME NEW a \in Attempts, WorkerStep(a) PROVE Coherent(b)'
  BY <1>0, <1>2, WorkerStepCoherent
<1>3. ASSUME NEW a \in Attempts, AssignJob(a) \/ JobEnds(a) PROVE Coherent(b)'
  BY <1>0, <1>3, LifecycleConstants
     DEF TypeOK, RowsTypeOK, AssignJob, JobEnds, rows, control, workers, Coherent,
     MarksAgree, BeforeClaim, RunnerKnown, RunnerSpared, isRetiring, Runs
<1>4. ASSUME NEW m \in Machines,
             GoSilent(m) \/ heartbeat(m) \/ AgentRestarts(m) \/ setLabels(m)
      PROVE  Coherent(b)'
  BY <1>0, <1>4, MachineStepCoherent
<1>5. CASE \/ listRunnerCleanups \/ ControllerStops \/ ControllerStarts
           \/ tryAssign \/ registerProfile \/ reconcile
  BY <1>0, <1>5, GlobalStepCoherent
<1>6. CASE UNCHANGED vars
  BY <1>0, <1>6 DEF vars, rows, control, workers, Coherent,
     MarksAgree, BeforeClaim, RunnerKnown, RunnerSpared, isRetiring, Runs
<1> QED BY <1>1, <1>2, <1>3, <1>4, <1>5, <1>6 DEF Next

LEMMA LifecycleCoherent == Spec => [](TypeOK /\ AllCoherent)
<1>1. Init => TypeOK /\ AllCoherent
  BY InitType, InitCoherent
<1>2. TypeOK /\ AllCoherent /\ [Next]_vars => (TypeOK /\ AllCoherent)'
  BY NextType, NextCoherent
<1> QED BY <1>1, <1>2, PTL DEF Spec

\* A Runner that has not taken a job is on the controller's list for as long as its
\* Attempt has ended: no order of reports, deletes, acknowledgements, pin changes and
\* reconciler passes forgets it.
THEOREM RunnerNeverForgotten == Spec => []RunnerRemembered
<1>1. AllCoherent => RunnerRemembered
  BY DEF AllCoherent, Coherent, RunnerKnown, RunnerRemembered
<1> QED BY <1>1, LifecycleCoherent, PTL

\* No executor with a job is stopped, except after the backstop.
THEOREM JobNeverCutOff == Spec => []JobSpared
<1>1. AllCoherent => JobSpared
  BY DEF AllCoherent, Coherent, RunnerSpared, JobSpared
<1> QED BY <1>1, LifecycleCoherent, PTL

\* The JIT config exists exactly until it is claimed.
THEOREM SecretReadOnce == Spec => []SecretUntilClaim
<1>1. TypeOK /\ AllCoherent => SecretUntilClaim
  BY DEF AllCoherent, Coherent, BeforeClaim, SecretUntilClaim, TypeOK, RowsTypeOK
<1> QED BY <1>1, LifecycleCoherent, PTL

\* The list of Runners to delete and the list of capacity never overlap.
THEOREM CapacityNeverDoomed == Spec => []CapacityNotDoomed
<1>1. TypeOK /\ AllCoherent => CapacityNotDoomed
  BY DEF AllCoherent, Coherent, MarksAgree, CapacityNotDoomed, TypeOK, RowsTypeOK
<1> QED BY <1>1, LifecycleCoherent, PTL

-----------------------------------------------------------------------------
(* Slots                                                                     *)

Slots == SlotsExact /\ WithinSlots

LEMMA ActiveFinite ==
  ASSUME NEW m PROVE IsFiniteSet(ActiveOn(m)) /\ Cardinality(ActiveOn(m)) \in Nat
<1>1. ActiveOn(m) \in SUBSET Attempts
  BY DEF ActiveOn
<1> QED BY <1>1, LifecycleConstants, FS_Subset, FS_CardinalityType

LEMMA InitSlots == Init => Slots
<1> SUFFICES ASSUME Init, NEW m \in Machines
             PROVE  usedSlots[m] = Cardinality(ActiveOn(m)) /\ Cardinality(ActiveOn(m)) <= MaxSlots
  BY DEF Slots, SlotsExact, WithinSlots
<1>1. ActiveOn(m) = {}
  BY DEF Init, ActiveOn
<1>2. Cardinality(ActiveOn(m)) = 0
  BY <1>1, FS_EmptySet
<1> QED BY <1>2, LifecycleConstants DEF Init

\* A step that moves no Attempt into, out of or between the Workers' active work.
LEMMA SameWork ==
  ASSUME Slots, UNCHANGED <<machine, usedSlots>>,
         \A b \in Attempts : (state'[b] \in Active) <=> (state[b] \in Active)
  PROVE  Slots'
<1>1. \A m \in Machines : ActiveOn(m)' = ActiveOn(m)
  BY DEF ActiveOn
<1> QED BY <1>1 DEF Slots, SlotsExact, WithinSlots

\* Ending an active Attempt gives back its slot, and only its slot.
LEMMA SettleSlots ==
  ASSUME TypeOK, Slots, NEW a \in Attempts, state[a] \in Active,
         NEW outcome \in Terminal, NEW owes, Settle(a, outcome, owes)
  PROVE  Slots'
<1> SUFFICES ASSUME NEW m \in Machines
             PROVE  /\ usedSlots'[m] = Cardinality(ActiveOn(m)')
                    /\ Cardinality(ActiveOn(m)') <= MaxSlots
  BY DEF Slots, SlotsExact, WithinSlots
<1>0. /\ usedSlots[m] = Cardinality(ActiveOn(m))
      /\ Cardinality(ActiveOn(m)) <= MaxSlots
      /\ Cardinality(ActiveOn(m)) \in Nat
      /\ MaxSlots \in Nat
  BY ActiveFinite, LifecycleConstants DEF Slots, SlotsExact, WithinSlots
<1>1. CASE machine[a] = m
  <2>1. ActiveOn(m)' = ActiveOn(m) \ {a} /\ a \in ActiveOn(m)
    BY <1>1 DEF Settle, ActiveOn, TypeOK, RowsTypeOK
  <2>2. Cardinality(ActiveOn(m)') = Cardinality(ActiveOn(m)) - 1
    BY <2>1, ActiveFinite, FS_RemoveElement
  <2>3. Cardinality(ActiveOn(m)') \in Nat
    BY <2>1, ActiveFinite, FS_RemoveElement, FS_CardinalityType
  <2>4. usedSlots'[m] = IF usedSlots[m] = 0 THEN 0 ELSE usedSlots[m] - 1
    BY <1>1, LifecycleConstants DEF Settle, releaseMachineSlot, TypeOK, RowsTypeOK
  <2> QED BY <1>0, <2>2, <2>3, <2>4
<1>2. CASE machine[a] # m
  <2>1. ActiveOn(m)' = ActiveOn(m)
    BY <1>2 DEF Settle, ActiveOn, TypeOK, RowsTypeOK
  <2>2. usedSlots'[m] = usedSlots[m]
    BY <1>2 DEF Settle, releaseMachineSlot, TypeOK, RowsTypeOK
  <2> QED BY <1>0, <2>1, <2>2
<1> QED BY <1>1, <1>2

\* Label and pin changes: each requeued Attempt gives back its slot.
LEMMA OffPinSlots ==
  ASSUME TypeOK, Slots, NEW pinned, retireOffPin(pinned)
  PROVE  Slots'
<1> SUFFICES ASSUME NEW m \in Machines
             PROVE  /\ usedSlots'[m] = Cardinality(ActiveOn(m)')
                    /\ Cardinality(ActiveOn(m)') <= MaxSlots
  BY DEF Slots, SlotsExact, WithinSlots
<1> DEFINE off  == {a \in Attempts : machine[a] # None /\ machine[a] \notin pinned}
           gone == {a \in {b \in off : state[b] = "pending"} : machine[a] = m}
<1>1. /\ usedSlots[m] = Cardinality(ActiveOn(m))
      /\ Cardinality(ActiveOn(m)) <= MaxSlots
      /\ Cardinality(ActiveOn(m)) \in Nat
      /\ MaxSlots \in Nat
  BY ActiveFinite, LifecycleConstants DEF Slots, SlotsExact, WithinSlots
<1>2. ActiveOn(m)' = ActiveOn(m) \ gone /\ ActiveOn(m) \cap gone = gone
  BY LifecycleConstants DEF retireOffPin, ActiveOn, TypeOK, RowsTypeOK
<1>3. Cardinality(ActiveOn(m)') = Cardinality(ActiveOn(m)) - Cardinality(gone)
  BY <1>2, ActiveFinite, FS_Difference
<1>4. gone \in SUBSET ActiveOn(m)
  BY <1>2
<1>5. Cardinality(gone) \in Nat /\ Cardinality(gone) <= Cardinality(ActiveOn(m))
  BY <1>4, ActiveFinite, FS_Subset, FS_CardinalityType
<1>6. usedSlots'[m] = IF usedSlots[m] < Cardinality(gone) THEN 0
                      ELSE usedSlots[m] - Cardinality(gone)
  BY DEF retireOffPin
<1> QED BY <1>1, <1>3, <1>5, <1>6

LEMMA tryAssignSlots ==
  ASSUME TypeOK, Slots, tryAssign
  PROVE  Slots'
<1> SUFFICES ASSUME NEW m \in Machines
             PROVE  /\ usedSlots'[m] = Cardinality(ActiveOn(m)')
                    /\ Cardinality(ActiveOn(m)') <= MaxSlots
  BY DEF Slots, SlotsExact, WithinSlots
<1>1. PICK placed \in [Unassigned -> {n \in qualifies : silence[n] = "reports"} \cup {None}] :
        /\ \A n \in Machines :
             {a \in Unassigned : placed[a] = n} # {} =>
               usedSlots[n] + Cardinality({a \in Unassigned : placed[a] = n}) <= MaxSlots
        /\ machine' = [a \in Attempts |-> IF a \in Unassigned THEN placed[a] ELSE machine[a]]
        /\ usedSlots' = [n \in Machines |->
             usedSlots[n] + Cardinality({a \in Unassigned : placed[a] = n})]
  BY DEF tryAssign
<1> DEFINE put == {a \in Unassigned : placed[a] = m}
<1>2. /\ usedSlots[m] = Cardinality(ActiveOn(m))
      /\ Cardinality(ActiveOn(m)) <= MaxSlots
      /\ IsFiniteSet(ActiveOn(m))
      /\ Cardinality(ActiveOn(m)) \in Nat
      /\ MaxSlots \in Nat
  BY ActiveFinite, LifecycleConstants DEF Slots, SlotsExact, WithinSlots
<1>3. IsFiniteSet(put) /\ Cardinality(put) \in Nat
  BY LifecycleConstants, FS_Subset, FS_CardinalityType DEF Unassigned
<1>4. ActiveOn(m)' = ActiveOn(m) \cup put /\ ActiveOn(m) \cap put = {}
  BY <1>1, LifecycleConstants DEF tryAssign, ActiveOn, Unassigned, TypeOK, RowsTypeOK
<1>5. Cardinality(ActiveOn(m)') = Cardinality(ActiveOn(m)) + Cardinality(put)
  BY <1>2, <1>3, <1>4, FS_Union, FS_EmptySet
<1>6. usedSlots'[m] = usedSlots[m] + Cardinality(put)
  BY <1>1
<1>7. CASE put = {}
  <2>1. Cardinality(put) = 0
    BY <1>7, FS_EmptySet
  <2> HIDE DEF put
  <2> QED BY <1>2, <1>5, <1>6, <2>1
<1>8. CASE put # {}
  <2>1. usedSlots[m] + Cardinality(put) <= MaxSlots
    BY <1>1, <1>8
  <2> HIDE DEF put
  <2> QED BY <1>2, <1>5, <1>6, <2>1
<1> QED BY <1>7, <1>8

\* The reconciler recomputes the counters, and only takes work away.
LEMMA reconcileSlots ==
  ASSUME TypeOK, Slots, reconcile
  PROVE  Slots'
<1> SUFFICES ASSUME NEW m \in Machines
             PROVE  /\ usedSlots'[m] = Cardinality(ActiveOn(m)')
                    /\ Cardinality(ActiveOn(m)') <= MaxSlots
  BY DEF Slots, SlotsExact, WithinSlots
<1>1. PICK elapsed \in SUBSET Attempts : reconcilePass(elapsed)
  BY DEF reconcile
<1>2. usedSlots'[m] = Cardinality(ActiveOn(m)')
  BY <1>1 DEF reconcilePass
<1>3. ActiveOn(m)' \in SUBSET ActiveOn(m)
  BY <1>1, LifecycleConstants
     DEF reconcilePass, ActiveOn, TypeOK, RowsTypeOK, Requeued, retirementBackstopDue, isRetiring
<1>4. Cardinality(ActiveOn(m)') <= Cardinality(ActiveOn(m)) /\ Cardinality(ActiveOn(m)') \in Nat
  BY <1>3, ActiveFinite, FS_Subset, FS_CardinalityType
<1>5. Cardinality(ActiveOn(m)) <= MaxSlots /\ Cardinality(ActiveOn(m)) \in Nat /\ MaxSlots \in Nat
  BY ActiveFinite, LifecycleConstants DEF Slots, WithinSlots
<1> QED BY <1>2, <1>4, <1>5

LEMMA ControllerStepSlots ==
  ASSUME TypeOK, AllCoherent, Slots, NEW a \in Attempts, ControllerStep(a)
  PROVE  Slots'
<1>0. Coherent(a)
  BY DEF AllCoherent
<1>1. CASE createAttempt(a)
  <2>1. \A m \in Machines : ActiveOn(m)' = ActiveOn(m)
    BY <1>0, <1>1, LifecycleConstants
       DEF createAttempt, ActiveOn, Coherent, BeforeClaim, TypeOK, RowsTypeOK
  <2> QED BY <1>1, <2>1 DEF createAttempt, Slots, SlotsExact, WithinSlots
<1>2. CASE GenerateJIT(a) \/ CreateReturns(a) \/ CreateFails(a)
           \/ RemoveRunner(a) \/ RemoveRunnerFails(a)
  <2>1. UNCHANGED rows
    BY <1>2 DEF GenerateJIT, CreateReturns, CreateFails, RemoveRunner,
                RemoveRunnerFails
  <2> QED BY <2>1, SameWork DEF rows
<1>3. CASE cancelAttempt(a)
  <2>1. CASE state[a] = "pending" /\ Settle(a, "cancelled", TRUE)
    BY <2>1, SettleSlots
  <2>2. CASE retireAttempt(a, "cancelled")
    BY <2>2, SameWork DEF retireAttempt
  <2>3. CASE UNCHANGED rows
    BY <2>3, SameWork DEF rows
  <2> QED BY <1>3, <2>1, <2>2, <2>3 DEF cancelAttempt, endIdleAttempt
<1>4. CASE completeRunnerCleanup(a)
  <2>1. CASE UNCHANGED rows
    BY <2>1, SameWork DEF rows
  <2>2. CASE isRetiring(a) /\ Settle(a, retirement[a], FALSE)
    <3>1. retirement[a] \in Terminal /\ state[a] \in Active
      BY <2>2 DEF isRetiring, TypeOK, RowsTypeOK
    <3> QED BY <2>2, <3>1, SettleSlots
  <2>3. CASE UNCHANGED <<state, machine, secrets, usedSlots>>
    BY <2>3, SameWork
  <2> QED BY <1>4, <2>1, <2>2, <2>3 DEF completeRunnerCleanup
<1>5. CASE markJobStarted(a)
  BY <1>5, SameWork DEF markJobStarted, rows, TypeOK, RowsTypeOK
<1>6. CASE markJobCompleted(a)
  <2>1. CASE state[a] \in Active /\ Settle(a, "completed", FALSE)
    BY <2>1, SettleSlots
  <2>2. CASE state[a] \in Terminal
    <3>1. UNCHANGED <<machine, usedSlots>> /\ state' = [state EXCEPT ![a] = "completed"]
      BY <1>6, <2>2 DEF markJobCompleted, Active, Online, Terminal
    <3>2. \A b \in Attempts : (state'[b] \in Active) <=> (state[b] \in Active)
      BY <2>2, <3>1 DEF TypeOK, RowsTypeOK, Active, Online, Terminal
    <3> QED BY <3>1, <3>2, SameWork
  <2> QED BY <1>6, <2>1, <2>2 DEF markJobCompleted
<1> QED BY <1>1, <1>2, <1>3, <1>4, <1>5, <1>6 DEF ControllerStep

LEMMA WorkerStepSlots ==
  ASSUME TypeOK, Slots, NEW a \in Attempts, WorkerStep(a)
  PROVE  Slots'
<1>1. CASE claimAttempt(a)
  BY <1>1, SameWork DEF claimAttempt, TypeOK, RowsTypeOK
<1>2. CASE markReady(a)
  BY <1>2, SameWork DEF markReady, TypeOK, RowsTypeOK
<1>3. CASE ExecutorExits(a) \/ stopExecutor(a)
  BY <1>3, SameWork DEF ExecutorExits, stopExecutor, rows
<1>4. CASE reportAttempt(a)
  <2>1. CASE state[a] \in Active /\ retirement[a] # None /\ Settle(a, retirement[a], TRUE)
    <3>1. retirement[a] \in Terminal
      BY <2>1 DEF TypeOK, RowsTypeOK
    <3> QED BY <2>1, <3>1, SettleSlots
  <2>2. ASSUME state[a] \in Active, NEW exitCode \in {0, 1}, NEW ranJob \in BOOLEAN,
               Settle(a, IF exitCode = 0 /\ (ranJob \/ state[a] = "running")
                         THEN "completed" ELSE "failed",
                      runnerOutlivesExecutor(a, exitCode))
        PROVE  Slots'
    BY <2>2, SettleSlots
  <2>3. CASE UNCHANGED <<state, machine, retirement, cleanupPending, usedSlots>>
    BY <2>3, SameWork
  <2>4. CASE UNCHANGED rows
    BY <2>4, SameWork DEF rows
  <2> QED BY <1>4, <2>1, <2>2, <2>3, <2>4 DEF reportAttempt
<1> QED BY <1>1, <1>2, <1>3, <1>4 DEF WorkerStep

LEMMA NextSlots == TypeOK /\ AllCoherent /\ Slots /\ [Next]_vars => Slots'
<1> SUFFICES ASSUME TypeOK, AllCoherent, Slots, [Next]_vars PROVE Slots'
  OBVIOUS
<1>1. ASSUME NEW a \in Attempts, ControllerStep(a) PROVE Slots'
  BY <1>1, ControllerStepSlots
<1>2. ASSUME NEW a \in Attempts, WorkerStep(a) PROVE Slots'
  BY <1>2, WorkerStepSlots
<1>3. ASSUME NEW a \in Attempts, AssignJob(a) \/ JobEnds(a) PROVE Slots'
  BY <1>3, SameWork DEF AssignJob, JobEnds, rows
<1>4. ASSUME NEW m \in Machines, GoSilent(m) \/ heartbeat(m) \/ AgentRestarts(m) PROVE Slots'
  BY <1>4, SameWork DEF GoSilent, heartbeat, AgentRestarts, rows
<1>5. ASSUME NEW m \in Machines, setLabels(m) PROVE Slots'
  BY <1>5, OffPinSlots DEF setLabels
<1>6. CASE listRunnerCleanups \/ ControllerStops \/ ControllerStarts
  BY <1>6, SameWork DEF listRunnerCleanups, ControllerStops, ControllerStarts, rows
<1>7. CASE tryAssign
  BY <1>7, tryAssignSlots
<1>8. CASE registerProfile
  BY <1>8, OffPinSlots DEF registerProfile
<1>9. CASE reconcile
  BY <1>9, reconcileSlots
<1>10. CASE UNCHANGED vars
  BY <1>10, SameWork DEF vars, rows
<1> QED BY <1>1, <1>2, <1>3, <1>4, <1>5, <1>6, <1>7, <1>8, <1>9, <1>10 DEF Next

LEMMA SlotsInvariant == Spec => []Slots
<1>1. Init => Slots
  BY InitSlots
<1>2. TypeOK /\ AllCoherent /\ Slots /\ [Next]_vars => Slots'
  BY NextSlots
<1> QED BY <1>1, <1>2, LifecycleCoherent, PTL DEF Spec

\* The slot counter of every Worker is the number of its active Attempts, whichever of
\* the many handlers ends them, in whatever order and however often they are called.
THEOREM SlotCounterExact == Spec => []SlotsExact
  BY SlotsInvariant, PTL DEF Slots

\* No Worker is ever given more Attempts than it has slots, retiring ones included.
THEOREM NeverOverbooked == Spec => []WithinSlots
  BY SlotsInvariant, PTL DEF Slots

-----------------------------------------------------------------------------
(* Settled Attempts                                                          *)

\* Whether the step from a settled state to another is one the code means.
SettledMove(a) ==
  state[a] \in Terminal /\ state'[a] # state[a] =>
    \/ state'[a] = "completed" /\ runner[a] = "finished"
    \/ state'[a] = "purged" /\ runner[a] # "idle"

LEMMA NextSettledMove ==
  ASSUME TypeOK, AllCoherent, Next, NEW b \in Attempts
  PROVE  SettledMove(b)
<1> USE DEF SettledMove, TypeOK, RowsTypeOK
<1>0. Coherent(b)
  BY DEF AllCoherent
<1>1. ASSUME NEW a \in Attempts, ControllerStep(a) PROVE SettledMove(b)
  <2>1. CASE createAttempt(a) \/ markJobStarted(a) \/ markJobCompleted(a)
    BY <2>1 DEF createAttempt, markJobStarted, markJobCompleted, Settle, rows
  <2>2. CASE cancelAttempt(a) \/ completeRunnerCleanup(a)
    BY <2>2 DEF cancelAttempt, endIdleAttempt, retireAttempt, completeRunnerCleanup, isRetiring,
                Settle, rows
  <2>3. CASE GenerateJIT(a) \/ CreateReturns(a) \/ CreateFails(a)
             \/ RemoveRunner(a) \/ RemoveRunnerFails(a)
    BY <2>3 DEF GenerateJIT, CreateReturns, CreateFails, RemoveRunner,
                RemoveRunnerFails, rows
  <2> QED BY <1>1, <2>1, <2>2, <2>3 DEF ControllerStep
<1>2. ASSUME NEW a \in Attempts, WorkerStep(a) PROVE SettledMove(b)
  BY <1>2 DEF WorkerStep, claimAttempt, markReady, ExecutorExits, stopExecutor, reportAttempt,
              Settle, rows
<1>3. CASE reconcile
  BY <1>0, <1>3 DEF reconcile, reconcilePass, Expired, retirementBackstopDue, Purged, isRetiring,
                    Coherent, RunnerKnown
<1>4. ASSUME state' = state PROVE SettledMove(b)
  BY <1>4
<1>5. ASSUME NEW a \in Attempts, AssignJob(a) \/ JobEnds(a) PROVE state' = state
  BY <1>5 DEF AssignJob, JobEnds, rows
<1>6. ASSUME NEW m \in Machines,
             GoSilent(m) \/ heartbeat(m) \/ AgentRestarts(m) \/ setLabels(m)
      PROVE  state' = state
  BY <1>6 DEF GoSilent, heartbeat, AgentRestarts, setLabels, retireOffPin, rows
<1>7. CASE listRunnerCleanups \/ ControllerStops \/ ControllerStarts \/ tryAssign \/ registerProfile
  <2>1. state' = state
    BY <1>7 DEF listRunnerCleanups, ControllerStops, ControllerStarts, tryAssign,
                registerProfile, retireOffPin, rows
  <2> QED BY <2>1, <1>4
<1> QED BY <1>1, <1>2, <1>3, <1>4, <1>5, <1>6, <1>7 DEF Next

\* A late JobStarted, report, cancel or acknowledgement never changes how an Attempt ended.
THEOREM SettledForGood == Spec => SettledStays
<1>1. TypeOK /\ AllCoherent /\ [Next]_vars => [\A a \in Attempts : SettledMove(a)]_vars
  BY NextSettledMove
<1> QED BY <1>1, LifecycleCoherent, PTL DEF Spec, SettledStays, SettledMove

\* What is counted as capacity can be claimed, once, and is not being deleted.
THEOREM CapacityIsTrue == Spec => []CapacityTrue
BY SecretReadOnce, CapacityNeverDoomed, PTL DEF CapacityTrue

\* The counter that places work is exact and no Worker is overbooked, for any number of
\* Attempts, Workers and slots.
THEOREM SlotsAreRight == Spec => []SlotsRight
BY SlotCounterExact, NeverOverbooked, PTL DEF SlotsRight
=============================================================================
