----------------------------- MODULE WorkerAgent -----------------------------
(* The Agent's queue on one Worker (action-runner-agent/index.ts): it follows  *)
(* the Worker's live work in a subscription, claims and runs what is pending,  *)
(* stops what is no longer live, and has the privileged runtime remove the     *)
(* guests of work that ended. JavaScript runs to the next await, so an action  *)
(* is what happens between two. The control plane is what the Agent sees of    *)
(* it; Attempts and Experiments are handled alike.                             *)
EXTENDS Naturals, Sequences, FiniteSets
LOCAL INSTANCE SequencesExt

CONSTANTS
  Items,       \* Attempts and Experiments of this Worker
  ItemSlots,   \* maxSlots
  MaxDeaths,   \* times the Agent process dies
  MaxLosses    \* calls that fail

ASSUME AgentAssumption ==
  IsFiniteSet(Items) /\ ItemSlots \in Nat \ {0} /\ MaxDeaths \in Nat /\ MaxLosses \in Nat

VARIABLES
  server,      \* "absent", "pending", "claimed", "over"
  process,     \* "down", "starting", "accepting", "stopping"
  view,        \* latestLiveAttemptIds and latestLiveExperimentIds
  queue, queuedIds,
  at,          \* "none", "claiming", "starting", "running", "killed"
  vms,         \* guests on the Worker
  recovery,    \* [at, spare, more]: "idle", "removing" what is not in spare, "retry"
  deaths, losses

agentVars == <<server, process, view, queue, queuedIds, at, vms, recovery, deaths, losses>>

Live == {w \in Items : server[w] \in {"pending", "claimed"}}
Pending == {w \in Items : server[w] = "pending"}
Calm == [at |-> "idle", spare |-> {}, more |-> FALSE]
Idle == [w \in Items |-> "none"]

AgentInit ==
  /\ server = [w \in Items |-> "absent"]
  /\ process = "down" /\ view = {}
  /\ queue = <<>> /\ queuedIds = {} /\ at = Idle
  /\ vms = {} /\ recovery = Calm
  /\ deaths = 0 /\ losses = 0

-----------------------------------------------------------------------------
(* pump, with the queue q, the work a and the recovery r of the moment: while  *)
(* a recovery is under way or due, nothing is claimed.                         *)
Active(a) == {w \in Items : a[w] # "none"}
(* Mutant of Paused: claims go on during a recovery.                           *)
NeverPaused(r) == FALSE
Paused(r) == r.at # "idle"
Admitted(q, a, r) ==
  IF process # "accepting" \/ Paused(r) \/ Cardinality(Active(a)) >= ItemSlots THEN 0
  ELSE LET free == ItemSlots - Cardinality(Active(a)) IN
       IF free < Len(q) THEN free ELSE Len(q)
pump(q, a, r) ==
  LET n == Admitted(q, a, r) IN
  /\ queue' = SubSeq(q, n + 1, Len(q))
  /\ at' = [w \in Items |-> IF \E i \in 1..n : q[i] = w THEN "claiming" ELSE a[w]]
  /\ recovery' = r

(* requestRuntimeRecovery: one pass at a time; a request during it makes       *)
(* another follow.                                                             *)
requestRuntimeRecovery(live) ==
  IF recovery.at = "removing" THEN [recovery EXCEPT !.more = TRUE]
  ELSE [at |-> "removing", spare |-> live, more |-> FALSE]

(* reconcileWithServer, enqueue, and the recovery or the pump that follows.    *)
Stopped(live) ==
  [w \in Items |-> IF at[w] = "running" /\ w \notin live THEN "killed" ELSE at[w]]
RunningNow == {w \in Items : at[w] \in {"running", "killed"}}
onUpdate ==
  LET kept == {w \in queuedIds : w \in Live \/ w \in RunningNow}
      q == SelectSeq(queue, LAMBDA w : w \in Live)
  IN
  /\ process = "accepting"
  /\ view' = Live
  /\ queuedIds' = kept \cup Pending
  /\ pump(q \o SetToSeq(Pending \ kept), Stopped(Live),
          IF Live # view THEN requestRuntimeRecovery(Live) ELSE recovery)
  /\ UNCHANGED <<server, process, vms, deaths, losses>>

heartbeat ==
  /\ process = "accepting"
  /\ pump(queue, at, recovery)
  /\ UNCHANGED <<server, process, view, queuedIds, vms, deaths, losses>>

-----------------------------------------------------------------------------
(* drainRuntimeRecovery, when the runtime answers.                             *)
recovered ==
  /\ recovery.at = "removing" /\ process = "accepting"
  /\ vms' = vms \cap recovery.spare
  /\ pump(queue, at, IF recovery.more
                     THEN [at |-> "removing", spare |-> view, more |-> FALSE] ELSE Calm)
  /\ UNCHANGED <<server, process, view, queuedIds, deaths, losses>>

(* Mutant of recoveryFails: no timer is set for another try.                   *)
recoveryFailsForGood ==
  /\ recovery.at = "removing" /\ process = "accepting" /\ losses < MaxLosses
  /\ losses' = losses + 1
  /\ \E gone \in SUBSET (vms \ recovery.spare) : vms' = vms \ gone
  /\ pump(queue, at, [recovery EXCEPT !.at = "gaveUp"])
  /\ UNCHANGED <<server, process, view, queuedIds, deaths>>
(* It fails part way and is tried again.                                       *)
recoveryFails ==
  /\ recovery.at = "removing" /\ process = "accepting" /\ losses < MaxLosses
  /\ losses' = losses + 1
  /\ \E gone \in SUBSET (vms \ recovery.spare) : vms' = vms \ gone
  /\ pump(queue, at, [recovery EXCEPT !.at = "retry"])
  /\ UNCHANGED <<server, process, view, queuedIds, deaths>>
retryRecovery ==
  /\ recovery.at = "retry" /\ process = "accepting"
  /\ recovery' = [at |-> "removing", spare |-> view, more |-> FALSE]
  /\ UNCHANGED <<server, process, view, queue, queuedIds, at, vms, deaths, losses>>

-----------------------------------------------------------------------------
(* runWork                                                                     *)
Ended(w) == [at EXCEPT ![w] = "none"]

claimAttempt(w) ==
  /\ at[w] = "claiming"
  /\ IF server[w] = "pending"
     THEN /\ server' = [server EXCEPT ![w] = "claimed"]
          /\ at' = [at EXCEPT ![w] = "starting"]
          /\ UNCHANGED <<queue, recovery>>
     ELSE pump(queue, Ended(w), recovery) /\ UNCHANGED server
  /\ UNCHANGED <<process, view, queuedIds, vms, deaths, losses>>

(* The call or its answer is lost; the work stays in queuedIds.                *)
claimFails(w) ==
  /\ at[w] = "claiming" /\ losses < MaxLosses
  /\ losses' = losses + 1
  /\ server' \in {server, [server EXCEPT ![w] = IF @ = "pending" THEN "claimed" ELSE @]}
  /\ pump(queue, Ended(w), recovery)
  /\ UNCHANGED <<process, view, queuedIds, vms, deaths>>

spawn(w) ==
  /\ at[w] = "starting"
  /\ at' = [at EXCEPT ![w] = "running"]
  /\ vms' = vms \cup {w}
  /\ UNCHANGED <<server, process, view, queue, queuedIds, recovery, deaths, losses>>

(* The executor exits, or could not start, and the exit is reported.           *)
reportAttempt(w) ==
  /\ at[w] \in {"starting", "running", "killed"}
  /\ vms' = vms \ {w}
  /\ server' = [server EXCEPT ![w] = "over"]
  /\ pump(queue, Ended(w), recovery)
  /\ UNCHANGED <<process, view, queuedIds, deaths, losses>>

-----------------------------------------------------------------------------
(* The process. Its start asks for the live work and recovers before anything  *)
(* is accepted; one that dies leaves guests behind.                            *)
starts ==
  /\ process = "down"
  /\ process' = "starting"
  /\ view' = Live
  /\ UNCHANGED <<server, queue, queuedIds, at, vms, recovery, deaths, losses>>
accepts ==
  /\ process = "starting"
  /\ process' = "accepting"
  /\ vms' = vms \cap view
  /\ UNCHANGED <<server, view, queue, queuedIds, at, recovery, deaths, losses>>

shutdown ==
  /\ process = "accepting" /\ deaths < MaxDeaths
  /\ process' = "stopping"
  /\ at' = [w \in Items |-> IF at[w] = "running" THEN "killed" ELSE at[w]]
  /\ UNCHANGED <<server, view, queue, queuedIds, vms, recovery, deaths, losses>>

Gone ==
  /\ process' = "down"
  /\ deaths' = deaths + 1
  /\ view' = {} /\ queue' = <<>> /\ queuedIds' = {} /\ at' = Idle /\ recovery' = Calm
  /\ UNCHANGED <<server, losses>>
exits == process = "stopping" /\ at = Idle /\ Gone /\ UNCHANGED vms
dies ==
  /\ process # "down" /\ deaths < MaxDeaths
  /\ \E left \in SUBSET vms : vms' = left
  /\ Gone

(* The control plane assigns work, and ends it.                                *)
assign(w) ==
  /\ server[w] = "absent"
  /\ server' = [server EXCEPT ![w] = "pending"]
  /\ UNCHANGED <<process, view, queue, queuedIds, at, vms, recovery, deaths, losses>>
settle(w) ==
  /\ w \in Live
  /\ server' = [server EXCEPT ![w] = "over"]
  /\ UNCHANGED <<process, view, queue, queuedIds, at, vms, recovery, deaths, losses>>

-----------------------------------------------------------------------------
Runs(w) == claimAttempt(w) \/ spawn(w) \/ reportAttempt(w)
AgentNext ==
  \/ \E w \in Items : \/ Runs(w) \/ claimFails(w) \/ assign(w) \/ settle(w)
  \/ onUpdate \/ heartbeat \/ recovered \/ recoveryFails \/ retryRecovery
  \/ starts \/ accepts \/ shutdown \/ exits \/ dies

AgentSpec == AgentInit /\ [][AgentNext]_agentVars

(* The subscription delivers what changed, calls end (they have timeouts),     *)
(* jobs end, and heartbeats go on.                                             *)
AgentFairness ==
  /\ \A w \in Items : WF_agentVars(Runs(w))
  /\ WF_agentVars(onUpdate) /\ WF_agentVars(heartbeat)
  /\ WF_agentVars(recovered) /\ WF_agentVars(retryRecovery)
  /\ WF_agentVars(accepts)
  /\ WF_agentVars(exits)

-----------------------------------------------------------------------------
(* orphan-recovery.ts, index.ts "claims remain paused": a recovery, however    *)
(* long it takes and whatever is assigned meanwhile, removes no guest of work  *)
(* that is still live.                                                         *)
RecoverySparesLive ==
  [][recovered \/ recoveryFails \/ accepts =>
       \A w \in vms \ vms' : server[w] = "over"]_agentVars

(* An Agent that accepts work does not sit on it: no recovery stays due, and   *)
(* nothing it was given waits in the queue.                                    *)
QueueSettled == process = "accepting" => recovery.at = "idle" /\ queue = <<>>
=============================================================================
