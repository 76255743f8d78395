----------------------------- MODULE MCServices -----------------------------
(* Instances of components that share no state, checked in one run each for   *)
(* safety and for progress: a behaviour is that of one component, chosen at   *)
(* the start, while the others stay at rest. (MCFleet holds the others.)      *)
EXTENDS CacheRetention, Alerts, GitMirror, WorkerAgent, WorkerCores, LegacyJobs, MeshState, TLC

CONSTANTS
  narrow, wide, thin,   \* Work
  x, y,                 \* Jobs
  nodeA, keyA, keyB,    \* a Node, and the Nodes' keys
  MaxKills              \* times the Agent of WorkerCores dies

VARIABLES focus, kills

MCVcpus == [w \in Work |-> IF w = wide THEN 2 ELSE 1]
MCKeyAtStart == [n \in MeshNodes |-> IF n = nodeA THEN keyA ELSE keyB]
MCRunners == {r \in {<<x, 1>>, <<x, 2>>, <<y, 1>>} : r[1] \in Jobs}
(* Both jobs get a runner, which may take the other; or one is retried.       *)
Names(f) == IF f = "crossed" THEN {<<x, 1>>, <<y, 1>>} ELSE {<<x, 1>>, <<x, 2>>}

MCAsks ==
  {[own |-> TRUE, depth |-> 0, want |-> "tip", tags |-> FALSE],
   [own |-> TRUE, depth |-> 0, want |-> "base", tags |-> TRUE],
   [own |-> FALSE, depth |-> 1, want |-> "tip", tags |-> TRUE]}

serviceVars == <<cacheVars, alertVars, mirrorVars, agentVars, vars, jobVars, meshVars, focus, kills>>

ServicesInit ==
  /\ focus \in {"cache", "alerts", "mirror", "agent", "cores", "crossed", "retried", "mesh"}
  /\ kills = 0
  /\ RetentionInit /\ AlertsInit /\ MirrorInit /\ AgentInit /\ Init /\ JobsInit /\ MeshInit
  /\ focus # "mesh" => \A n \in MeshNodes : ~node[n].gateway

Killed == agent # "down" /\ agent' = "down"

ServicesNext ==
  /\ UNCHANGED focus
  /\ \/ /\ focus = "cache" /\ RetentionNext
        /\ UNCHANGED <<alertVars, mirrorVars, agentVars, vars, jobVars, meshVars>>
     \/ /\ focus = "alerts" /\ AlertsNext
        /\ UNCHANGED <<cacheVars, mirrorVars, agentVars, vars, jobVars, meshVars>>
     \/ /\ focus = "mirror" /\ MirrorNext
        /\ UNCHANGED <<cacheVars, alertVars, agentVars, vars, jobVars, meshVars>>
     \/ /\ focus = "agent" /\ AgentNext
        /\ UNCHANGED <<cacheVars, alertVars, mirrorVars, vars, jobVars, meshVars>>
     \/ /\ focus = "cores" /\ Next
        /\ UNCHANGED <<cacheVars, alertVars, mirrorVars, agentVars, jobVars, meshVars>>
     \/ /\ focus \in {"crossed", "retried"} /\ JobsNext
        /\ \A r \in Runners : cmd'[r].st # "none" => r \in Names(focus)
        /\ UNCHANGED <<cacheVars, alertVars, mirrorVars, agentVars, vars, meshVars>>
     \/ /\ focus = "mesh" /\ MeshNext
        /\ UNCHANGED <<cacheVars, alertVars, mirrorVars, agentVars, vars, jobVars>>
  /\ kills' = IF Killed THEN kills + 1 ELSE kills
  /\ kills' <= MaxKills

ServicesSpec == ServicesInit /\ [][ServicesNext]_serviceVars

(* No component has anything to do before its first request, so the fairness  *)
(* of the ones at rest asks for nothing.                                      *)
ServicesFairSpec ==
  /\ ServicesSpec
  /\ RetentionFairness /\ AlertsFairness /\ MirrorFairness /\ AgentFairness /\ CoresFairness
  /\ MeshFairness

(* Once requests and faults stop, every component comes to rest: no cache     *)
(* entry is without its bytes, alert deliveries are over, Git requests are    *)
(* answered, the Agent sits on no work, no core is held for a container that  *)
(* is gone, and the grants of the Nodes meet. Each part is stated, with the   *)
(* code it is about, in its component's module.                               *)
ServicesSettles ==
  <>[](EntriesSettled /\ AlertsSettled /\ MirrorSettled /\ QueueSettled /\ CoresSettled
       /\ IngressAgrees)
=============================================================================
