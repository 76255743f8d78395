------------------------------ MODULE HubDeploy ------------------------------
(* The Hub's Apps: deploys (runDeploy and agents.deployApp), the removal of   *)
(* the App and the failover of a Node that stays away, all running at once in *)
(* one process and waiting for commands on Nodes in between                   *)
(* (src/apps/hub/src/runtime/{appdeploy,failover,agents,gitdeploy,            *)
(* deployments}.ts, src/apps/hub/src/router.ts). One App of several services. *)
EXTENDS Naturals, FiniteSets

CONSTANTS
  Boxes,        \* Nodes
  Services,     \* the App's services
  Routed,       \* the ones with a route
  Pin,          \* Pin[s]: the Node the spec pins s to, or "default"
  Pipelines,    \* deploys from a source, and
  Manuals,      \* deploys of given images, each used once
  MaxLosses,    \* control connections lost
  MaxRestarts   \* restarts of the Hub

ASSUME AppsAssumption ==
  /\ Routed \subseteq Services
  /\ Pin \in [Services -> Boxes \cup {"default"}]
  /\ "none" \notin Boxes
  /\ Pipelines \cap Manuals = {}
  /\ MaxLosses \in Nat /\ MaxRestarts \in Nat

Deploys == Pipelines \cup Manuals
Losses == 1..MaxLosses

VARIABLES
  online,     \* Nodes with a registered control socket
  running,    \* running[n]: the services with a container on n
  registry,   \* registry[n]: the routes n's agent knows a port for
  app,        \* appStore: the default Node and the Node of each service
  route,      \* routeStore: the Node of each routed service
  stage,      \* deployments: the stage recorded for each deploy
  deploy,     \* deploys in progress
  removal,    \* the removal in progress
  failover,   \* of each lost connection: its timer, then its failover
  losses, restarts,
  crossed     \* a removal, or an agent's restart, met a deploy or failover; or
              \* an upload found no Node

appsVars == <<online, running, registry, app, route, stage, deploy, removal, failover,
             losses, restarts, crossed>>

NoApp == [node |-> "none", at |-> [s \in Services |-> "none"]]
NoDeploy == [at |-> "idle", home |-> "none", todo |-> {}, to |-> "none", ran |-> FALSE, ok |-> TRUE]
NoRemoval == [at |-> "idle", group |-> NoApp, todo |-> {}, to |-> "none", ran |-> FALSE]
NoFailover == [at |-> "idle", lost |-> "none", healthy |-> {}, group |-> NoApp, todo |-> {}, svcs |-> {},
               to |-> "none", ran |-> FALSE]

AppsInit ==
  /\ online = {}
  /\ running = [n \in Boxes |-> {}]
  /\ registry = [n \in Boxes |-> {}]
  /\ app = NoApp
  /\ route = [s \in Routed |-> "none"]
  /\ stage = [d \in Deploys |-> "none"]
  /\ deploy = [d \in Deploys |-> NoDeploy]
  /\ removal = NoRemoval
  /\ failover = [i \in Losses |-> NoFailover]
  /\ losses = 0 /\ restarts = 0
  /\ crossed = {}

Changing == (\E d \in Deploys : deploy[d].at # "idle")
            \/ (\E i \in Losses : failover[i].at = "moving")

-----------------------------------------------------------------------------
(* The control channel (AgentGateway).                                        *)

(* Mutant of rehydrated: a Node that returns is told none of its routes.     *)
rehydrateNothing(n) == {}
(* A hello registers the Node, and the rehydrator pushes it its routes.       *)
rehydrated(n) == {s \in Routed : route[s] = n}

hello(n) ==
  /\ n \notin online
  /\ online' = online \cup {n}
  /\ registry' = [registry EXCEPT ![n] = @ \cup rehydrated(n)]
  /\ UNCHANGED <<running, app, route, stage, deploy, removal, failover, losses, restarts, crossed>>

(* A control socket ends: the commands it carried are rejected, which ends a  *)
(* deploy and gives up a failover's move. An agent that restarted has         *)
(* forgotten its registry.                                                    *)
Cut(n) == [d \in Deploys |-> IF deploy[d].to = n THEN NoDeploy ELSE deploy[d]]
CutStages(n) ==
  [d \in Deploys |-> IF deploy[d].to = n /\ d \in Pipelines THEN "failed" ELSE stage[d]]
CutMoves(n) == [i \in Losses |-> IF failover[i].to = n THEN [failover[i] EXCEPT !.to = "none"]
                                  ELSE failover[i]]

Kept(n, restarted) == IF restarted THEN {} ELSE registry[n]

rejectPending(n, restarted) ==
  /\ n \in online /\ losses < MaxLosses
  /\ losses' = losses + 1
  /\ deploy' = Cut(n) /\ stage' = CutStages(n)
  /\ crossed' = IF restarted /\ Changing THEN crossed \cup {"restart"} ELSE crossed

(* A socket that closed or was reaped: a failover timer is armed.             *)
removeSocket(n, restarted) ==
  /\ rejectPending(n, restarted)
  /\ online' = online \ {n}
  /\ failover' = [CutMoves(n) EXCEPT ![losses + 1] =
                     [NoFailover EXCEPT !.at = "armed", !.lost = n]]
  /\ registry' = [registry EXCEPT ![n] = Kept(n, restarted)]
  /\ UNCHANGED <<running, app, route, removal, restarts>>

(* A Node that dials again before its old socket is known to be dead takes    *)
(* its place: no loss is reported, so no failover follows.                    *)
replaceSocket(n, restarted) ==
  /\ rejectPending(n, restarted)
  /\ failover' = CutMoves(n)
  /\ registry' = [registry EXCEPT ![n] = Kept(n, restarted) \cup rehydrated(n)]
  /\ UNCHANGED <<online, running, app, route, removal, restarts>>

-----------------------------------------------------------------------------
(* Deploys.                                                                   *)

NodeOf(s, home) == IF Pin[s] = "default" THEN home ELSE Pin[s]
Placed(home) == {NodeOf(s, home) : s \in Services}
Group(n, home) == {s \in Services : NodeOf(s, home) = n}

Ended(d, how) ==
  /\ deploy' = [deploy EXCEPT ![d] = NoDeploy]
  /\ stage' = IF d \in Pipelines THEN [stage EXCEPT ![d] = how] ELSE stage

Unmoved == UNCHANGED <<online, app, route, failover, losses, restarts>>

(* startGitDeploy, startUploadDeploy: a record, then a Node resolved among    *)
(* the connected ones. Without one a git deploy fails; an upload throws       *)
(* before there is a pipeline to fail, and its record stays queued.           *)
start(d) ==
  /\ d \in Pipelines /\ stage[d] = "none"
  /\ \/ \E home \in online :
          /\ deploy' = [deploy EXCEPT ![d] = [NoDeploy EXCEPT !.at = "preparing", !.home = home]]
          /\ stage' = [stage EXCEPT ![d] = "queued"]
          /\ crossed' = IF removal.at # "idle" THEN crossed \cup {"removal"} ELSE crossed
     \/ online = {} /\ Ended(d, "failed") /\ UNCHANGED crossed
     \/ /\ online = {} /\ UNCHANGED deploy
        /\ stage' = [stage EXCEPT ![d] = "queued"]
        /\ crossed' = crossed \cup {"upload"}
  /\ UNCHANGED <<running, registry, removal>> /\ Unmoved

(* Reading the spec, checking the placement, wiring the registry and building *)
(* are commands on the build Node, each of which may fail or time out.        *)
prepare(d) ==
  LET f == deploy[d] IN
  /\ f.at = "preparing"
  /\ \/ /\ Placed(f.home) \subseteq online
        /\ deploy' = [deploy EXCEPT ![d].at = "deploying", ![d].todo = Placed(f.home)]
        /\ stage' = [stage EXCEPT ![d] = "deploying"]
     \/ Ended(d, "failed")
  /\ UNCHANGED <<running, registry, removal, crossed>> /\ Unmoved

(* agents.deployApp: no source, no record; refused unless every Node is there.*)
deployApp(d, home) ==
  /\ d \in Manuals /\ stage[d] = "none"
  /\ Placed(home) \subseteq online
  /\ deploy' = [deploy EXCEPT ![d] =
                  [NoDeploy EXCEPT !.at = "deploying", !.home = home, !.todo = Placed(home)]]
  /\ stage' = [stage EXCEPT ![d] = "used"]
  /\ crossed' = IF removal.at # "idle" THEN crossed \cup {"removal"} ELSE crossed
  /\ UNCHANGED <<running, registry, removal>> /\ Unmoved

(* One deployApp command per Node; sending to a Node that left throws.        *)
sendGroup(d, n) ==
  LET f == deploy[d] IN
  /\ f.at = "deploying" /\ f.to = "none" /\ n \in f.todo
  /\ IF n \in online
       THEN /\ deploy' = [deploy EXCEPT ![d].to = n, ![d].ran = FALSE, ![d].todo = @ \ {n}]
            /\ UNCHANGED stage
       ELSE Ended(d, "failed")
  /\ UNCHANGED <<running, registry, removal, crossed>> /\ Unmoved

(* The Node starts the group's containers and learns their ports.             *)
runGroup(d) ==
  LET f == deploy[d] IN
  /\ f.to # "none" /\ ~f.ran
  /\ deploy' = [deploy EXCEPT ![d].ran = TRUE]
  /\ running' = [running EXCEPT ![f.to] = @ \cup Group(f.to, f.home)]
  /\ registry' = [registry EXCEPT ![f.to] = @ \cup (Group(f.to, f.home) \cap Routed)]
  /\ UNCHANGED <<stage, removal, crossed>> /\ Unmoved

(* The command's end: done; refused, at which a pipeline stops and a manual   *)
(* deploy goes on; or timed out.                                              *)
answerGroup(d) ==
  LET f == deploy[d] IN
  /\ f.to # "none"
  /\ \/ /\ f.ran
        /\ deploy' = [deploy EXCEPT ![d].to = "none"]
        /\ UNCHANGED stage
     \/ /\ d \in Manuals
        /\ deploy' = [deploy EXCEPT ![d].to = "none", ![d].ok = FALSE]
        /\ UNCHANGED stage
     \/ Ended(d, "failed")
  /\ UNCHANGED <<running, registry, removal, crossed>> /\ Unmoved

(* All groups are up: the App and its routes are recorded, in one go. The     *)
(* links, if any, come after and decide how a pipeline's record ends.         *)
Recorded(home) ==
  /\ app' = [node |-> home, at |-> [s \in Services |-> NodeOf(s, home)]]
  /\ route' = [s \in Routed |-> NodeOf(s, home)]

(* Mutant of ReadyToRecord: the route is recorded after the first group.     *)
ReadyEarly(f) == f.at = "deploying" /\ f.to = "none"
ReadyToRecord(f) == f.at = "deploying" /\ f.to = "none" /\ f.todo = {}

record(d) ==
  LET f == deploy[d] IN
  /\ ReadyToRecord(f)
  /\ IF f.ok THEN Recorded(f.home) ELSE UNCHANGED <<app, route>>
  /\ IF d \in Pipelines
       THEN /\ deploy' = [deploy EXCEPT ![d].at = "linking"]
            /\ stage' = [stage EXCEPT ![d] = "linking"]
       ELSE Ended(d, "used")
  /\ UNCHANGED <<online, running, registry, removal, failover, losses, restarts, crossed>>

link(d) ==
  /\ deploy[d].at = "linking"
  /\ Ended(d, "done") \/ Ended(d, "failed")
  /\ UNCHANGED <<running, registry, removal, crossed>> /\ Unmoved

-----------------------------------------------------------------------------
(* removeApp.                                                                 *)

(* It works from the App as it was when the removal began. Without an App it  *)
(* throws, unless a bare route is left, which goes with its container.        *)
removeApp ==
  /\ removal.at = "idle"
  /\ \/ /\ app # NoApp
        /\ removal' = [NoRemoval EXCEPT !.at = "removing", !.group = app,
                                        !.todo = {app.at[s] : s \in Services}]
     \/ /\ app = NoApp
        /\ \E s \in Routed :
             /\ route[s] # "none"
             /\ removal' = [NoRemoval EXCEPT !.at = "removing", !.todo = {route[s]},
                              !.group = [NoApp EXCEPT !.at = [NoApp.at EXCEPT ![s] = route[s]]]]
  /\ crossed' = IF Changing THEN crossed \cup {"removal"} ELSE crossed
  /\ UNCHANGED <<running, registry, stage, deploy>> /\ Unmoved

RemovedFrom(n) == {s \in Services : removal.group.at[s] = n}

(* Node by Node; one that is away, or stops answering, is given up on.        *)
removeOn(n) ==
  /\ removal.at = "removing" /\ n \in removal.todo
  /\ removal' = [removal EXCEPT !.todo = @ \ {n}]
  /\ \/ /\ n \in online
        /\ \E gone \in SUBSET (RemovedFrom(n) \cap running[n]) :
             running' = [running EXCEPT ![n] = @ \ gone]
     \/ UNCHANGED running
  /\ UNCHANGED <<registry, stage, deploy, crossed>> /\ Unmoved

(* The routes of the services the removal began with, and the App.            *)
forget ==
  /\ removal.at = "removing" /\ removal.todo = {}
  /\ route' = [s \in Routed |-> IF removal.group.at[s] # "none" THEN "none" ELSE route[s]]
  /\ app' = NoApp
  /\ removal' = NoRemoval
  /\ UNCHANGED <<online, running, registry, stage, deploy, failover, losses, restarts, crossed>>

-----------------------------------------------------------------------------
(* failoverNode, when a Node's timer fires.                                   *)

Stranded(n) ==
  IF app.node = n THEN Services ELSE {s \in Routed : route[s] = n}
Parts(n) == IF app.node = n THEN {Services} ELSE {{s} : s \in Stranded(n)}

(* Nothing to do for a Node that is back, or when no other is connected. The  *)
(* App moves as a group when the lost Node was its default Node, with all its *)
(* services; otherwise each route of the lost Node moves on its own.          *)
failoverNode(i) ==
  LET n == failover[i].lost
      needed == n \notin online /\ Stranded(n) # {} /\ online # {} IN
  /\ failover[i].at = "armed"
  /\ failover' = [failover EXCEPT ![i] =
       IF needed
         THEN [@ EXCEPT !.at = "moving", !.healthy = online, !.todo = Parts(n),
                        !.group = IF app.node = n THEN app ELSE NoApp]
         ELSE NoFailover]
  /\ crossed' = IF needed /\ removal.at # "idle" THEN crossed \cup {"removal"} ELSE crossed
  /\ UNCHANGED <<online, running, registry, app, route, stage, deploy, removal, losses, restarts>>

(* The next deploy, on a Node that was connected when the failover began: one *)
(* that has left since throws, and that move is given up.                     *)
moveTo(i, part, to) ==
  LET f == failover[i] IN
  /\ f.at = "moving" /\ f.to = "none" /\ part \in f.todo /\ to \in f.healthy
  /\ failover' = [failover EXCEPT ![i] =
       IF to \in online
         THEN [f EXCEPT !.to = to, !.ran = FALSE, !.svcs = part, !.todo = @ \ {part}]
         ELSE [f EXCEPT !.todo = @ \ {part}]]
  /\ UNCHANGED <<online, running, registry, app, route, stage, deploy, removal, losses, restarts, crossed>>

runMove(i) ==
  LET f == failover[i] IN
  /\ f.to # "none" /\ ~f.ran
  /\ failover' = [failover EXCEPT ![i].ran = TRUE]
  /\ running' = [running EXCEPT ![f.to] = @ \cup f.svcs]
  /\ registry' = [registry EXCEPT ![f.to] = @ \cup (f.svcs \cap Routed)]
  /\ UNCHANGED <<online, app, route, stage, deploy, removal, losses, restarts, crossed>>

(* A group's record keeps the services as they were, with the Nodes they were *)
(* on, and loses its links; only the default Node changes.                    *)
Moved(f) ==
  /\ app' = IF f.group # NoApp THEN [f.group EXCEPT !.node = f.to] ELSE app
  /\ route' = [s \in Routed |-> IF s \in f.svcs THEN f.to ELSE route[s]]

answerMove(i) ==
  LET f == failover[i] IN
  /\ f.to # "none"
  /\ failover' = [failover EXCEPT ![i].to = "none"]
  /\ \/ f.ran /\ Moved(f)
     \/ UNCHANGED <<app, route>>
  /\ UNCHANGED <<online, running, registry, stage, deploy, removal, losses, restarts, crossed>>

endFailover(i) ==
  /\ failover[i].at = "moving" /\ failover[i].to = "none" /\ failover[i].todo = {}
  /\ failover' = [failover EXCEPT ![i] = NoFailover]
  /\ UNCHANGED <<online, running, registry, app, route, stage, deploy, removal, losses, restarts, crossed>>

-----------------------------------------------------------------------------
(* A restart of the Hub: flows, timers and sockets go with the process, and   *)
(* the boot marks the deploys it cut off.                                     *)
(* Mutant of failStale: the boot leaves the deploys it cut off as they are.  *)
keepStale == stage
failStale == [d \in Deploys |-> IF stage[d] \in {"none", "used", "done"} THEN stage[d] ELSE "failed"]

restart ==
  /\ restarts < MaxRestarts
  /\ restarts' = restarts + 1
  /\ online' = {}
  /\ stage' = failStale
  /\ deploy' = [d \in Deploys |-> NoDeploy]
  /\ removal' = NoRemoval
  /\ failover' = [i \in Losses |-> NoFailover]
  /\ crossed' = IF removal.at # "idle" THEN crossed \cup {"removal"} ELSE crossed
  /\ UNCHANGED <<running, registry, app, route, losses>>

DeployStep(d) ==
  \/ prepare(d) \/ runGroup(d) \/ answerGroup(d) \/ record(d) \/ link(d)
  \/ \E n \in Boxes : sendGroup(d, n)

FailoverStep(i) ==
  \/ failoverNode(i) \/ runMove(i) \/ answerMove(i) \/ endFailover(i)
  \/ \E part \in SUBSET Services, to \in Boxes : moveTo(i, part, to)

RemovalStep == forget \/ \E n \in Boxes : removeOn(n)

AppsNext ==
  \/ \E n \in Boxes : hello(n)
  \/ \E i \in Losses : FailoverStep(i)
  \/ \E n \in Boxes, restarted \in BOOLEAN :
       removeSocket(n, restarted) \/ replaceSocket(n, restarted)
  \/ \E d \in Deploys : start(d) \/ DeployStep(d)
  \/ \E d \in Deploys, home \in Boxes : deployApp(d, home)
  \/ removeApp \/ RemovalStep \/ restart

AppsSpec == AppsInit /\ [][AppsNext]_appsVars

(* Commands are answered, refused or time out; timers fire.                   *)
AppsFairness ==
  /\ \A d \in Deploys : WF_appsVars(DeployStep(d))
  /\ \A i \in Losses : WF_appsVars(FailoverStep(i))
  /\ WF_appsVars(RemovalStep)

-----------------------------------------------------------------------------
(* A route leads to a Node with the service's container, whatever deploys,    *)
(* failovers, lost connections and restarts of the Hub meet: the routes are   *)
(* recorded once the containers run. A removal that meets a deploy or a       *)
(* failover, or that a restart cuts off, leaves routes to removed containers. *)
RoutedRunsApart ==
  "removal" \notin crossed /\ removal.at = "idle" =>
    \A s \in Routed : route[s] # "none" => s \in running[route[s]]

(* A connected Node knows the port of every route that leads to it, although  *)
(* an agent forgets them when it restarts. One that restarts while a deploy   *)
(* or a failover has started its containers but recorded no route yet is told *)
(* too little, and nothing repeats it.                                        *)
RoutedServedApart ==
  "restart" \notin crossed =>
    \A s \in Routed : route[s] \in online => s \in registry[route[s]]

(* A route leads to a container that runs, on a Node that knows its port.     *)
RoutesLive == RoutedRunsApart /\ RoutedServedApart

(* Deploys, removals and failovers end, and a recorded deploy is not left     *)
(* unfinished by a restart of the Hub. An upload that found no Node is.       *)
AppsSettled ==
  /\ \A d \in Deploys : /\ deploy[d].at = "idle"
                        /\ \/ stage[d] \in {"none", "used", "done", "failed"}
                           \/ stage[d] = "queued" /\ "upload" \in crossed
  /\ removal.at = "idle"
  /\ \A i \in Losses : failover[i].at = "idle"
=============================================================================
