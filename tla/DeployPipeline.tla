---------------------------- MODULE DeployPipeline ----------------------------
(* Deploys and failovers of one App (infra/pipeline.ts, failover.ts,           *)
(* deployments.ts): runs queue for the App's lease (leases.ts), hand their     *)
(* steps to Nodes as commands, and commit the App row once the deploy step     *)
(* succeeded. The App has one service. A Node acts on its commands as          *)
(* CommandContract promises; NodeCommands is the detail of that.               *)
EXTENDS Integers, FiniteSets

CONSTANTS
  Nodes,       \* the Nodes
  Home,        \* the Node the App was deployed on before
  First,       \* the Node liveNodes sorts first
  Targets,     \* what a deploy asks for: a Node, or "none"
  MaxRuns,     \* runs created
  MaxOutages,  \* times a Node is cut off
  Hitches      \* what else goes wrong: "drop", "cron"

ASSUME PipelineAssumption ==
  /\ Home \in Nodes /\ First \in Nodes
  /\ "none" \notin Nodes
  /\ Targets \subseteq Nodes \cup {"none"}
  /\ MaxRuns \in Nat /\ MaxOutages \in Nat

VARIABLES
  made,      \* how many runs exist; run r was created as the r-th
  run,       \* the runs: [stage, op, epoch, to, lost]
  job,       \* status of the command of the run's current step
  retire,    \* status of the removal a failover run queued on the lost Node
  swept,     \* runs failed by the sweep whose afterSweep is still scheduled
  appLease,     \* the App's lease: [holder, epoch, live], holder 0 when released
  app,       \* the App row: [node, by], by the run that committed it
  box,       \* per Node, the run whose container carries the App's name, if any
  hand,      \* per Node, the command its Agent is on: [kind, run, ran]
  cut,       \* per Node, whether it is cut off from Convex
  silent,    \* per Node, whether its last heartbeat is NODE_SILENCE_MS old
  suspect,   \* failoverSuspectAt is set
  handled,   \* failoverHandledSeenAt is the last heartbeat
  outages    \* outages so far

deployVars == <<made, run, job, retire, swept, appLease, app, box, hand, cut, silent,
                suspect, handled, outages>>
nodeVars == <<cut, silent, suspect, handled, outages>>

Runs == 1..MaxRuns
Base == 0     \* the deploy that placed the App before the first run
Open == {"pending", "running"}
Active == {"reading-spec", "building", "deploying"}
Nothing == [kind |-> "none", run |-> 0, ran |-> "no"]
NewRun == [stage |-> "none", op |-> "deploy", epoch |-> 0, to |-> "none",
           lost |-> "none"]

DeployInit ==
  /\ made = 0
  /\ run = [r \in Runs |-> NewRun]
  /\ job = [r \in Runs |-> "absent"]
  /\ retire = [r \in Runs |-> "absent"]
  /\ swept = {}
  /\ appLease = [holder |-> 0, epoch |-> 0, live |-> FALSE]
  /\ app = [node |-> Home, by |-> Base]
  /\ box = [n \in Nodes |-> IF n = Home THEN {Base} ELSE {}]
  /\ hand = [n \in Nodes |-> Nothing]
  /\ cut = [n \in Nodes |-> FALSE]
  /\ silent = [n \in Nodes |-> FALSE]
  /\ suspect = [n \in Nodes |-> FALSE]
  /\ handled = [n \in Nodes |-> FALSE]
  /\ outages = 0

Live(n) == ~silent[n]
LiveNodes == {n \in Nodes : Live(n)}
firstOf(nodes) == IF First \in nodes THEN First ELSE CHOOSE n \in nodes : TRUE

-----------------------------------------------------------------------------
(* The App's lease: a free or lapsed one goes to whoever asks, under the next  *)
(* epoch, and giving it up keeps the epoch.                                    *)
Free == ~(appLease.holder # 0 /\ appLease.live)
acquireAppLease(r) == [holder |-> r, epoch |-> appLease.epoch + 1, live |-> TRUE]
releaseAppLease(l, epoch) == IF l.epoch = epoch THEN [l EXCEPT !.holder = 0] ELSE l
leaseAdmits(r) == appLease.holder # 0 /\ appLease.live /\ run[r].epoch = appLease.epoch

(* Nobody renewed it for APP_LEASE_TTL_MS: the pulse did not run.              *)
LeaseExpires ==
  /\ appLease.holder # 0 /\ appLease.live
  /\ appLease' = [appLease EXCEPT !.live = FALSE]
  /\ UNCHANGED <<made, run, job, retire, swept, app, box, hand, nodeVars>>

-----------------------------------------------------------------------------
(* Creating runs: a person, a push or an upload, with or without a Node, and   *)
(* the failover check.                                                         *)
createRun(op, to, lost) ==
  /\ made < MaxRuns
  /\ made' = made + 1
  /\ run' = [run EXCEPT ![made + 1] =
               [stage |-> "queued", op |-> op, epoch |-> 0, to |-> to, lost |-> lost]]

deploy(to) ==
  /\ createRun("deploy", to, "none")
  /\ UNCHANGED <<job, retire, swept, appLease, app, box, hand, nodeVars>>

-----------------------------------------------------------------------------
(* Steps of a run. f is the run's row as read in this transaction and l the    *)
(* lease it holds. advance goes on in one transaction until it has queued a    *)
(* command, so a run is seen queued, in reading-spec, building or deploying,   *)
(* or ended; planning and linking pass within a transaction.                   *)
cleanUp(r) == job' = [job EXCEPT ![r] = IF @ \in Open THEN "cancelled" ELSE @]

finish(r, f, l, stage) ==
  /\ run' = [run EXCEPT ![r] = [f EXCEPT !.stage = stage]]
  /\ appLease' = releaseAppLease(l, f.epoch)
  /\ cleanUp(r)

Fail(r, f, l) == finish(r, f, l, "failed") /\ UNCHANGED <<retire, app>>

(* moveTo and runStep: the next stage and the command it waits for.            *)
runStep(r, f, l, stage) ==
  /\ run' = [run EXCEPT ![r] = [f EXCEPT !.stage = stage]]
  /\ job' = [job EXCEPT ![r] = "pending"]
  /\ appLease' = l
  /\ UNCHANGED app

(* The removals queued on the Node for the container this run starts there.    *)
cancelRetirements(n) ==
  retire' = [r \in Runs |-> IF run[r].lost = n /\ retire[r] = "pending"
                            THEN "cancelled" ELSE retire[r]]

(* planStage. A name, a port or the registry may refuse any plan, and a target *)
(* Node that is not live does.                                                 *)
Placed(r, f, l, stages) ==
  \/ Fail(r, f, l)
  \/ /\ Live(f.to)
     /\ cancelRetirements(f.to)
     /\ \E stage \in stages : runStep(r, f, l, stage)

survivor(f) ==
  IF Live(f.to) THEN {f.to}
  ELSE IF LiveNodes \ {f.lost} = {} THEN {} ELSE {firstOf(LiveNodes \ {f.lost})}

planStage(r, f, l) ==
  \/ f.op = "deploy" /\ Placed(r, f, l, {"building", "deploying"})
  \/ /\ f.op = "failover" /\ app.node # f.lost
     /\ finish(r, f, l, "done")
     /\ UNCHANGED <<retire, app>>
  \/ /\ f.op = "failover" /\ app.node = f.lost
     /\ \/ survivor(f) \subseteq {f.lost} /\ Fail(r, f, l)
        \/ \E to \in survivor(f) \ {f.lost} :
             Placed(r, [f EXCEPT !.to = to], l, {"deploying"})

(* The App row takes the plan's Node; a failover queues the removal of the old *)
(* container on the lost Node.                                                 *)
commit(r) ==
  /\ app' = [node |-> run[r].to, by |-> r]
  /\ retire' = IF run[r].op = "failover" /\ app.node = run[r].lost
               THEN [retire EXCEPT ![r] = "pending"] ELSE retire
  /\ finish(r, run[r], appLease, "done")

(* begin, from a tick of a queued run or from kickApp: an earlier queued run   *)
(* goes first, the lease must be free, and a deploy that names no Node stays   *)
(* where the App runs, or is refused while that Node is silent.                *)
(* Mutant of Earlier: whoever ticks first begins.                              *)
NoneEarlier(r) == FALSE
Earlier(r) == \E q \in 1..(r - 1) : run[q].stage = "queued"
begin(r) ==
  /\ run[r].stage = "queued"
  /\ ~Earlier(r)
  /\ Free
  /\ LET l == acquireAppLease(r)
         f == [run[r] EXCEPT !.epoch = l.epoch]
     IN \/ f.op = "failover" /\ planStage(r, f, l)
        \/ /\ f.op = "deploy"
           /\ IF f.to = "none" /\ ~Live(app.node)
              THEN Fail(r, f, l)
              ELSE /\ runStep(r, [f EXCEPT !.to = IF f.to = "none" THEN app.node ELSE f.to],
                              l, "reading-spec")
                   /\ UNCHANGED retire
  /\ UNCHANGED <<made, swept, box, hand, nodeVars>>

(* tick of a run that started: without its lease it only fails; a step that    *)
(* ended any other way, timed out, or whose Node fell silent, fails it.        *)
(* Mutant of LostLease: only the holder of the lease ever ends a run.          *)
NeverLost(r) == FALSE
LostLease(r) == run[r].stage \in Active /\ ~leaseAdmits(r)
tickLost(r) ==
  /\ LostLease(r)
  /\ run' = [run EXCEPT ![r].stage = "failed"]
  /\ cleanUp(r)
  /\ UNCHANGED <<made, retire, swept, appLease, app, box, hand, nodeVars>>

(* Mutant of stepSucceeded: any report of the step will do.                    *)
stepReported(r) == job[r] \in {"success", "failure", "unknown"}
stepSucceeded(r) == job[r] = "success"
tick(r) ==
  /\ run[r].stage \in Active
  /\ leaseAdmits(r)
  /\ \/ ~stepSucceeded(r) /\ Fail(r, run[r], appLease)
     \/ /\ stepSucceeded(r) /\ run[r].stage = "reading-spec"
        /\ planStage(r, run[r], appLease)
     \/ /\ stepSucceeded(r) /\ run[r].stage = "building"
        /\ runStep(r, run[r], appLease, "deploying") /\ UNCHANGED retire
     \/ stepSucceeded(r) /\ run[r].stage = "deploying" /\ commit(r)
  /\ UNCHANGED <<made, swept, box, hand, nodeVars>>

(* The sweep fails runs that lost their lease and runs queued for an hour; the *)
(* rest of ending them is scheduled.                                           *)
sweepStale(r) ==
  /\ LostLease(r) \/ run[r].stage = "queued"
  /\ run' = [run EXCEPT ![r].stage = "failed"]
  /\ swept' = swept \cup {r}
  /\ UNCHANGED <<made, job, retire, appLease, app, box, hand, nodeVars>>

afterSweep(r) ==
  /\ r \in swept
  /\ swept' = swept \ {r}
  /\ cleanUp(r)
  /\ UNCHANGED <<made, run, retire, appLease, app, box, hand, nodeVars>>

-----------------------------------------------------------------------------
(* The failover check.                                                         *)
checkClears(n) ==
  /\ Live(n) /\ suspect[n]
  /\ suspect' = [suspect EXCEPT ![n] = FALSE]
  /\ UNCHANGED <<made, run, job, retire, swept, appLease, app, box, hand, cut, silent,
                 handled, outages>>

checkSuspects(n) ==
  /\ silent[n] /\ ~handled[n] /\ ~suspect[n]
  /\ suspect' = [suspect EXCEPT ![n] = TRUE]
  /\ UNCHANGED <<made, run, job, retire, swept, appLease, app, box, hand, cut, silent,
                 handled, outages>>

(* A second check after the grace: the outage is handled, once.                *)
failOver(n) ==
  /\ silent[n] /\ ~handled[n] /\ suspect[n]
  /\ suspect' = [suspect EXCEPT ![n] = FALSE]
  /\ handled' = [handled EXCEPT ![n] = TRUE]
  /\ IF app.node = n
     THEN LET others == LiveNodes \ {n} IN
          createRun("failover", IF others = {} THEN n ELSE firstOf(others), n)
     ELSE UNCHANGED <<made, run>>
  /\ UNCHANGED <<job, retire, swept, appLease, app, box, hand, cut, silent, outages>>

-----------------------------------------------------------------------------
(* A Node.                                                                     *)

(* The command a Node has in hand is still claimed: its row is running, and a  *)
(* step's App lease is its own run's.                                          *)
Claimed(h) ==
  IF h.kind = "retire" THEN retire[h.run] = "running"
  ELSE job[h.run] = "running" /\ leaseAdmits(h.run)

claimStep(n, r) ==
  /\ ~cut[n] /\ hand[n] = Nothing
  /\ job[r] \in Open /\ run[r].to = n /\ leaseAdmits(r)
  /\ hand' = [hand EXCEPT ![n] = [kind |-> run[r].stage, run |-> r, ran |-> "no"]]
  /\ job' = [job EXCEPT ![r] = "running"]
  /\ UNCHANGED <<made, run, retire, swept, appLease, app, box, nodeVars>>

(* Mutant of claimRetirement: the removal is fenced like a step of its run.    *)
claimRetirementFenced(n, r) ==
  /\ ~cut[n] /\ hand[n] = Nothing
  /\ retire[r] \in Open /\ run[r].lost = n /\ leaseAdmits(r)
  /\ hand' = [hand EXCEPT ![n] = [kind |-> "retire", run |-> r, ran |-> "no"]]
  /\ retire' = [retire EXCEPT ![r] = "running"]
  /\ UNCHANGED <<made, run, job, swept, appLease, app, box, nodeVars>>

claimRetirement(n, r) ==
  /\ ~cut[n] /\ hand[n] = Nothing
  /\ retire[r] \in Open /\ run[r].lost = n
  /\ hand' = [hand EXCEPT ![n] = [kind |-> "retire", run |-> r, ran |-> "no"]]
  /\ retire' = [retire EXCEPT ![r] = "running"]
  /\ UNCHANGED <<made, run, job, swept, appLease, app, box, nodeVars>>

(* The payload is read under the claim, and the command accepted.              *)
accepts(n) ==
  /\ ~cut[n] /\ hand[n].kind # "none" /\ hand[n].ran = "no"
  /\ hand' = [hand EXCEPT ![n] = IF Claimed(@) THEN [@ EXCEPT !.ran = "started"]
                                 ELSE Nothing]
  /\ UNCHANGED <<made, run, job, retire, swept, appLease, app, box, nodeVars>>

(* The effect on the App's container. One that failed, or was interrupted,     *)
(* may have got anywhere.                                                      *)
After(n) == IF hand[n].kind = "deploying" THEN {hand[n].run} ELSE {}
acts(n) ==
  /\ hand[n].ran = "started"
  /\ \E o \in {"success", "failure", "unknown"} :
       /\ hand' = [hand EXCEPT ![n].ran = o]
       /\ \E b \in IF hand[n].kind \in {"deploying", "retire"}
                   THEN {After(n)} \cup (IF o = "success" THEN {} ELSE {{}, box[n]})
                   ELSE {box[n]} :
            box' = [box EXCEPT ![n] = b]
  /\ UNCHANGED <<made, run, job, retire, swept, appLease, app, nodeVars>>

reports(n) ==
  /\ ~cut[n] /\ hand[n].ran \in {"success", "failure", "unknown"}
  /\ LET h == hand[n] IN
     /\ job' = IF h.kind # "retire" /\ Claimed(h)
               THEN [job EXCEPT ![h.run] = h.ran] ELSE job
     /\ retire' = IF h.kind = "retire" /\ Claimed(h)
                  THEN [retire EXCEPT ![h.run] = h.ran] ELSE retire
  /\ hand' = [hand EXCEPT ![n] = Nothing]
  /\ UNCHANGED <<made, run, swept, appLease, app, box, nodeVars>>

(* The Agent dies, or loses the answer to its claim, before it has accepted    *)
(* the command; the claim runs out and the command is listed again.            *)
drops(n) ==
  /\ "drop" \in Hitches /\ outages < MaxOutages
  /\ hand[n].kind # "none" /\ hand[n].ran = "no"
  /\ hand' = [hand EXCEPT ![n] = Nothing]
  /\ outages' = outages + 1
  /\ UNCHANGED <<made, run, job, retire, swept, appLease, app, box, cut, silent, suspect,
                 handled>>

(* A Node is cut off, falls silent after NODE_SILENCE_MS, and comes back with  *)
(* a heartbeat. A check runs every ten seconds, so one has seen the last       *)
(* heartbeat before the Node counts as silent, unless the cron itself stood    *)
(* still.                                                                      *)
NodeCutOff(n) ==
  /\ ~cut[n] /\ outages < MaxOutages
  /\ cut' = [cut EXCEPT ![n] = TRUE]
  /\ outages' = outages + 1
  /\ UNCHANGED <<made, run, job, retire, swept, appLease, app, box, hand, silent,
                 suspect, handled>>

NodeFallsSilent(n) ==
  /\ cut[n] /\ ~silent[n]
  /\ "cron" \notin Hitches => ~suspect[n]
  /\ silent' = [silent EXCEPT ![n] = TRUE]
  /\ UNCHANGED <<made, run, job, retire, swept, appLease, app, box, hand, cut, suspect,
                 handled, outages>>

heartbeat(n) ==
  /\ cut[n]
  /\ cut' = [cut EXCEPT ![n] = FALSE]
  /\ silent' = [silent EXCEPT ![n] = FALSE]
  /\ handled' = [handled EXCEPT ![n] = FALSE]
  /\ UNCHANGED <<made, run, job, retire, swept, appLease, app, box, hand, suspect,
                 outages>>

-----------------------------------------------------------------------------
RunSteps(r) == begin(r) \/ tickLost(r) \/ tick(r) \/ sweepStale(r) \/ afterSweep(r)
AgentSteps(n) ==
  \/ \E r \in Runs : claimStep(n, r) \/ claimRetirement(n, r)
  \/ accepts(n) \/ acts(n) \/ reports(n)

DeployNext ==
  \/ \E to \in Targets : deploy(to)
  \/ \E r \in Runs : RunSteps(r)
  \/ LeaseExpires
  \/ \E n \in Nodes : \/ checkClears(n) \/ checkSuspects(n) \/ failOver(n)
                      \/ AgentSteps(n) \/ drops(n)
                      \/ NodeCutOff(n) \/ NodeFallsSilent(n) \/ heartbeat(n)

DeploySpec == DeployInit /\ [][DeployNext]_deployVars

(* The crons run and scheduled functions fire; a Node that is cut off comes    *)
(* back and its Agent goes on with its commands.                               *)
DeployFairness ==
  /\ \A r \in Runs : /\ WF_deployVars(begin(r))
                     /\ WF_deployVars(tick(r) \/ tickLost(r))
                     /\ WF_deployVars(afterSweep(r))
  /\ \A n \in Nodes : /\ WF_deployVars(accepts(n) \/ acts(n) \/ reports(n))
                      /\ WF_deployVars(heartbeat(n))
  /\ SF_deployVars(\E n \in Nodes, r \in Runs : claimRetirement(n, r))

DeployFairSpec == DeploySpec /\ DeployFairness

-----------------------------------------------------------------------------
(* The container the App row names is the one running there, unless a later    *)
(* run has worked on that Node since: a removal queued by an earlier failover, *)
(* or a step of a run that lost its lease, never takes the place of what was   *)
(* committed (pipeline.ts, commit and cancelRetirements).                      *)
CommitEpoch == IF app.by = Base THEN 0 ELSE run[app.by].epoch
Reworked(n) == \E r \in Runs : run[r].to = n /\ run[r].epoch > CommitEpoch
RoutedContainerUp == box[app.node] = {app.by} \/ Reworked(app.node)

(* Runs of the App commit in the order they were created, whatever leases they *)
(* lose on the way: a run never overtakes an earlier one (pipeline.ts, begin). *)
CommitsInOrder == [][app'.by >= app.by]_app

(* Every run has ended, also one whose Nodes fell silent, whose steps never    *)
(* finished or whose lease lapsed, and every removal of the old container of   *)
(* an App that failed over is carried out or called off (pulse, sweepStale;    *)
(* commit).                                                                    *)
RunsSettled == \A r \in Runs : /\ run[r].stage \in {"none", "done", "failed"}
                              /\ retire[r] \notin Open
=============================================================================
