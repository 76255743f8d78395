----------------------------- MODULE InstallNode -----------------------------
(* The installer's node role on one systemd host: Hub mode, and --convex with *)
(* or without --replace-hub-agent, its EXIT trap, and the nohup fallback      *)
(* (node_install in src/packages/backend/convex/installScript.ts). Download   *)
(* and verification, which change nothing, come before the first step here.   *)
EXTENDS Naturals, FiniteSets

CONSTANTS
  Agents,        \* Infra Agent builds; a run of the script is served with one pinned
  NoAgent,
  MaxNodeRuns,   \* runs of the script, and systemctl by hand
  MaxNodeFaults  \* steps that fail, kills, Agents that die, reboots

ASSUME InstallNodeAssumption ==
  NoAgent \notin Agents /\ MaxNodeRuns \in Nat /\ MaxNodeFaults \in Nat

(* erainfra-agent is a Hub-mode unit of an older installer; it runs the same  *)
(* file as portless-agent.                                                    *)
HubUnits == {"portless-agent", "erainfra-agent"}
NodeUnits == HubUnits \cup {"erainfra-node"}

VARIABLES
  hubBin, convexBin,  \* the builds at $NODE_BIN_DIR/portless-agent and NODE_CONVEX_BIN
  unitThere,          \* units with a file
  atBoot,             \* units that are enabled
  unitRuns,           \* the build each unit's process executes
  looseRuns, pidKept, \* the Agent started with nohup, and its pid file
  nodeRun,            \* the run of the script in progress
  nodeSaid,           \* how the last run ended
  nodeRuns, nodeFaults

nodeVars == <<hubBin, convexBin, unitThere, atBoot, unitRuns, looseRuns, pidKept, nodeRun, nodeSaid,
              nodeRuns, nodeFaults>>
nodeBins == <<hubBin, convexBin>>
nodeUnits == <<unitThere, atBoot, unitRuns>>
nohupAgent == <<looseRuns, pidKept>>

NoRun == [at |-> "idle", mode |-> "none", pin |-> NoAgent, todo |-> {}, stopped |-> {}, bin |-> NoAgent,
          found |-> {}]
NoWord == [what |-> "none", run |-> NoRun]

(* A host may already be a Hub-mode Node, of either installer or of both.     *)
NodeInit ==
  /\ \E old \in SUBSET HubUnits, a \in Agents :
       /\ unitThere = old /\ atBoot = old
       /\ unitRuns = [u \in NodeUnits |-> IF u \in old THEN a ELSE NoAgent]
       /\ hubBin = IF old = {} THEN NoAgent ELSE a
  /\ convexBin = NoAgent /\ looseRuns = NoAgent /\ pidKept = FALSE
  /\ nodeRun = NoRun /\ nodeSaid = NoWord /\ nodeRuns = 0 /\ nodeFaults = 0

NodeFault == nodeFaults < MaxNodeFaults /\ nodeFaults' = nodeFaults + 1
RunAt(s) == nodeRun.at = s
RunGoes(s) == nodeRun' = [nodeRun EXCEPT !.at = s] /\ UNCHANGED <<nodeSaid, nodeRuns>>
RunEnds(what) == nodeSaid' = [what |-> what, run |-> nodeRun] /\ nodeRun' = NoRun /\ UNCHANGED nodeRuns

-----------------------------------------------------------------------------
(* systemd.                                                                   *)

BinOf(u) == IF u \in HubUnits THEN hubBin ELSE convexBin
Launched(units) == [u \in NodeUnits |-> IF u \in units THEN BinOf(u) ELSE unitRuns[u]]
Halted(units) == [u \in NodeUnits |-> IF u \in units THEN NoAgent ELSE unitRuns[u]]

(* Running, or enabled to start at boot. A unit between two restarts counts.  *)
node_unit_live(u) == unitRuns[u] # NoAgent \/ u \in atBoot

agentDies(u) ==
  /\ unitRuns[u] # NoAgent /\ NodeFault /\ unitRuns' = Halted({u})
  /\ UNCHANGED <<nodeBins, unitThere, atBoot, nohupAgent, nodeRun, nodeSaid, nodeRuns>>
agentRespawns(u) ==
  /\ u \in atBoot /\ unitRuns[u] = NoAgent /\ unitRuns' = Launched({u})
  /\ BinOf(u) # NoAgent
  /\ UNCHANGED <<nodeBins, unitThere, atBoot, nohupAgent, nodeRun, nodeSaid, nodeRuns, nodeFaults>>
nodeReboots ==
  /\ NodeFault
  /\ unitRuns' = [u \in NodeUnits |-> IF u \in atBoot THEN BinOf(u) ELSE NoAgent]
  /\ looseRuns' = NoAgent
  /\ IF RunAt("idle") THEN UNCHANGED <<nodeRun, nodeSaid, nodeRuns>> ELSE RunEnds("killed")
  /\ UNCHANGED <<nodeBins, unitThere, atBoot, pidKept>>

(* By hand, as the installer prints it: stop a unit for good, and put a       *)
(* Hub-mode unit back once no Convex unit is live.                            *)
disableByHand(u) ==
  /\ RunAt("idle") /\ nodeRuns < MaxNodeRuns /\ nodeRuns' = nodeRuns + 1 /\ u \in unitThere
  /\ atBoot' = atBoot \ {u} /\ unitRuns' = Halted({u})
  /\ nodeSaid' = NoWord
  /\ UNCHANGED <<nodeBins, unitThere, nohupAgent, nodeRun, nodeFaults>>
stopByHand(u) ==
  /\ RunAt("idle") /\ NodeFault /\ unitRuns[u] # NoAgent
  /\ unitRuns' = Halted({u})
  /\ UNCHANGED <<nodeBins, unitThere, atBoot, nohupAgent, nodeRun, nodeSaid, nodeRuns>>

-----------------------------------------------------------------------------
(* A run starts with the checks of its mode; one that refuses changes nothing.*)

installConvex(pin, replaceHub) ==
  LET live == {u \in HubUnits : node_unit_live(u)} IN
  /\ RunAt("idle") /\ nodeRuns < MaxNodeRuns /\ nodeRuns' = nodeRuns + 1
  /\ IF live # {} /\ ~replaceHub
       THEN nodeSaid' = [what |-> "refused", run |-> NoRun] /\ UNCHANGED nodeRun
       ELSE /\ nodeRun' = [NoRun EXCEPT !.at = "stop-hub", !.mode = "convex", !.pin = pin, !.todo = live,
                                        !.bin = hubBin, !.found = live]
            /\ nodeSaid' = NoWord
  /\ UNCHANGED <<nodeBins, nodeUnits, nohupAgent, nodeFaults>>

installHub(pin) ==
  /\ RunAt("idle") /\ nodeRuns < MaxNodeRuns /\ nodeRuns' = nodeRuns + 1
  /\ IF node_unit_live("erainfra-node") \/ HubUnits \subseteq unitThere
       THEN nodeSaid' = [what |-> "refused", run |-> NoRun] /\ UNCHANGED nodeRun
       ELSE /\ nodeRun' = [NoRun EXCEPT !.at = "mesh", !.mode = "hub", !.pin = pin, !.bin = hubBin]
            /\ nodeSaid' = NoWord
  /\ UNCHANGED <<nodeBins, nodeUnits, nohupAgent, nodeFaults>>

(* node_convex_install stops the Hub-mode units one by one and remembers the  *)
(* ones it stopped.                                                           *)
(* Mutant of StoppedToo: only the last unit stopped is remembered.           *)
StoppedLast(u) == {u}
StoppedToo(u) == nodeRun.stopped \cup {u}

stopHub(u) ==
  /\ RunAt("stop-hub") /\ u \in nodeRun.todo
  /\ atBoot' = atBoot \ {u} /\ unitRuns' = Halted({u})
  /\ nodeRun' = [nodeRun EXCEPT !.todo = @ \ {u}, !.stopped = StoppedToo(u)]
  /\ UNCHANGED <<nodeBins, unitThere, nohupAgent, nodeSaid, nodeRuns, nodeFaults>>
hubStopped ==
  /\ RunAt("stop-hub") /\ nodeRun.todo = {} /\ RunGoes("mesh")
  /\ UNCHANGED <<nodeBins, nodeUnits, nohupAgent, nodeFaults>>

node_mesh_install ==
  /\ RunAt("mesh") /\ RunGoes("binary")
  /\ UNCHANGED <<nodeBins, nodeUnits, nohupAgent, nodeFaults>>

(* Each mode has its own file.                                                *)
BinaryPlaced(mode) ==
  IF mode = "hub" THEN hubBin' = nodeRun.pin /\ UNCHANGED convexBin
                  ELSE convexBin' = nodeRun.pin /\ UNCHANGED hubBin
placeBinary ==
  /\ RunAt("binary") /\ RunGoes("unit") /\ BinaryPlaced(nodeRun.mode)
  /\ UNCHANGED <<nodeUnits, nohupAgent, nodeFaults>>

Target == IF nodeRun.mode = "hub" THEN "portless-agent" ELSE "erainfra-node"

(* The unit file, then enable (which starts a stopped Hub-mode unit), then    *)
(* restart, then a look whether it is active.                                 *)
writeUnit ==
  /\ RunAt("unit") /\ RunGoes("enable")
  /\ unitThere' = unitThere \cup {Target}
  /\ UNCHANGED <<nodeBins, atBoot, unitRuns, nohupAgent, nodeFaults>>
enableUnit ==
  /\ RunAt("enable") /\ RunGoes("restart")
  /\ atBoot' = atBoot \cup {Target}
  /\ unitRuns' = IF nodeRun.mode = "hub" /\ unitRuns[Target] = NoAgent THEN Launched({Target}) ELSE unitRuns
  /\ UNCHANGED <<nodeBins, unitThere, nohupAgent, nodeFaults>>
restartUnit ==
  /\ RunAt("restart") /\ RunGoes("check")
  /\ unitRuns' = Launched({Target})
  /\ UNCHANGED <<nodeBins, unitThere, atBoot, nohupAgent, nodeFaults>>
checkUnit ==
  /\ RunAt("check") /\ unitRuns[Target] # NoAgent
  /\ RunEnds("running")
  /\ UNCHANGED <<nodeBins, nodeUnits, nohupAgent, nodeFaults>>

(* A step fails, or the unit is found down. A Hub-mode service that does not  *)
(* come up falls back to nohup; every other failure goes through the trap.    *)
Failing ==
  \/ nodeRun.at \in {"stop-hub", "mesh", "binary", "unit", "enable", "restart", "fallback"} /\ NodeFault
  \/ RunAt("check") /\ unitRuns[Target] = NoAgent /\ UNCHANGED nodeFaults
node_fail ==
  /\ Failing
  /\ IF nodeRun.mode = "hub" /\ nodeRun.at \in {"unit", "enable", "restart", "check"}
       THEN RunGoes("fallback")
       ELSE IF nodeRun.stopped = {} THEN RunEnds("failed") ELSE RunGoes("trap")
  /\ UNCHANGED <<nodeBins, nodeUnits, nohupAgent>>

(* The Agent the pid file names is killed, and another started.               *)
startNohup ==
  /\ RunAt("fallback") /\ RunEnds("nohup")
  /\ looseRuns' = hubBin /\ pidKept' = TRUE
  /\ UNCHANGED <<nodeBins, nodeUnits, nodeFaults>>

(* node_on_exit: erainfra-node goes first, then each stopped unit comes back; *)
(* a failure of either is reported and passed over.                           *)
(* Mutant of TrapStops: erainfra-node is left running.                       *)
TrapSkipsStop == RunGoes("put-back") /\ UNCHANGED <<atBoot, unitRuns, nodeFaults>>
TrapStops ==
  \/ /\ RunGoes("put-back") /\ UNCHANGED nodeFaults
     /\ atBoot' = atBoot \ {"erainfra-node"} /\ unitRuns' = Halted({"erainfra-node"})
  \/ /\ NodeFault /\ nodeRun' = [nodeRun EXCEPT !.at = "put-back", !.mode = "both"]
     /\ UNCHANGED <<atBoot, unitRuns, nodeSaid, nodeRuns>>
node_on_exit ==
  /\ RunAt("trap") /\ TrapStops
  /\ UNCHANGED <<nodeBins, unitThere, nohupAgent>>
putBack ==
  /\ RunAt("put-back")
  /\ \/ /\ RunEnds("put-back") /\ UNCHANGED nodeFaults
        /\ atBoot' = atBoot \cup nodeRun.stopped /\ unitRuns' = Launched(nodeRun.stopped)
     \/ /\ NodeFault /\ RunEnds("start-it-by-hand")
        /\ UNCHANGED <<atBoot, unitRuns>>
  /\ UNCHANGED <<nodeBins, unitThere, nohupAgent>>

killInstaller ==
  /\ ~RunAt("idle") /\ NodeFault /\ RunEnds("killed")
  /\ UNCHANGED <<nodeBins, nodeUnits, nohupAgent>>

NodeInstallStep ==
  \/ \E u \in HubUnits : stopHub(u)
  \/ hubStopped \/ node_mesh_install \/ placeBinary \/ writeUnit \/ enableUnit \/ restartUnit
  \/ checkUnit \/ node_fail \/ startNohup \/ node_on_exit \/ putBack \/ killInstaller

NodeInstallNext ==
  \/ \E pin \in Agents : installHub(pin) \/ \E r \in BOOLEAN : installConvex(pin, r)
  \/ NodeInstallStep
  \/ \E u \in NodeUnits : agentDies(u) \/ agentRespawns(u) \/ disableByHand(u) \/ stopByHand(u)
  \/ nodeReboots

NodeInstallSpec == NodeInit /\ [][NodeInstallNext]_nodeVars

-----------------------------------------------------------------------------
(* "One sidecar must never have two controllers", "a Node never runs both     *)
(* modes": no unit of one mode runs, or would start at boot, while a unit of  *)
(* the other does, whatever failed, was killed or rebooted before. The one    *)
(* exception the trap reports: it could not stop erainfra-node.               *)
BothModes == node_unit_live("erainfra-node") /\ \E u \in HubUnits : node_unit_live(u)
OneMode == nodeRun.mode # "both" /\ ~BothModes => ~BothModes'

(* "Any failure after it would leave the Node with no agent at all": a failed *)
(* --replace-hub-agent leaves every Hub-mode unit it found enabled again, and *)
(* a start of it runs the bytes it ran before.                                *)
HubModeComesBack ==
  nodeSaid.what = "put-back" /\ nodeSaid.run.mode = "convex" =>
    /\ hubBin = nodeSaid.run.bin /\ nodeSaid.run.found \subseteq atBoot
=============================================================================
