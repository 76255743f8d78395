---------------------------- MODULE InstallWorker ----------------------------
(* The installer's worker role on one host: fresh installs, updates with      *)
(* their rollback, the rc command, reboots, and installers killed at any step *)
(* (src/packages/backend/convex/installScript.ts; installScriptPowerShell.ts  *)
(* does the same steps with a scheduled task). The Agent is supervised by     *)
(* launchd, systemd or a scheduled task ("service"), or started with nohup,   *)
(* its pid kept in a file, and from cron after a reboot.                      *)
EXTENDS Naturals, FiniteSets

CONSTANTS
  AgentReleases,     \* Agent releases
  SoundReleases,        \* the ones that connect
  ServiceKinds,        \* what the host offers the installer, by session: service, nohup
  MaxSetups,    \* runs of the installer and of rc
  MaxMishaps    \* failed steps, killed installers, Agents that die, reboots

ASSUME WorkerInstallAssumption ==
  /\ "none" \notin AgentReleases /\ SoundReleases \subseteq AgentReleases
  /\ ServiceKinds \subseteq {"service", "nohup"}
  /\ MaxSetups \in Nat /\ MaxMishaps \in Nat

Starters == {"service", "nohup", "loose"}

VARIABLES
  agentDir, previousDir,   \* a release and the identity in its .env
  installMeta,        \* install-meta: AGENT_VERSION and SERVICE_KIND
  agentUnit,        \* the service: absent, stopped, started
  cronLine,        \* the @reboot line is there
  agentProc,        \* the Agent of the service, the one started with nohup, and a loose
               \* one nobody tracks: release, identity, version, and whether it
               \* has reported itself ready
  pidFile,     \* it names the nohup Agent
  agentReady,       \* agent.ready
  setup,       \* the installer's run
  setupSaid,        \* how the last run ended
  knownId,       \* the identity of the last completed registration; history
  cutShort,         \* a run was cut short, or failed after the swap; history
  strayAgents,      \* a reboot ran the crontab, or a session offered another service; history
  setups, mishaps

setupVars == <<agentDir, previousDir, installMeta, agentUnit, cronLine, agentProc, pidFile,
               agentReady, setup, setupSaid, knownId, cutShort, strayAgents, setups, mishaps>>
dirVars == <<agentDir, previousDir>>
hostVars == <<agentUnit, cronLine, agentProc, pidFile, agentReady>>
setupHistory == <<knownId, cutShort, strayAgents>>

NoInstall == [release |-> "none", id |-> 0]
NoMeta == [version |-> "none", kind |-> "none"]
NoProc == [release |-> "none", id |-> 0, version |-> "none", told |-> FALSE]
NoSetup == [at |-> "idle", mode |-> "none", pin |-> "none", stage |-> NoInstall, found |-> NoInstall,
            version |-> "none", kind |-> "none"]

SetupInit ==
  /\ agentDir = NoInstall /\ previousDir = NoInstall /\ installMeta = NoMeta
  /\ agentUnit = "absent" /\ cronLine = FALSE /\ agentProc = [s \in Starters |-> NoProc]
  /\ pidFile = FALSE /\ agentReady = "none"
  /\ setup = NoSetup /\ setupSaid = [what |-> "none", run |-> NoSetup]
  /\ knownId = 0 /\ cutShort = FALSE /\ strayAgents = FALSE
  /\ setups = 0 /\ mishaps = 0

SetupMishap == mishaps < MaxMishaps /\ mishaps' = mishaps + 1
AtSetup(s) == setup.at = s
SetupGoes(s) == setup' = [setup EXCEPT !.at = s] /\ UNCHANGED <<setupSaid, setups>>
SetupEnds(what) == setupSaid' = [what |-> what, run |-> setup] /\ setup' = NoSetup /\ UNCHANGED setups
AgentsRunning == {s \in Starters : agentProc[s] # NoProc}

-----------------------------------------------------------------------------
(* Starting and stopping an Agent.                                            *)

(* start-agent.sh: it needs .env and install-meta, whose version it reports,  *)
(* and removes agent.ready.                                                   *)
AgentStarted == IF agentDir.id # 0 /\ installMeta # NoMeta
             THEN [release |-> agentDir.release, id |-> agentDir.id, version |-> installMeta.version,
                   told |-> FALSE]
             ELSE NoProc

(* stop_service follows install-meta; a nohup Agent is reached by the file.   *)
AgentsStopped ==
  IF installMeta.kind = "service" THEN [agentProc EXCEPT !["service"] = NoProc]
  ELSE IF installMeta.kind = "nohup" /\ pidFile THEN [agentProc EXCEPT !["nohup"] = NoProc] ELSE agentProc

(* start_service: the service is restarted; a nohup Agent that the file names *)
(* is killed first.                                                           *)
StartedBy(kind) ==
  IF kind = "nohup" /\ ~pidFile /\ agentProc[kind] # NoProc
    THEN [agentProc EXCEPT ![kind] = AgentStarted, !["loose"] = agentProc[kind]]
    ELSE [agentProc EXCEPT ![kind] = AgentStarted]

(* Mutant of PidWritten: the pid of an Agent without a service is lost.      *)
PidForgotten(kind) == pidFile
PidWritten(kind) == kind = "nohup" \/ pidFile

AgentStarts(kind) ==
  /\ agentProc' = StartedBy(kind)
  /\ agentUnit' = IF kind = "service" THEN "started" ELSE agentUnit
  /\ pidFile' = PidWritten(kind)
  /\ agentReady' = "none"

-----------------------------------------------------------------------------
(* The installer.                                                             *)

(* The staged release takes the .env of the installed one.                    *)
StagedIdentity(mode) == agentDir.id

(* Download, verification and npm ci come before the first change; --update   *)
(* needs a registration.                                                      *)
beginSetup(mode, pin) ==
  /\ AtSetup("idle") /\ setups < MaxSetups /\ setups' = setups + 1
  /\ mode = "update" => agentDir.id # 0
  /\ setup' = [at |-> "stop", mode |-> mode, pin |-> pin, version |-> installMeta.version, kind |-> "none",
               stage |-> [release |-> pin, id |-> StagedIdentity(mode)], found |-> agentDir]
  /\ setupSaid' = [what |-> "none", run |-> NoSetup]
  /\ knownId' = IF mode = "fresh" THEN 0 ELSE knownId
  /\ UNCHANGED <<dirVars, installMeta, hostVars, cutShort, strayAgents, mishaps>>

(* A failure to stop is ignored.                                              *)
stopService ==
  /\ AtSetup("stop") /\ SetupGoes("clear")
  /\ \/ /\ agentProc' = AgentsStopped /\ UNCHANGED mishaps
        /\ agentUnit' = IF installMeta.kind = "service" /\ agentUnit = "started" THEN "stopped" ELSE agentUnit
        /\ pidFile' = IF installMeta.kind = "nohup" THEN FALSE ELSE pidFile
     \/ SetupMishap /\ UNCHANGED <<agentProc, agentUnit, pidFile>>
  /\ UNCHANGED <<dirVars, installMeta, cronLine, agentReady, setupHistory>>

clearPrevious ==
  /\ AtSetup("clear") /\ SetupGoes("keep")
  /\ previousDir' = NoInstall
  /\ UNCHANGED <<agentDir, installMeta, hostVars, setupHistory, mishaps>>

(* Mutant of KeptAside: the installed release is deleted.                    *)
KeptNothing == NoInstall
(* The installed release is moved aside, not deleted.                         *)
KeptAside == agentDir

keepPrevious ==
  /\ AtSetup("keep") /\ SetupGoes("place")
  /\ IF agentDir # NoInstall
       THEN previousDir' = KeptAside /\ agentDir' = NoInstall
       ELSE UNCHANGED dirVars
  /\ UNCHANGED <<installMeta, hostVars, setupHistory, mishaps>>

(* A failed move restores the previous directory and ends the run; the Agent  *)
(* it stopped is not started again.                                           *)
placeNew ==
  /\ AtSetup("place")
  /\ \/ /\ agentDir' = setup.stage
        /\ SetupGoes(IF setup.mode = "fresh" THEN "register" ELSE "configure")
        /\ UNCHANGED <<previousDir, mishaps>>
     \/ /\ SetupMishap /\ SetupEnds("not-installed")
        /\ IF previousDir # NoInstall
             THEN agentDir' = previousDir /\ previousDir' = NoInstall
             ELSE UNCHANGED dirVars
  /\ UNCHANGED <<installMeta, hostVars, setupHistory>>

(* A fresh install asks for a new machine; a refusal ends the run.            *)
registerMachine ==
  /\ AtSetup("register")
  /\ \/ /\ agentDir' = [agentDir EXCEPT !.id = setups]
        /\ knownId' = setups /\ cutShort' = FALSE
        /\ SetupGoes("configure") /\ UNCHANGED mishaps
     \/ /\ SetupMishap /\ SetupEnds("not-registered")
        /\ cutShort' = TRUE /\ UNCHANGED <<agentDir, knownId>>
  /\ UNCHANGED <<previousDir, installMeta, hostVars, strayAgents>>

(* The kind of service is chosen by what this session reaches, and recorded   *)
(* before anything starts; the crontab gets its line, a unit its file.        *)
configure(kind) ==
  /\ AtSetup("configure")
  /\ setup' = [setup EXCEPT !.at = "start", !.kind = kind] /\ UNCHANGED <<setupSaid, setups>>
  /\ installMeta' = [version |-> setup.pin, kind |-> kind]
  /\ cronLine' = (cronLine \/ kind = "nohup")
  /\ strayAgents' = (strayAgents \/ (installMeta.kind # "none" /\ installMeta.kind # kind))
  /\ UNCHANGED <<dirVars, agentUnit, agentProc, pidFile, agentReady, knownId, cutShort, mishaps>>

startService ==
  /\ AtSetup("start")
  /\ \/ AgentStarts(setup.kind) /\ SetupGoes("await") /\ UNCHANGED <<mishaps, cutShort>>
     \/ SetupMishap /\ SetupEnds("not-started") /\ cutShort' = TRUE
        /\ UNCHANGED <<agentProc, agentUnit, pidFile, agentReady>>
  /\ UNCHANGED <<dirVars, installMeta, cronLine, knownId, strayAgents>>

(* Twenty seconds for agent.ready to name the version.                        *)
agentConnected ==
  /\ AtSetup("await") /\ agentReady = setup.pin
  /\ SetupEnds("connected")
  /\ UNCHANGED <<dirVars, installMeta, hostVars, setupHistory, mishaps>>
connectTimesOut ==
  /\ AtSetup("await") /\ agentReady # setup.pin
  /\ IF setup.mode = "update" /\ previousDir # NoInstall
       THEN SetupGoes("undo") /\ UNCHANGED cutShort
       ELSE SetupEnds("not-connected") /\ cutShort' = TRUE
  /\ UNCHANGED <<dirVars, installMeta, hostVars, knownId, strayAgents, mishaps>>

(* Only an update rolls back: restore_previous, in two steps, then the meta   *)
(* file with the version the run found, then a start whose failure is ignored.*)
dropRejected ==
  /\ AtSetup("undo") /\ SetupGoes("undo-move")
  /\ agentDir' = NoInstall
  /\ UNCHANGED <<previousDir, installMeta, hostVars, setupHistory, mishaps>>
restorePrevious ==
  /\ AtSetup("undo-move") /\ SetupGoes("undo-meta")
  /\ agentDir' = previousDir /\ previousDir' = NoInstall
  /\ UNCHANGED <<installMeta, hostVars, setupHistory, mishaps>>
restoreMeta ==
  /\ AtSetup("undo-meta") /\ SetupGoes("undo-start")
  /\ installMeta' = [version |-> setup.version, kind |-> setup.kind]
  /\ UNCHANGED <<dirVars, hostVars, setupHistory, mishaps>>
restartPrevious ==
  /\ AtSetup("undo-start") /\ SetupEnds("rolled-back")
  /\ \/ AgentStarts(setup.kind) /\ UNCHANGED mishaps
     \/ SetupMishap /\ UNCHANGED <<agentProc, agentUnit, pidFile, agentReady>>
  /\ UNCHANGED <<dirVars, installMeta, cronLine, setupHistory>>

setupKilled ==
  /\ ~AtSetup("idle") /\ SetupMishap
  /\ SetupEnds("killed") /\ cutShort' = TRUE
  /\ UNCHANGED <<dirVars, installMeta, hostVars, knownId, strayAgents>>

-----------------------------------------------------------------------------
(* The Agent and its host.                                                    *)

(* Connected for the first time, an Agent writes the version it was started   *)
(* with.                                                                      *)
publishReadiness(s) ==
  /\ agentProc[s] # NoProc /\ agentProc[s].release \in SoundReleases /\ ~agentProc[s].told
  /\ agentReady' = agentProc[s].version
  /\ agentProc' = [agentProc EXCEPT ![s].told = TRUE]
  /\ UNCHANGED <<dirVars, installMeta, agentUnit, cronLine, pidFile, setup, setupSaid, setupHistory, setups, mishaps>>

agentProcDies(s) ==
  /\ agentProc[s] # NoProc /\ SetupMishap
  /\ agentProc' = [agentProc EXCEPT ![s] = NoProc]
  /\ UNCHANGED <<dirVars, installMeta, agentUnit, cronLine, pidFile, agentReady, setup, setupSaid,
                 setupHistory, setups>>
(* Restart=always, KeepAlive: the service comes back with what it finds.      *)
serviceRespawns ==
  /\ agentUnit = "started" /\ agentProc["service"] = NoProc /\ AgentStarted # NoProc
  /\ agentProc' = [agentProc EXCEPT !["service"] = AgentStarted] /\ agentReady' = "none"
  /\ UNCHANGED <<dirVars, installMeta, agentUnit, cronLine, pidFile, setup, setupSaid, setupHistory, setups, mishaps>>

(* An enabled service and the crontab line start Agents; the pid file is old. *)
hostReboots ==
  /\ SetupMishap
  /\ agentProc' = [s \in Starters |->
                IF (s = "service" /\ agentUnit # "absent") \/ (s = "loose" /\ cronLine) THEN AgentStarted ELSE NoProc]
  /\ agentUnit' = IF agentUnit = "absent" THEN agentUnit ELSE "started"
  /\ pidFile' = FALSE
  /\ strayAgents' = (strayAgents \/ cronLine)
  /\ agentReady' = IF (agentUnit # "absent" \/ cronLine) /\ AgentStarted # NoProc THEN "none" ELSE agentReady
  /\ IF AtSetup("idle") THEN UNCHANGED <<setup, setupSaid, setups, cutShort>>
                        ELSE SetupEnds("killed") /\ cutShort' = TRUE
  /\ UNCHANGED <<dirVars, installMeta, cronLine, knownId>>

(* rc stop, rc restart and rc uninstall.                                      *)
rcStop ==
  /\ AtSetup("idle") /\ setups < MaxSetups /\ setups' = setups + 1 /\ installMeta # NoMeta
  /\ agentProc' = AgentsStopped
  /\ agentUnit' = IF installMeta.kind = "service" /\ agentUnit = "started" THEN "stopped" ELSE agentUnit
  /\ pidFile' = IF installMeta.kind = "nohup" THEN FALSE ELSE pidFile
  /\ UNCHANGED <<dirVars, installMeta, cronLine, agentReady, setup, setupSaid, setupHistory, mishaps>>
rcRestart ==
  /\ AtSetup("idle") /\ setups < MaxSetups /\ setups' = setups + 1 /\ installMeta # NoMeta
  /\ AgentStarts(installMeta.kind)
  /\ UNCHANGED <<dirVars, installMeta, cronLine, setup, setupSaid, setupHistory, mishaps>>
rcUninstall ==
  /\ AtSetup("idle") /\ setups < MaxSetups /\ setups' = setups + 1 /\ installMeta # NoMeta
  /\ agentProc' = AgentsStopped /\ agentUnit' = "absent" /\ cronLine' = FALSE /\ pidFile' = FALSE
  /\ agentDir' = NoInstall /\ previousDir' = NoInstall /\ installMeta' = NoMeta /\ agentReady' = "none"
  /\ knownId' = 0 /\ setupSaid' = [what |-> "none", run |-> NoSetup]
  /\ UNCHANGED <<setup, cutShort, strayAgents, mishaps>>

SetupNext ==
  \/ \E mode \in {"fresh", "update"}, pin \in AgentReleases : beginSetup(mode, pin)
  \/ stopService \/ clearPrevious \/ keepPrevious \/ placeNew \/ registerMachine
  \/ \E kind \in ServiceKinds : configure(kind)
  \/ startService \/ agentConnected \/ connectTimesOut
  \/ dropRejected \/ restorePrevious \/ restoreMeta \/ restartPrevious \/ setupKilled
  \/ \E s \in Starters : publishReadiness(s) \/ agentProcDies(s)
  \/ serviceRespawns \/ hostReboots \/ rcStop \/ rcRestart \/ rcUninstall

SetupSpec == SetupInit /\ [][SetupNext]_setupVars

-----------------------------------------------------------------------------
(* An update never loses the machine: at every step, and wherever installers  *)
(* were killed, one of the two directories holds the identity of the last     *)
(* registration. "Never delete the working agent before its replacement is    *)
(* staged and verified": unless an earlier run was cut short, a failed update *)
(* leaves the release it found, under its own version.                        *)
InstallKept ==
  /\ knownId # 0 => knownId \in {agentDir.id, previousDir.id}
  /\ setupSaid.what \in {"rolled-back", "not-installed"} /\ setupSaid.run.found # NoInstall =>
       /\ agentDir = setupSaid.run.found
       /\ ~cutShort /\ setupSaid.what = "rolled-back" => installMeta.version = agentDir.release

(* "Connected" is true of the release just installed, under the identity just *)
(* registered or kept, not of an Agent that was there before.                 *)
ConnectedIsNew ==
  setupSaid'.what = "connected" /\ setupSaid.what # "connected" /\ ~strayAgents =>
    /\ agentDir.release = setup.pin /\ installMeta.version = setup.pin /\ setup.pin \in SoundReleases
    /\ \A s \in AgentsRunning : agentProc[s].release = setup.pin /\ agentProc[s].id = agentDir.id

(* One Agent per host: two would take the same machine's work twice. It holds *)
(* while every session offers the same kind of service and a host without one *)
(* is not rebooted, although stops fail and installers are killed.            *)
AgentAlone == ~strayAgents => Cardinality(AgentsRunning) <= 1
(* Whatever is cut short, the machine keeps its identity and one Agent.       *)
SetupSafe == InstallKept /\ AgentAlone
=============================================================================
