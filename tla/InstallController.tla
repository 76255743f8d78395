-------------------------- MODULE InstallController --------------------------
(* The installer's controller role: one run installs a Profile's controller,  *)
(* another moves the host to the pinned release and rolls back when it fails  *)
(* (controller_install in src/packages/backend/convex/installScript.ts). All  *)
(* instances of a host share one binary and one unit file; systemd restarts   *)
(* an instance that dies, from whatever binary it finds then.                 *)
EXTENDS Naturals, FiniteSets

CONSTANTS
  CtlProfiles,
  CtlBuilds,        \* controller releases; a run of the script is served with one pinned
  NoCtlBuild,
  MaxCtlRuns,       \* runs of the script
  MaxCtlTroubles    \* steps that fail, instances that die, runs that are killed

ASSUME CtlAssumption ==
  NoCtlBuild \notin CtlBuilds /\ MaxCtlRuns \in Nat /\ MaxCtlTroubles \in Nat

VARIABLES
  ctlBinary,     \* the build at CTL_BINARY
  ctlUnitFile,   \* the build whose release unit is at CTL_UNIT_PATH
  ctlBackup,     \* the builds kept beside the binary
  envFile,    \* of each Profile: absent, empty (created, not yet filled), written
  ctlEnabled,    \* instances that are started and not stopped
  ctlRuns,       \* the build each instance's process executes
  ctlStep,       \* the run of the script in progress
  ctlOutcome,    \* how the last one ended, and for which instances
  ctlInstalls, ctlTroubles

ctlVars == <<ctlBinary, ctlUnitFile, ctlBackup, envFile, ctlEnabled, ctlRuns, ctlStep, ctlOutcome,
             ctlInstalls, ctlTroubles>>
ctlFiles == <<ctlBinary, ctlUnitFile, ctlBackup, envFile>>
ctlUnits == <<ctlEnabled, ctlRuns>>

NoCtlStep == [at |-> "idle", pin |-> NoCtlBuild, old |-> NoCtlBuild, oldUnit |-> NoCtlBuild, profile |-> "none",
           active |-> {}, todo |-> {}, restored |-> TRUE, clean |-> TRUE]
NoCtlOutcome == [said |-> "none", step |-> NoCtlStep]

CtlInit ==
  /\ ctlBinary = NoCtlBuild /\ ctlUnitFile = NoCtlBuild /\ ctlBackup = {}
  /\ envFile = [p \in CtlProfiles |-> "absent"]
  /\ ctlEnabled = {} /\ ctlRuns = [p \in CtlProfiles |-> NoCtlBuild]
  /\ ctlStep = NoCtlStep /\ ctlOutcome = NoCtlOutcome
  /\ ctlInstalls = 0 /\ ctlTroubles = 0

ActiveInstances == {p \in CtlProfiles : ctlRuns[p] # NoCtlBuild}

CtlAt(s) == ctlStep.at = s
CtlTrouble == ctlTroubles < MaxCtlTroubles /\ ctlTroubles' = ctlTroubles + 1
CtlGoes(s) == ctlStep' = [ctlStep EXCEPT !.at = s] /\ UNCHANGED <<ctlOutcome, ctlInstalls>>
CtlEnds(said) ==
  /\ ctlOutcome' = [said |-> said, step |-> ctlStep]
  /\ ctlStep' = NoCtlStep
  /\ UNCHANGED ctlInstalls

-----------------------------------------------------------------------------
(* systemd. A process comes up only from a unit, its env file and a binary;   *)
(* the ones an empty env file configures exit again.                          *)
CtlStartable(p) == ctlUnitFile # NoCtlBuild /\ ctlBinary # NoCtlBuild /\ envFile[p] = "written"
CtlRestarted(p) ==
  /\ ctlEnabled' = ctlEnabled \cup {p}
  /\ ctlRuns' = [ctlRuns EXCEPT ![p] = IF CtlStartable(p) THEN ctlBinary ELSE NoCtlBuild]

(* Restart=always.                                                            *)
respawnInstance(p) ==
  /\ p \in ctlEnabled /\ ctlRuns[p] = NoCtlBuild /\ CtlStartable(p)
  /\ ctlRuns' = [ctlRuns EXCEPT ![p] = ctlBinary]
  /\ UNCHANGED <<ctlFiles, ctlEnabled, ctlStep, ctlOutcome, ctlInstalls, ctlTroubles>>
instanceDies(p) ==
  /\ ctlRuns[p] # NoCtlBuild /\ CtlTrouble
  /\ ctlRuns' = [ctlRuns EXCEPT ![p] = NoCtlBuild]
  /\ UNCHANGED <<ctlFiles, ctlEnabled, ctlStep, ctlOutcome, ctlInstalls>>
(* An operator retires a Profile.                                             *)
stopInstance(p) ==
  /\ p \in ctlEnabled /\ CtlTrouble
  /\ ctlEnabled' = ctlEnabled \ {p} /\ ctlRuns' = [ctlRuns EXCEPT ![p] = NoCtlBuild]
  /\ UNCHANGED <<ctlFiles, ctlStep, ctlOutcome, ctlInstalls>>

-----------------------------------------------------------------------------
(* --update.                                                                  *)

(* Mutant of WithBackup: the running binary is not kept.                     *)
NoBackup == ctlBackup
WithBackup == ctlBackup \cup {ctlBinary}

(* The binary the host has is compared with the pinned one, and the instances *)
(* running now are the ones to move; both files are kept first.               *)
ctl_update(pin) ==
  /\ CtlAt("idle") /\ ctlInstalls < MaxCtlRuns /\ ctlBinary # NoCtlBuild
  /\ ctlInstalls' = ctlInstalls + 1
  /\ \/ /\ ctlBinary = pin
        /\ ctlOutcome' = [said |-> "nothing-changed", step |-> [NoCtlStep EXCEPT !.pin = pin]]
        /\ UNCHANGED <<ctlStep, ctlBackup>>
     \/ /\ ctlBinary # pin
        /\ ctlBackup' = WithBackup
        /\ ctlStep' = [NoCtlStep EXCEPT !.at = "swap", !.pin = pin, !.old = ctlBinary, !.oldUnit = ctlUnitFile,
                                  !.active = ActiveInstances]
        /\ ctlOutcome' = NoCtlOutcome
  /\ UNCHANGED <<ctlBinary, ctlUnitFile, envFile, ctlUnits, ctlTroubles>>

(* ctl_apply_update: the first step that fails starts the rollback.           *)
applyFails ==
  /\ ctlStep.at \in {"swap", "unit", "reload", "restart"} /\ CtlTrouble
  /\ CtlGoes("undo-binary")
  /\ UNCHANGED <<ctlFiles, ctlUnits>>

swapBinary ==
  /\ CtlAt("swap") /\ CtlGoes("unit")
  /\ ctlBinary' = ctlStep.pin
  /\ UNCHANGED <<ctlUnitFile, ctlBackup, envFile, ctlUnits, ctlTroubles>>
installUnit ==
  /\ CtlAt("unit") /\ CtlGoes("reload")
  /\ ctlUnitFile' = ctlStep.pin
  /\ UNCHANGED <<ctlBinary, ctlBackup, envFile, ctlUnits, ctlTroubles>>
daemonReload ==
  /\ CtlAt("reload")
  /\ ctlStep' = [ctlStep EXCEPT !.at = "restart", !.todo = ctlStep.active]
  /\ UNCHANGED <<ctlFiles, ctlUnits, ctlOutcome, ctlInstalls, ctlTroubles>>

(* In the order they were listed, which the model leaves open.                *)
restartInstance(p) ==
  /\ CtlAt("restart") /\ p \in ctlStep.todo
  /\ ctlStep' = [ctlStep EXCEPT !.todo = @ \ {p}]
  /\ CtlRestarted(p)
  /\ UNCHANGED <<ctlFiles, ctlOutcome, ctlInstalls, ctlTroubles>>

(* The health check, three seconds later, of all of them.                     *)
CtlHealthy == \A p \in ctlStep.active : ctlRuns[p] # NoCtlBuild
healthCheck ==
  /\ CtlAt("restart") /\ ctlStep.todo = {}
  /\ IF CtlHealthy THEN CtlEnds("updated") ELSE CtlGoes("undo-binary")
  /\ UNCHANGED <<ctlFiles, ctlUnits, ctlTroubles>>

(* The rollback goes on past a step that fails, remembers it, and restarts    *)
(* nothing unless both files are back.                                        *)
CtlUndone(next, file, back) ==
  \/ /\ file' = back
     /\ ctlStep' = [ctlStep EXCEPT !.at = next] /\ UNCHANGED ctlTroubles
  \/ /\ CtlTrouble /\ UNCHANGED file
     /\ ctlStep' = [ctlStep EXCEPT !.at = next, !.restored = FALSE, !.clean = FALSE]

restoreBinary ==
  /\ CtlAt("undo-binary") /\ CtlUndone("undo-unit", ctlBinary, ctlStep.old)
  /\ UNCHANGED <<ctlUnitFile, ctlBackup, envFile, ctlUnits, ctlOutcome, ctlInstalls>>
restoreUnit ==
  /\ CtlAt("undo-unit") /\ CtlUndone("undo-reload", ctlUnitFile, ctlStep.oldUnit)
  /\ UNCHANGED <<ctlBinary, ctlBackup, envFile, ctlUnits, ctlOutcome, ctlInstalls>>

RestartAfter(s) == s.restored

undoReload ==
  /\ CtlAt("undo-reload")
  /\ \E clean \in {ctlStep.clean, FALSE} :
       /\ IF clean = ctlStep.clean THEN UNCHANGED ctlTroubles ELSE CtlTrouble
       /\ ctlStep' = [ctlStep EXCEPT !.at = "undo-restart", !.clean = clean,
                               !.todo = IF RestartAfter(ctlStep) THEN ctlStep.active ELSE {}]
  /\ UNCHANGED <<ctlFiles, ctlUnits, ctlOutcome, ctlInstalls>>
undoRestart(p) ==
  /\ CtlAt("undo-restart") /\ p \in ctlStep.todo
  /\ \/ /\ ctlStep' = [ctlStep EXCEPT !.todo = @ \ {p}]
        /\ CtlRestarted(p) /\ UNCHANGED ctlTroubles
     \/ /\ ctlStep' = [ctlStep EXCEPT !.todo = @ \ {p}, !.clean = FALSE]
        /\ CtlTrouble /\ UNCHANGED ctlUnits
  /\ UNCHANGED <<ctlFiles, ctlOutcome, ctlInstalls>>
undoHealthCheck ==
  /\ CtlAt("undo-restart") /\ ctlStep.todo = {}
  /\ CtlEnds(IF ctlStep.clean /\ CtlHealthy THEN "rolled-back" ELSE "manual-recovery")
  /\ UNCHANGED <<ctlFiles, ctlUnits, ctlTroubles>>

-----------------------------------------------------------------------------
(* --profile: the binary and the unit for the host, the env file and the      *)
(* restart for one Profile. A step that fails ends the run there.             *)

ctl_profile(p, pin) ==
  /\ CtlAt("idle") /\ ctlInstalls < MaxCtlRuns
  /\ ctlInstalls' = ctlInstalls + 1
  /\ ctlStep' = [NoCtlStep EXCEPT !.at = "profile-binary", !.pin = pin, !.profile = p]
  /\ ctlOutcome' = NoCtlOutcome
  /\ UNCHANGED <<ctlFiles, ctlUnits, ctlTroubles>>

profileBinary ==
  /\ CtlAt("profile-binary") /\ CtlGoes("profile-unit")
  /\ ctlBinary' = ctlStep.pin
  /\ UNCHANGED <<ctlUnitFile, ctlBackup, envFile, ctlUnits, ctlTroubles>>
profileUnit ==
  /\ CtlAt("profile-unit") /\ CtlGoes("profile-env")
  /\ ctlUnitFile' = ctlStep.pin
  /\ UNCHANGED <<ctlBinary, ctlBackup, envFile, ctlUnits, ctlTroubles>>

(* An env file that exists is kept, unless --reconfigure; otherwise it is     *)
(* created empty and then filled.                                             *)
keepConfig ==
  /\ CtlAt("profile-env") /\ envFile[ctlStep.profile] # "absent" /\ CtlGoes("profile-start")
  /\ UNCHANGED <<ctlFiles, ctlUnits, ctlTroubles>>
createConfig ==
  /\ CtlAt("profile-env") /\ CtlGoes("profile-fill")
  /\ envFile' = [envFile EXCEPT ![ctlStep.profile] = "empty"]
  /\ UNCHANGED <<ctlBinary, ctlUnitFile, ctlBackup, ctlUnits, ctlTroubles>>
fillConfig ==
  /\ CtlAt("profile-fill") /\ CtlGoes("profile-start")
  /\ envFile' = [envFile EXCEPT ![ctlStep.profile] = "written"]
  /\ UNCHANGED <<ctlBinary, ctlUnitFile, ctlBackup, ctlUnits, ctlTroubles>>

startProfile ==
  /\ CtlAt("profile-start") /\ CtlGoes("profile-check")
  /\ CtlRestarted(ctlStep.profile)
  /\ UNCHANGED <<ctlFiles, ctlTroubles>>
checkProfile ==
  /\ CtlAt("profile-check")
  /\ CtlEnds(IF ctlRuns[ctlStep.profile] # NoCtlBuild THEN "running" ELSE "did-not-stay-running")
  /\ UNCHANGED <<ctlFiles, ctlUnits, ctlTroubles>>

(* The script is killed, or a step it does not guard fails.                   *)
killScript ==
  /\ ctlStep.at # "idle" /\ CtlTrouble
  /\ CtlEnds("killed")
  /\ UNCHANGED <<ctlFiles, ctlUnits>>

CtlUpdateStep ==
  \/ applyFails \/ swapBinary \/ installUnit \/ daemonReload \/ healthCheck
  \/ restoreBinary \/ restoreUnit \/ undoReload \/ undoHealthCheck
  \/ \E p \in CtlProfiles : restartInstance(p) \/ undoRestart(p)
CtlProfileStep ==
  \/ profileBinary \/ profileUnit \/ keepConfig \/ createConfig \/ fillConfig
  \/ startProfile \/ checkProfile

CtlNext ==
  \/ \E pin \in CtlBuilds : ctl_update(pin) \/ \E p \in CtlProfiles : ctl_profile(p, pin)
  \/ CtlUpdateStep \/ CtlProfileStep \/ killScript
  \/ \E p \in CtlProfiles : respawnInstance(p) \/ instanceDies(p) \/ stopInstance(p)

CtlSpec == CtlInit /\ [][CtlNext]_ctlVars

-----------------------------------------------------------------------------
(* What the last line of an --update says is so. "restarted on": each         *)
(* instance it listed runs the pinned build, or is coming up from it. "Rolled *)
(* back": the old binary, the old unit, and no listed instance on the         *)
(* rejected build. Whatever it says, the old build is still on the host.      *)
UpdateOutcomeTrue ==
  LET s == ctlOutcome.step IN
  /\ ctlOutcome.said = "updated" =>
       /\ ctlBinary = s.pin /\ ctlUnitFile = s.pin
       /\ \A p \in s.active : ctlRuns[p] \in {s.pin, NoCtlBuild}
  /\ ctlOutcome.said = "rolled-back" =>
       /\ ctlBinary = s.old /\ ctlUnitFile = s.oldUnit
       /\ \A p \in s.active : ctlRuns[p] \in {s.old, NoCtlBuild}
  /\ ctlOutcome.step.old # NoCtlBuild => s.old \in ctlBackup
=============================================================================
