------------------------------- MODULE MCFleet -------------------------------
(* Instances of the components that share no state, checked in one run each   *)
(* for safety and for progress: a behaviour is that of one component, chosen  *)
(* at the start, while the others stay at rest. Placement has two instances:  *)
(* one Worker, with an edit or a fault (both while there is one piece of      *)
(* work), and two Workers with neither, for Attempts.                         *)
EXTENDS MCControllerLease, NodeCommands, DeployPipeline, WarmPool, EgressGuard, Placement

CONSTANTS boxA, boxB, noReport

VARIABLE focus

(* Two Profiles: microVMs with a warm guest, and wider containers, pinned.    *)
Anywhere == [mode |-> "public", allowed |-> {}]
OnlyGitHub == [mode |-> "allowlist", allowed |-> {"github"}]
Guest ==
  [active |-> TRUE, executor |-> "firecracker", image |-> "i1", vcpus |-> 1, warm |-> 1,
   egress |-> Anywhere, pin |-> {}, labels |-> {}]
Container ==
  [active |-> TRUE, executor |-> "docker", image |-> "i2", vcpus |-> 2, warm |-> 0,
   egress |-> Anywhere, pin |-> {"gpu"}, labels |-> {}]
MCAtStart == [p \in ProfileNames |-> IF p = "vm" THEN Guest ELSE Container]
MCRegistrations ==
  {[Guest EXCEPT !.egress = OnlyGitHub, !.pin = {"gpu"}],
   [Container EXCEPT !.egress = OnlyGitHub], [Container EXCEPT !.labels = {"vm"}]}
MCBenchmarks == {[cpu |-> 0, memory |-> noReport, disk |-> 80, network |-> 0]}
MCBoxCpus == [b \in Boxes |-> 3]

fleetVars == <<vars, commandVars, deployVars, warmVars, egressVars, placeVars, focus>>

FleetInit ==
  /\ focus \in {"lease", "commands", "deploy", "warm", "egress", "placing", "spreading"}
  /\ Init /\ CommandsInit /\ DeployInit /\ WarmInit /\ EgressInit /\ PlacementInit

FleetNext ==
  /\ UNCHANGED focus
  /\ \/ /\ focus = "lease" /\ Next
        /\ UNCHANGED <<commandVars, deployVars, warmVars, egressVars, placeVars>>
     \/ /\ focus = "commands" /\ CommandsNext
        /\ UNCHANGED <<vars, deployVars, warmVars, egressVars, placeVars>>
     \/ /\ focus = "deploy" /\ DeployNext
        /\ UNCHANGED <<vars, commandVars, warmVars, egressVars, placeVars>>
     \/ /\ focus = "warm" /\ WarmNext
        /\ UNCHANGED <<vars, commandVars, deployVars, egressVars, placeVars>>
     \/ /\ focus = "egress" /\ EgressNext
        /\ UNCHANGED <<vars, commandVars, deployVars, warmVars, placeVars>>
     \/ /\ focus \in {"placing", "spreading"} /\ PlacementNext
        /\ focus = "placing" =>
             /\ host'[boxB] = host[boxB] /\ refresh'[boxB] = refresh[boxB]
             /\ edits' + hostFaults' < 2 \/ work'[2].st = "none"
        /\ focus = "spreading" =>
             edits' = 0 /\ hostFaults' = 0 /\ \A i \in Works : work'[i].kind = "attempt"
        /\ UNCHANGED <<vars, commandVars, deployVars, warmVars, egressVars>>

FleetSpec == FleetInit /\ [][FleetNext]_fleetVars

(* No component has anything to do before its first request, so the fairness  *)
(* of the ones at rest asks for nothing.                                      *)
FleetFairSpec ==
  /\ FleetSpec
  /\ CommandsFairness /\ DeployFairness /\ WarmFairness /\ EgressFairness

(* Once requests and faults stop, every component comes to rest: commands and *)
(* deploys end, the warm pool is full, running guests have their firewall     *)
(* elements. Each part is stated, with the code it is about, in its           *)
(* component's module.                                                        *)
FleetSettles ==
  <>[](CommandsSettled /\ RunsSettled /\ PoolSettled /\ TableSettled)
=============================================================================
