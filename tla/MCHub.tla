-------------------------------- MODULE MCHub --------------------------------
(* Instances of the Hub's parts that share no state in the model, checked in  *)
(* one run: a behaviour is that of one part, chosen at the start, while the   *)
(* others stay at rest.                                                       *)
EXTENDS HubData, HubDeploy, HubMesh

CONSTANTS n1, n2, s1, s2, s3, r1, r2, r3, db, lp, lq, provA, provB, cons

VARIABLE focus

MCSiteOf == [s \in Sockets |-> IF s = s3 THEN n2 ELSE n1]
MCAppSite == [r \in Requests |-> IF r = r3 THEN n2 ELSE n1]
MCPin == [s \in Services |-> IF s = db THEN n2 ELSE "default"]
MCProvider == [l \in Links |-> IF l = lp THEN provA ELSE provB]
MCConsumer == [l \in Links |-> cons]

hubVars == <<dataVars, appsVars, meshVars, focus>>

HubInit ==
  /\ focus \in {"data", "apps", "mesh"}
  /\ DataInit /\ AppsInit /\ MeshInit

HubNext ==
  /\ UNCHANGED focus
  /\ \/ focus = "data" /\ DataNext /\ UNCHANGED <<appsVars, meshVars>>
     \/ focus = "apps" /\ AppsNext /\ UNCHANGED <<dataVars, meshVars>>
     \/ focus = "mesh" /\ MeshNext /\ UNCHANGED <<dataVars, appsVars>>

(* No part has anything to do before its first event, so the fairness of the  *)
(* ones at rest asks for nothing.                                             *)
HubFairSpec == HubInit /\ [][HubNext]_hubVars /\ AppsFairness /\ MeshFairness

(* Once requests and faults stop, the Hub's work ends: deploys, removals and  *)
(* failovers are over and recorded as such, and the links it keeps are up on  *)
(* the mesh wherever both ends answer.                                        *)
HubSettles == <>[]AppsSettled /\ LinksSecured
=============================================================================
