---------------------------- MODULE MCOperations ----------------------------
(* Instances of what operators, installers and GitHub set in motion. The      *)
(* components share no state: a behaviour is that of one of them, chosen at   *)
(* the start, while the others stay at rest.                                  *)
EXTENDS Accounts, HubImport, InstallController, InstallWorker,
        InstallNode, WebhookRecovery, PushIntake, WorkerJoin

VARIABLE focus

(* Two spellings of one repository, and another.                              *)
MCRepoKey == [r \in Spellings |-> IF r = "Acme/web" THEN "acme/web" ELSE r]

MCHubRole == [p \in People |-> IF p = "ann" THEN "admin" ELSE "owner"]

(* Deliveries are interchangeable.                                            *)
Alike == Permutations(Guids)

operationVars == <<accountVars, importVars, ctlVars, setupVars, nodeVars,
                   recoveryVars, pushVars, joinVars, focus>>

(* A component at rest has one initial state.                                 *)
OperationsInit ==
  /\ focus \in {"accounts", "import", "controller", "worker", "node", "webhooks", "push", "join"}
  /\ AccountsInit /\ ImportInit /\ CtlInit /\ SetupInit /\ NodeInit /\ RecoveryInit
  /\ PushInit /\ JoinInit
  /\ focus # "accounts" => Accounts = {}
  /\ focus # "import" => table = "app"
  /\ focus # "node" => unitThere = {}

OperationsNext ==
  /\ UNCHANGED focus
  /\ \/ /\ focus = "accounts" /\ AccountsNext
        /\ UNCHANGED <<importVars, ctlVars, setupVars, nodeVars, recoveryVars, pushVars, joinVars>>
     \/ /\ focus = "import" /\ ImportNext
        /\ UNCHANGED <<accountVars, ctlVars, setupVars, nodeVars, recoveryVars, pushVars, joinVars>>
     \/ /\ focus = "controller" /\ CtlNext
        /\ UNCHANGED <<accountVars, importVars, setupVars, nodeVars, recoveryVars, pushVars, joinVars>>
     \/ /\ focus = "worker" /\ SetupNext
        /\ UNCHANGED <<accountVars, importVars, ctlVars, nodeVars, recoveryVars, pushVars, joinVars>>
     \/ /\ focus = "node" /\ NodeInstallNext
        /\ UNCHANGED <<accountVars, importVars, ctlVars, setupVars, recoveryVars, pushVars, joinVars>>
     \/ /\ focus = "webhooks" /\ RecoveryNext
        /\ UNCHANGED <<accountVars, importVars, ctlVars, setupVars, nodeVars, pushVars, joinVars>>
     \/ /\ focus = "push" /\ PushNext
        /\ UNCHANGED <<accountVars, importVars, ctlVars, setupVars, nodeVars, recoveryVars, joinVars>>
     \/ /\ focus = "join" /\ JoinNext
        /\ UNCHANGED <<accountVars, importVars, ctlVars, setupVars, nodeVars, recoveryVars, pushVars>>

OperationsSpec == OperationsInit /\ [][OperationsNext]_operationVars

-----------------------------------------------------------------------------
(* The three install roles keep their promises through failed steps, kills    *)
(* and reboots: a Worker host keeps its identity and one Agent, a Node that   *)
(* fails to change mode comes back under its Hub agent, and what a            *)
(* Controller's --update says at the end is so (installScript.ts).            *)
InstallsSafe == SetupSafe /\ HubModeComesBack /\ UpdateOutcomeTrue

(* What arrives more than once counts once: a push delivery, and a Worker's   *)
(* registration token (infra/git.ts, machines.ts).                            *)
ArrivalsOnce == PushesSafe /\ WorkersJoinOnce

(* No step opens what the code keeps shut: guesses of the bootstrap secret    *)
(* stay spaced, "connected" is said of the new release, and a host does not   *)
(* come to run both Node modes (bootstrapPolicy.ts, installScript.ts).        *)
ErrandsRight == [][GuessesSpaced /\ ConnectedIsNew /\ OneMode]_operationVars
=============================================================================
