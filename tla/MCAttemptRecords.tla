-------------------------- MODULE MCAttemptRecords --------------------------
(* Instances of what competes for a Worker's slots and of what the control    *)
(* plane keeps of finished Attempts: their tests, their measurements and the  *)
(* sizes it recommends from them. The components share no state: a behaviour  *)
(* is that of one of them, chosen at the start, while the others rest.        *)
EXTENDS AttemptLifecycle, TestReports, JobMetrics, Rightsize

CONSTANTS a1, a2,
  Pushes  \* the TestRuns on push events

VARIABLE focus

(* Two pushes of a branch, and a pull request whose job names their commit.   *)
MCRunOf == [a \in TestRuns |->
  [repository |-> TRUE, headBranch |-> "main", job |-> "test",
   event |-> IF a \in Pushes THEN "push" ELSE "pull_request",
   workflowRun |-> IF a \in Pushes THEN Unknown ELSE 7]]

(* One family's Profiles and one of another; runs at, just under and just     *)
(* over what those carry and hold.                                            *)
MCSize(f, v, m) == [family |-> f, vcpus |-> v, mem |-> m]
MCFirstProfiles ==
  {MCSize("a", 1, 4), MCSize("a", 2, 4), MCSize("a", 2, 8), MCSize("a", 4, 16), MCSize("b", 4, 8)}
MCLoads == [cpu : {7, 9, 14, 18, 29}, mem : {3, 5, 8}]

(* Attempts are interchangeable.                                             *)
Alike == Permutations(Attempts)

recordVars == <<vars, testVars, metricVars, sizeVars, focus>>

SizesAtRest ==
  /\ load = CHOOSE l \in [JobRuns -> Loads] : TRUE
  /\ qualified = {} /\ microVM = FALSE /\ placedOn = CHOOSE p \in FirstProfiles : TRUE

RecordsInit ==
  /\ focus \in {"attempts", "tests", "metrics", "sizes"}
  /\ \/ focus = "sizes"
     \/ focus # "sizes" /\ SizesAtRest
  /\ Init /\ TestsInit /\ MetricsInit /\ RightsizeInit

RecordsNext ==
  /\ UNCHANGED focus
  /\ \/ focus = "attempts" /\ Next /\ UNCHANGED <<testVars, metricVars, sizeVars>>
     \/ focus = "tests" /\ TestsNext /\ UNCHANGED <<vars, metricVars, sizeVars>>
     \/ focus = "metrics" /\ MetricsNext /\ UNCHANGED <<vars, testVars, sizeVars>>
     \/ focus = "sizes" /\ RightsizeNext /\ UNCHANGED <<vars, testVars, metricVars>>

RecordsSpec == RecordsInit /\ [][RecordsNext]_recordVars

(* What the control plane keeps of finished jobs, and advises from, is true:  *)
(* their tests, their measurements and the sizes recommended.                 *)
RecordsTrue == TestsSafe /\ MetricsTrue /\ SizesSettle
=============================================================================
