----------------------------- MODULE PushIntake -----------------------------
(* Push-to-deploy: branches bound to Apps, and the intake of GitHub's push    *)
(* deliveries, which arrive late, twice or never                              *)
(* (packages/backend/convex/infra/git.ts, infra/operatorGit.ts, the route of  *)
(* http.ts, the retention of reconcile.ts).                                   *)
(*                                                                            *)
(* Every operation is one Convex transaction, so one step. A run, once        *)
(* queued, is DeployPipeline's; here it is only remembered.                   *)
EXTENDS Naturals, FiniteSets

CONSTANTS
  Spellings,        \* spellings of a repository's name, one branch each
  RepoKey,          \* repoKey: spellings of one repository have one key
  PushApps,
  Pushes,           \* push deliveries, by X-GitHub-Delivery
  Unbound,          \* no App
  MaxGitBindings,   \* MAX_GIT_BINDINGS
  KeptDays,         \* DELIVERY_RETENTION_MS
  RedeliverDays,    \* how long GitHub can redeliver (external)
  MaxDays,          \* the end of time
  MaxBinds          \* bindings made

(* GitHub redelivers for three days; a settled row is kept for seven.         *)
ASSUME PushAssumption ==
  /\ RepoKey \in [Spellings -> Spellings] /\ {Unbound, "never"} \cap PushApps = {}
  /\ {MaxGitBindings, KeptDays, RedeliverDays, MaxDays, MaxBinds} \subseteq Nat
  /\ RedeliverDays < KeptDays

VARIABLES
  today,
  gitBindings,   \* the rows: their id, repository and App
  binds,         \* ids given so far
  pushed,        \* GitHub's pushes: per delivery its repository and day
  pushRow,       \* the push deliveries' webhookDeliveries rows
  pushRuns,      \* the runs queued: delivery, App and binding
  firstSeen      \* history: the App bound when a delivery first arrived

bindingRows == <<gitBindings, binds>>
deliveryRows == <<pushed, pushRow, firstSeen>>
pushVars == <<today, bindingRows, deliveryRows, pushRuns>>

NoPush == [day |-> 0, repo |-> Unbound]
NoPushRow == [at |-> 0, outcome |-> "none"]

PushInit ==
  /\ today = 1 /\ gitBindings = {} /\ binds = 0 /\ pushRuns = {}
  /\ pushed = [d \in Pushes |-> NoPush] /\ pushRow = [d \in Pushes |-> NoPushRow]
  /\ firstSeen = [d \in Pushes |-> "never"]

-----------------------------------------------------------------------------
SpelledAlike(r, s) == r = s   \* a mutant: the index is on the name as written
SameRepo(r, s) == RepoKey[r] = RepoKey[s]
findBinding(r) == {b \in gitBindings : SameRepo(b.repo, r)}

(* bindBranch, from the dashboard or the operator API. Its refusals: the      *)
(* branch is bound, or the table is full; a bad name or Node reads nothing.   *)
bindingRefusal(r) == findBinding(r) # {} \/ Cardinality(gitBindings) >= MaxGitBindings

bind(r, a) ==
  /\ binds < MaxBinds /\ ~bindingRefusal(r)
  /\ gitBindings' = gitBindings \cup {[id |-> binds, repo |-> r, app |-> a]} /\ binds' = binds + 1
  /\ UNCHANGED <<today, deliveryRows, pushRuns>>

(* By id from the dashboard, by repository from the operator API.             *)
unbind(b) ==
  /\ gitBindings' = gitBindings \ {b}
  /\ UNCHANGED <<today, binds, deliveryRows, pushRuns>>

-----------------------------------------------------------------------------
(* GitHub makes a delivery for a push to the branch (external).               *)
Push(d, r) ==
  /\ pushed[d] = NoPush
  /\ pushed' = [pushed EXCEPT ![d] = [day |-> today, repo |-> r]]
  /\ UNCHANGED <<today, bindingRows, pushRow, pushRuns, firstSeen>>

BoundApp(r) == IF findBinding(r) = {} THEN Unbound
               ELSE (CHOOSE b \in findBinding(r) : TRUE).app

(* The delivery row, kept whatever came of the push.                          *)
RowIfQueued(d, outcome) ==   \* a mutant: a push nothing was bound to is not kept
  IF outcome = "queued" THEN [pushRow EXCEPT ![d] = [at |-> today, outcome |-> outcome]] ELSE pushRow
RowKept(d, outcome) == [pushRow EXCEPT ![d] = [at |-> today, outcome |-> outcome]]

(* A delivery, or a later copy of it, reaches /github/webhook with a good     *)
(* signature: a known id queues nothing; otherwise the row and the run it     *)
(* queues commit together. An answer GitHub does not hear is one it may       *)
(* deliver again.                                                             *)
acceptPush(d) ==
  LET app == BoundApp(pushed[d].repo)
      known == pushRow[d] # NoPushRow
  IN /\ pushed[d] # NoPush /\ today <= pushed[d].day + RedeliverDays
     /\ firstSeen' = [firstSeen EXCEPT ![d] = IF @ = "never" THEN app ELSE @]
     /\ pushRow' = IF known THEN pushRow
                   ELSE RowKept(d, IF app = Unbound THEN "no-binding" ELSE "queued")
     /\ pushRuns' = IF known \/ app = Unbound THEN pushRuns
                    ELSE pushRuns \cup {[push |-> d, day |-> today, app |-> app, of |-> b.id]
                                          : b \in findBinding(pushed[d].repo)}
     /\ UNCHANGED <<today, bindingRows, pushed>>

(* Reconcile deletes what was settled DELIVERY_RETENTION_MS ago.              *)
KeptForADay(d) == today > pushRow[d].at   \* a mutant: kept for a day
RowExpired(d) == today >= pushRow[d].at + KeptDays
purgeDeliveries ==
  LET gone == {d \in Pushes : pushRow[d] # NoPushRow /\ RowExpired(d)}
  IN /\ gone # {}
     /\ pushRow' = [d \in Pushes |-> IF d \in gone THEN NoPushRow ELSE pushRow[d]]
     /\ UNCHANGED <<today, bindingRows, pushed, pushRuns, firstSeen>>

DayPasses ==
  /\ today < MaxDays /\ today' = today + 1
  /\ UNCHANGED <<bindingRows, deliveryRows, pushRuns>>

PushNext ==
  \/ \E r \in Spellings, a \in PushApps : bind(r, a)
  \/ \E b \in gitBindings : unbind(b)
  \/ \E d \in Pushes, r \in Spellings : Push(d, r)
  \/ \E d \in Pushes : acceptPush(d)
  \/ purgeDeliveries
  \/ DayPasses

PushSpec == PushInit /\ [][PushNext]_pushVars

-----------------------------------------------------------------------------
(* "A push delivery queues at most one deploy", of the App its branch was     *)
(* bound to when the delivery first arrived: a copy that comes after a bind,  *)
(* an unbind or a rebind deploys nothing else (git.ts acceptPush,             *)
(* reconcile.ts retention).                                                   *)
PushesDecidedOnce ==
  \A r \in pushRuns :
    r.app = firstSeen[r.push] /\ \A s \in pushRuns : s.push = r.push => s = r

(* "(repository, branch) unique; at most 200": however the name is spelled,   *)
(* so that a push has one binding to follow (git.ts bindingRefusal).          *)
BindingsUnique ==
  /\ Cardinality(gitBindings) <= MaxGitBindings
  /\ \A b, c \in gitBindings : RepoKey[b.repo] = RepoKey[c.repo] => b = c

PushesSafe == PushesDecidedOnce /\ BindingsUnique
=============================================================================
