-------------------------- MODULE OperationsProofs --------------------------
(* What operators, installers and GitHub set in motion stays right whatever   *)
(* the sizes: theorems about each component on its own, and about the         *)
(* composition MCOperations runs.                                             *)
EXTENDS MCOperations, FiniteSetTheorems, WellFoundedInduction, TLAPS

-----------------------------------------------------------------------------
(* Push-to-deploy (PushIntake).                                               *)

Binding == [id : Nat, repo : Spellings, app : PushApps]
PushRun == [push : Pushes, day : Nat, app : PushApps, of : Nat]

PushTyped ==
  /\ today \in Nat /\ today > 0 /\ binds \in Nat
  /\ gitBindings \subseteq Binding /\ IsFiniteSet(gitBindings)
  /\ pushed \in [Pushes -> [day : Nat, repo : Spellings \cup {Unbound}]]
  /\ pushRow \in [Pushes -> [at : Nat, outcome : {"none", "queued", "no-binding"}]]
  /\ firstSeen \in [Pushes -> PushApps \cup {Unbound, "never"}]
  /\ pushRuns \subseteq PushRun

(* A delivery that arrived is remembered for longer than it can come again.   *)
Remembered ==
  \A d \in Pushes :
    /\ pushed[d].day <= today
    /\ pushRow[d] # NoPushRow => pushed[d] # NoPush /\ pushRow[d].at >= pushed[d].day
    /\ firstSeen[d] # "never" =>
         pushed[d] # NoPush /\ (pushRow[d] # NoPushRow \/ today > pushed[d].day + RedeliverDays)

PushInv == PushTyped /\ Remembered /\ PushesDecidedOnce /\ BindingsUnique

(* A repository has at most one binding, so a push starts at most one run.    *)
LEMMA OneBinding ==
  ASSUME BindingsUnique, NEW r, NEW b \in findBinding(r)
  PROVE  findBinding(r) = {b} /\ BoundApp(r) = b.app
<1>1. \A c \in findBinding(r) : c = b
  BY DEF BindingsUnique, findBinding, SameRepo
<1>2. findBinding(r) = {b}
  BY <1>1
<1>3. (CHOOSE c \in findBinding(r) : TRUE) = b
  BY <1>2
<1> QED
  BY <1>2, <1>3 DEF BoundApp

LEMMA BoundAppType ==
  ASSUME PushTyped, NEW r
  PROVE  BoundApp(r) \in PushApps \cup {Unbound}
<1>1. CASE findBinding(r) = {}
  BY <1>1 DEF BoundApp
<1>2. CASE findBinding(r) # {}
  <2>1. (CHOOSE c \in findBinding(r) : TRUE) \in findBinding(r)
    BY <1>2
  <2> QED
    BY <1>2, <2>1 DEF BoundApp, findBinding, PushTyped, Binding
<1> QED
  BY <1>1, <1>2

LEMMA PushInitInv ==
  ASSUME PushInit
  PROVE  PushInv
<1>1. PushTyped
  BY FS_EmptySet DEF PushInit, PushTyped, NoPush, NoPushRow
<1>2. Remembered
  BY DEF PushInit, Remembered, NoPush
<1>3. BindingsUnique
  BY FS_EmptySet, PushAssumption DEF PushInit, BindingsUnique
<1> QED
  BY <1>1, <1>2, <1>3 DEF PushInit, PushInv, PushesDecidedOnce

LEMMA BindKeepsPushes ==
  ASSUME PushInv, NEW r \in Spellings, NEW a \in PushApps, bind(r, a)
  PROVE  PushInv'
<1> DEFINE b == [id |-> binds, repo |-> r, app |-> a]
<1>0. PushTyped /\ Remembered /\ PushesDecidedOnce /\ BindingsUnique
  BY DEF PushInv
<1>1. UNCHANGED <<today, pushed, pushRow, firstSeen, pushRuns>>
  BY DEF bind, deliveryRows
<1>2. gitBindings' = gitBindings \cup {b} /\ binds' = binds + 1 /\ ~bindingRefusal(r)
  BY DEF bind
<1>3. b \in Binding /\ b.repo = r
  BY <1>0 DEF Binding, PushTyped
<1> HIDE DEF b
<1>4. IsFiniteSet(gitBindings) /\ Cardinality(gitBindings) \in Nat
  BY <1>0, FS_CardinalityType DEF PushTyped
<1>5. /\ IsFiniteSet(gitBindings')
      /\ Cardinality(gitBindings') \in {Cardinality(gitBindings), Cardinality(gitBindings) + 1}
  BY <1>2, <1>4, FS_AddElement
<1>6. Cardinality(gitBindings') <= MaxGitBindings
  BY <1>2, <1>4, <1>5, PushAssumption DEF bindingRefusal
<1>7. \A c \in gitBindings : RepoKey[c.repo] # RepoKey[r]
  BY <1>2 DEF bindingRefusal, findBinding, SameRepo
<1>8. BindingsUnique'
  BY <1>0, <1>2, <1>3, <1>6, <1>7 DEF BindingsUnique
<1>9. PushTyped'
  BY <1>0, <1>1, <1>2, <1>3, <1>5 DEF PushTyped
<1> QED
  BY <1>0, <1>1, <1>8, <1>9 DEF PushInv, Remembered, PushesDecidedOnce

LEMMA UnbindKeepsPushes ==
  ASSUME PushInv, NEW b \in gitBindings, unbind(b)
  PROVE  PushInv'
<1>0. PushTyped /\ Remembered /\ PushesDecidedOnce /\ BindingsUnique
  BY DEF PushInv
<1>1. UNCHANGED <<today, binds, pushed, pushRow, firstSeen, pushRuns>>
  BY DEF unbind, deliveryRows
<1>2. gitBindings' = gitBindings \ {b}
  BY DEF unbind
<1>3. IsFiniteSet(gitBindings) /\ Cardinality(gitBindings) \in Nat
  BY <1>0, FS_CardinalityType DEF PushTyped
<1>4. IsFiniteSet(gitBindings') /\ Cardinality(gitBindings') = Cardinality(gitBindings) - 1
  BY <1>2, <1>3, FS_RemoveElement
<1>5. BindingsUnique'
  BY <1>0, <1>2, <1>3, <1>4, PushAssumption DEF BindingsUnique
<1>6. PushTyped'
  BY <1>0, <1>1, <1>2, <1>4 DEF PushTyped
<1> QED
  BY <1>0, <1>1, <1>5, <1>6 DEF PushInv, Remembered, PushesDecidedOnce

LEMMA PushKeepsPushes ==
  ASSUME PushInv, NEW d \in Pushes, NEW r \in Spellings, Push(d, r)
  PROVE  PushInv'
<1> DEFINE p == [day |-> today, repo |-> r]
<1>0. PushTyped /\ Remembered /\ PushesDecidedOnce /\ BindingsUnique
  BY DEF PushInv
<1>1. UNCHANGED <<today, gitBindings, binds, pushRow, firstSeen, pushRuns>>
  BY DEF Push, bindingRows
<1>2. pushed[d] = NoPush /\ pushed' = [pushed EXCEPT ![d] = p]
  BY DEF Push
<1>3. p \in [day : Nat, repo : Spellings \cup {Unbound}] /\ p.day = today
  BY <1>0 DEF PushTyped
<1>4. pushRow[d] = NoPushRow /\ firstSeen[d] = "never"
  BY <1>0, <1>2 DEF Remembered
<1> HIDE DEF p
<1>5. PushTyped'
  BY <1>0, <1>1, <1>2, <1>3 DEF PushTyped
<1>6. Remembered'
  <2>1. pushed'[d] = p /\ \A c \in Pushes \ {d} : pushed'[c] = pushed[c]
    BY <1>0, <1>2 DEF PushTyped
  <2> QED
    BY <1>0, <1>1, <1>3, <1>4, <2>1 DEF Remembered, PushTyped
<1> QED
  BY <1>0, <1>1, <1>5, <1>6 DEF PushInv, PushesDecidedOnce, BindingsUnique

LEMMA PurgeKeepsPushes ==
  ASSUME PushInv, purgeDeliveries
  PROVE  PushInv'
<1>0. PushTyped /\ Remembered /\ PushesDecidedOnce /\ BindingsUnique
  BY DEF PushInv
<1>1. UNCHANGED <<today, gitBindings, binds, pushed, firstSeen, pushRuns>>
  BY DEF purgeDeliveries, bindingRows
<1>2. /\ pushRow' \in [Pushes -> [at : Nat, outcome : {"none", "queued", "no-binding"}]]
      /\ \A d \in Pushes : \/ pushRow'[d] = pushRow[d]
                           \/ pushRow'[d] = NoPushRow /\ pushRow[d] # NoPushRow /\ RowExpired(d)
  BY <1>0 DEF purgeDeliveries, PushTyped, NoPushRow
<1>3. ASSUME NEW d \in Pushes, pushRow[d] # NoPushRow, RowExpired(d)
      PROVE  today > pushed[d].day + RedeliverDays
  <2>1. pushRow[d].at \in Nat /\ pushed[d].day \in Nat /\ today \in Nat
    BY <1>0 DEF PushTyped
  <2>2. pushRow[d].at >= pushed[d].day
    BY <1>0, <1>3 DEF Remembered
  <2> QED
    BY <1>3, <2>1, <2>2, PushAssumption DEF RowExpired
<1>4. PushTyped'
  BY <1>0, <1>1, <1>2 DEF PushTyped
<1>5. Remembered'
  BY <1>0, <1>1, <1>2, <1>3 DEF Remembered
<1> QED
  BY <1>0, <1>1, <1>4, <1>5 DEF PushInv, PushesDecidedOnce, BindingsUnique

LEMMA DayKeepsPushes ==
  ASSUME PushInv, DayPasses
  PROVE  PushInv'
<1>0. PushTyped /\ Remembered /\ PushesDecidedOnce /\ BindingsUnique
  BY DEF PushInv
<1>1. UNCHANGED <<gitBindings, binds, pushed, pushRow, firstSeen, pushRuns>> /\ today' = today + 1
  BY DEF DayPasses, bindingRows, deliveryRows
<1>2. PushTyped'
  BY <1>0, <1>1 DEF PushTyped
<1>3. \A d \in Pushes : pushed[d].day \in Nat
  BY <1>0 DEF PushTyped
<1>4. Remembered'
  BY <1>0, <1>1, <1>3, PushAssumption DEF Remembered, PushTyped
<1> QED
  BY <1>0, <1>1, <1>2, <1>4 DEF PushInv, PushesDecidedOnce, BindingsUnique

(* A copy of a delivery that is remembered changes nothing; one that is not   *)
(* remembered, and can still come, never came before.                         *)
LEMMA AcceptKeepsPushes ==
  ASSUME PushInv, NEW d \in Pushes, acceptPush(d)
  PROVE  PushInv'
<1> DEFINE app == BoundApp(pushed[d].repo)
           known == pushRow[d] # NoPushRow
           started == {[push |-> d, day |-> today, app |-> app, of |-> b.id]
                         : b \in findBinding(pushed[d].repo)}
           kept == [at |-> today, outcome |-> IF app = Unbound THEN "no-binding" ELSE "queued"]
<1>0. PushTyped /\ Remembered /\ PushesDecidedOnce /\ BindingsUnique
  BY DEF PushInv
<1>1. UNCHANGED <<today, gitBindings, binds, pushed>>
  BY DEF acceptPush, bindingRows
<1>2. pushed[d] # NoPush /\ today <= pushed[d].day + RedeliverDays
  BY DEF acceptPush
<1>3. app \in PushApps \cup {Unbound}
  BY <1>0, BoundAppType
<1>4. /\ firstSeen' = [firstSeen EXCEPT ![d] = IF firstSeen[d] = "never" THEN app ELSE firstSeen[d]]
      /\ pushRow' = IF known THEN pushRow ELSE [pushRow EXCEPT ![d] = kept]
      /\ pushRuns' = IF known \/ app = Unbound THEN pushRuns ELSE pushRuns \cup started
  BY DEF acceptPush, RowKept
<1>5. kept \in [at : Nat, outcome : {"none", "queued", "no-binding"}] /\ kept.at = today
  BY <1>0 DEF PushTyped
<1>6. kept # NoPushRow
  BY <1>0, <1>5 DEF PushTyped, NoPushRow
<1>7. pushed[d].day \in Nat
  BY <1>0 DEF PushTyped
<1>8. ~known => firstSeen[d] = "never"
  BY <1>0, <1>2, <1>7, PushAssumption DEF Remembered, PushTyped
<1> HIDE DEF kept, known
<1>9. PushTyped'
  <2>1. \A b \in findBinding(pushed[d].repo) : b.id \in Nat
    BY <1>0 DEF findBinding, PushTyped, Binding
  <2>2. app # Unbound => started \subseteq PushRun
    BY <1>0, <1>3, <2>1 DEF PushRun, PushTyped
  <2>3. pushRuns' \subseteq PushRun
    BY <1>0, <1>4, <2>2 DEF PushTyped
  <2>4. firstSeen' \in [Pushes -> PushApps \cup {Unbound, "never"}]
    BY <1>0, <1>3, <1>4 DEF PushTyped
  <2>5. pushRow' \in [Pushes -> [at : Nat, outcome : {"none", "queued", "no-binding"}]]
    BY <1>0, <1>4, <1>5 DEF PushTyped
  <2> QED
    BY <1>0, <1>1, <2>3, <2>4, <2>5 DEF PushTyped
<1>10. Remembered'
  <2>1. \A c \in Pushes \ {d} : pushRow'[c] = pushRow[c] /\ firstSeen'[c] = firstSeen[c]
    BY <1>0, <1>4 DEF PushTyped
  <2>2. pushRow'[d] = IF known THEN pushRow[d] ELSE kept
    BY <1>0, <1>4 DEF PushTyped
  <2>3. pushRow'[d] # NoPushRow
    BY <1>6, <2>2 DEF known
  <2>4. pushRow'[d].at >= pushed[d].day
    BY <1>0, <1>5, <2>2 DEF Remembered, known
  <2> QED
    BY <1>0, <1>1, <1>2, <2>1, <2>3, <2>4 DEF Remembered
<1>11. PushesDecidedOnce'
  <2>1. CASE pushRuns' = pushRuns
    <3>1. \A r \in pushRuns : r.push \in Pushes /\ r.app # "never" /\ r.app = firstSeen[r.push]
      BY <1>0, PushAssumption DEF PushTyped, PushRun, PushesDecidedOnce
    <3>2. \A c \in Pushes : firstSeen[c] # "never" => firstSeen'[c] = firstSeen[c]
      BY <1>0, <1>4 DEF PushTyped
    <3> QED
      BY <1>0, <2>1, <3>1, <3>2 DEF PushesDecidedOnce
  <2>2. CASE ~known /\ app # Unbound
    <3>1. PICK b \in findBinding(pushed[d].repo) : TRUE
      BY <2>2 DEF BoundApp
    <3> DEFINE r == [push |-> d, day |-> today, app |-> app, of |-> b.id]
    <3>2. findBinding(pushed[d].repo) = {b}
      BY <1>0, <3>1, OneBinding
    <3>3. pushRuns' = pushRuns \cup {r}
      BY <1>4, <2>2, <3>2
    <3>4. r.push = d /\ r.app = app
      OBVIOUS
    <3>5. firstSeen'[d] = app
      BY <1>0, <1>4, <1>8, <2>2 DEF PushTyped
    <3>6. \A s \in pushRuns : s.push \in Pushes /\ s.push # d
      BY <1>0, <1>8, <2>2, PushAssumption DEF PushTyped, PushRun, PushesDecidedOnce
    <3>7. \A s \in pushRuns : firstSeen'[s.push] = firstSeen[s.push]
      BY <1>0, <1>4, <3>6 DEF PushTyped
    <3> HIDE DEF r
    <3> QED
      BY <1>0, <3>3, <3>4, <3>5, <3>6, <3>7 DEF PushesDecidedOnce
  <2> QED
    BY <1>4, <2>1, <2>2
<1> QED
  BY <1>0, <1>1, <1>9, <1>10, <1>11 DEF PushInv, BindingsUnique

LEMMA PushStep ==
  ASSUME PushInv, [PushNext]_pushVars
  PROVE  PushInv'
<1>1. CASE PushNext
  BY <1>1, BindKeepsPushes, UnbindKeepsPushes, PushKeepsPushes, AcceptKeepsPushes,
     PurgeKeepsPushes, DayKeepsPushes DEF PushNext
<1>2. CASE UNCHANGED pushVars
  BY <1>2 DEF PushInv, PushTyped, Remembered, PushesDecidedOnce, BindingsUnique,
     pushVars, bindingRows, deliveryRows
<1> QED
  BY <1>1, <1>2

(* A push delivery queues at most one deploy, of the App bound when it first  *)
(* arrived, and a repository has one binding however it is spelled, for any   *)
(* repositories, Apps, pushes and limits (git.ts acceptPush, bindingRefusal). *)
THEOREM PushesAreDecidedOnce == PushSpec => []PushesSafe
<1>1. PushInv => PushesSafe
  BY DEF PushInv, PushesSafe
<1> QED
  BY PushInitInv, PushStep, <1>1, PTL DEF PushSpec
-----------------------------------------------------------------------------
(* Joining Workers (WorkerJoin).                                              *)

Machine == [name : Nat, cred : Nat, host : JoinHosts, by : JoinTokens, age : Int]

JoinTyped ==
  /\ minute \in Nat /\ creds \in Nat
  /\ tokenRow \in [JoinTokens -> [at : Nat, state : {"none", "fresh", "used", "deleted"}]]
  /\ machines \subseteq Machine /\ IsFiniteSet(machines) /\ Cardinality(machines) = creds
  /\ DOMAIN joining = JoinHosts /\ env \in [JoinHosts -> Nat]
  /\ \A h \in JoinHosts : joining[h].at = "asked" => joining[h].token \in JoinTokens

(* Names and machine tokens are given in order, and none is ever returned.    *)
GivenInOrder ==
  /\ TakenNames = 1 .. creds
  /\ \A w \in machines : w.cred <= creds

(* A token that admitted a Worker is used, or its row is deleted.             *)
AdmittedBySpent == \A w \in machines : tokenRow[w.by].state \in {"used", "deleted"}

(* A welcome on its way carries the machine token of a row made for the host. *)
WelcomesTrue ==
  \A h \in JoinHosts :
    (joining[h].at = "answered" /\ joining[h].answer = "201")
      => \E w \in machines : w.cred = joining[h].cred /\ w.host = h

JoinInv ==
  /\ JoinTyped /\ GivenInOrder /\ AdmittedBySpent /\ WelcomesTrue
  /\ OneWorkerPerToken /\ WorkersDistinct

LEMMA FreeNameIsNext ==
  ASSUME JoinTyped, GivenInOrder
  PROVE  FreeName = creds + 1
<1>1. creds \in Nat /\ Cardinality(machines) = creds /\ TakenNames = 1 .. creds
  BY DEF JoinTyped, GivenInOrder
<1>2. \E n \in 1 .. creds + 1 : n \notin TakenNames /\ \A k \in 1 .. (n - 1) : k \in TakenNames
  <2>1. creds + 1 \in 1 .. creds + 1 /\ creds + 1 \notin TakenNames
    BY <1>1
  <2>2. \A k \in 1 .. ((creds + 1) - 1) : k \in TakenNames
    BY <1>1
  <2> QED
    BY <2>1, <2>2
<1>3. FreeName \in 1 .. creds + 1 /\ FreeName \notin TakenNames
  BY <1>1, <1>2 DEF FreeName
<1> QED
  BY <1>1, <1>3

LEMMA JoinInitInv ==
  ASSUME JoinInit
  PROVE  JoinInv
<1>1. JoinTyped
  BY FS_EmptySet DEF JoinInit, JoinTyped, NoToken, NotJoining
<1>2. GivenInOrder
  BY DEF JoinInit, GivenInOrder, TakenNames
<1>3. WelcomesTrue
  BY DEF JoinInit, WelcomesTrue, NotJoining
<1> QED
  BY <1>1, <1>2, <1>3 DEF JoinInit, JoinInv, AdmittedBySpent, OneWorkerPerToken, WorkersDistinct

(* What leaves the rows and the files alone keeps what is said of them.       *)
LEMMA RowsKept ==
  ASSUME JoinInv, UNCHANGED <<machines, creds>>,
         DOMAIN tokenRow' = JoinTokens,
         \A t \in JoinTokens : tokenRow[t].state \in {"used", "deleted"}
                                => tokenRow'[t].state \in {"used", "deleted"}
  PROVE  GivenInOrder' /\ AdmittedBySpent' /\ OneWorkerPerToken'
<1>1. \A w \in machines : w.by \in JoinTokens
  BY DEF JoinInv, JoinTyped, Machine
<1> QED
  BY <1>1 DEF JoinInv, GivenInOrder, TakenNames, AdmittedBySpent, OneWorkerPerToken

LEMMA TokensKeepJoins ==
  ASSUME JoinInv,
         \/ \E t \in JoinTokens : issueRegistrationToken(t)
         \/ purgeTokens
  PROVE  JoinInv'
<1>0. JoinTyped /\ WelcomesTrue /\ WorkersDistinct
  BY DEF JoinInv
<1>1. UNCHANGED <<minute, machines, creds, joining, env>>
  BY DEF issueRegistrationToken, purgeTokens
<1>2. /\ tokenRow' \in [JoinTokens -> [at : Nat, state : {"none", "fresh", "used", "deleted"}]]
      /\ \A t \in JoinTokens : tokenRow[t].state \in {"used", "deleted"}
                                => tokenRow'[t].state \in {"used", "deleted"}
  <2>1. ASSUME NEW t \in JoinTokens, issueRegistrationToken(t)
        PROVE  <1>2!1 /\ <1>2!2
    <3>1. tokenRow[t].state = "none"
      BY <2>1 DEF issueRegistrationToken, NoToken
    <3>2. tokenRow' = [tokenRow EXCEPT ![t] = [at |-> minute, state |-> "fresh"]]
      BY <2>1 DEF issueRegistrationToken
    <3>3. [at |-> minute, state |-> "fresh"] \in [at : Nat, state : {"none", "fresh", "used", "deleted"}]
      BY <1>0 DEF JoinTyped
    <3>4. tokenRow' \in [JoinTokens -> [at : Nat, state : {"none", "fresh", "used", "deleted"}]]
      BY <1>0, <3>2, <3>3 DEF JoinTyped
    <3> QED
      BY <1>0, <3>1, <3>2, <3>4 DEF JoinTyped
  <2>2. ASSUME purgeTokens
        PROVE  <1>2!1 /\ <1>2!2
    BY <1>0, <2>2 DEF purgeTokens, JoinTyped
  <2> QED
    BY <2>1, <2>2
<1>3. JoinTyped'
  BY <1>0, <1>1, <1>2 DEF JoinTyped
<1>4. GivenInOrder' /\ AdmittedBySpent' /\ OneWorkerPerToken'
  BY <1>1, <1>2, RowsKept
<1> QED
  BY <1>0, <1>1, <1>3, <1>4 DEF JoinInv, WelcomesTrue, WorkersDistinct

LEMMA AskKeepsJoins ==
  ASSUME JoinInv, NEW h \in JoinHosts, NEW t \in JoinTokens, NEW l, Ask(h, t, l)
  PROVE  JoinInv'
<1> DEFINE r == [at |-> "asked", token |-> t, labels |-> l]
<1>0. JoinTyped /\ WelcomesTrue /\ WorkersDistinct
  BY DEF JoinInv
<1>1. UNCHANGED <<minute, tokenRow, machines, creds, env>> /\ joining' = [joining EXCEPT ![h] = r]
  BY DEF Ask
<1>2. r.at = "asked" /\ r.token = t
  OBVIOUS
<1> HIDE DEF r
<1>3. DOMAIN joining' = JoinHosts /\ joining'[h] = r
      /\ \A k \in JoinHosts \ {h} : joining'[k] = joining[k]
  BY <1>0, <1>1 DEF JoinTyped
<1>4. JoinTyped'
  BY <1>0, <1>1, <1>2, <1>3 DEF JoinTyped
<1>5. GivenInOrder' /\ AdmittedBySpent' /\ OneWorkerPerToken'
  BY <1>0, <1>1, RowsKept DEF JoinTyped
<1>6. WelcomesTrue'
  BY <1>0, <1>1, <1>2, <1>3 DEF WelcomesTrue
<1> QED
  BY <1>0, <1>1, <1>4, <1>5, <1>6 DEF JoinInv, WorkersDistinct

LEMMA EndKeepsJoins ==
  ASSUME JoinInv, NEW h \in JoinHosts, Hear(h) \/ GiveUp(h)
  PROVE  JoinInv'
<1>0. JoinTyped /\ WelcomesTrue /\ WorkersDistinct
  BY DEF JoinInv
<1>1. UNCHANGED <<minute, tokenRow, machines, creds>> /\ joining' = [joining EXCEPT ![h] = NotJoining]
  BY DEF Hear, GiveUp
<1>2. DOMAIN joining' = JoinHosts /\ joining'[h].at = "idle"
      /\ \A k \in JoinHosts \ {h} : joining'[k] = joining[k]
  BY <1>0, <1>1 DEF JoinTyped, NotJoining
<1>3. \/ env' = env
      \/ /\ joining[h].at = "answered" /\ joining[h].answer = "201"
         /\ env' = [env EXCEPT ![h] = joining[h].cred]
  BY DEF Hear, GiveUp
<1>4. env' \in [JoinHosts -> Nat]
      /\ \A k \in JoinHosts : env'[k] # 0 => \E w \in machines : w.cred = env'[k] /\ w.host = k
  <2>1. CASE env' = env
    BY <1>0, <2>1 DEF JoinTyped, WorkersDistinct
  <2>2. CASE /\ joining[h].at = "answered" /\ joining[h].answer = "201"
             /\ env' = [env EXCEPT ![h] = joining[h].cred]
    <3>1. PICK w \in machines : w.cred = joining[h].cred /\ w.host = h
      BY <1>0, <2>2 DEF WelcomesTrue
    <3>2. joining[h].cred \in Nat
      BY <1>0, <3>1 DEF JoinTyped, Machine
    <3> QED
      BY <1>0, <2>2, <3>1, <3>2 DEF JoinTyped, WorkersDistinct
  <2> QED
    BY <1>3, <2>1, <2>2
<1>5. JoinTyped'
  BY <1>0, <1>1, <1>2, <1>4 DEF JoinTyped
<1>6. GivenInOrder' /\ AdmittedBySpent' /\ OneWorkerPerToken'
  BY <1>0, <1>1, RowsKept DEF JoinTyped
<1>7. WelcomesTrue'
  BY <1>0, <1>1, <1>2 DEF WelcomesTrue
<1>8. WorkersDistinct'
  BY <1>0, <1>1, <1>4 DEF WorkersDistinct
<1> QED
  BY <1>5, <1>6, <1>7, <1>8 DEF JoinInv

LEMMA RegisterKeepsJoins ==
  ASSUME JoinInv, NEW h \in JoinHosts, registerAgent(h)
  PROVE  JoinInv'
<1> DEFINE t == joining[h].token
           a == Answer(t, joining[h].labels)
           reply == [at |-> "answered", answer |-> a, cred |-> creds + 1]
           m == [name |-> FreeName, cred |-> creds + 1, host |-> h, by |-> t,
                 age |-> minute - tokenRow[t].at]
<1>0. /\ JoinTyped /\ GivenInOrder /\ AdmittedBySpent /\ WelcomesTrue
      /\ OneWorkerPerToken /\ WorkersDistinct
  BY DEF JoinInv
<1>1. UNCHANGED <<minute, env>> /\ joining' = [joining EXCEPT ![h] = reply] /\ t \in JoinTokens
  BY <1>0 DEF registerAgent, JoinTyped
<1>2. \/ /\ a = "201" /\ tokenRow' = [tokenRow EXCEPT ![t].state = "used"]
         /\ creds' = creds + 1 /\ machines' = machines \cup {m}
      \/ a # "201" /\ UNCHANGED <<tokenRow, creds, machines>>
  BY DEF registerAgent, Spent
<1>3. /\ DOMAIN joining' = JoinHosts /\ joining'[h].at = "answered"
      /\ joining'[h].answer = a /\ joining'[h].cred = creds + 1
      /\ \A k \in JoinHosts \ {h} : joining'[k] = joining[k]
  BY <1>0, <1>1 DEF JoinTyped
<1>4. CASE a # "201"
  <2>1. UNCHANGED <<tokenRow, creds, machines>>
    BY <1>2, <1>4
  <2>2. JoinTyped'
    BY <1>0, <1>1, <1>3, <2>1 DEF JoinTyped
  <2>3. GivenInOrder' /\ AdmittedBySpent' /\ OneWorkerPerToken'
    BY <1>0, <2>1, RowsKept DEF JoinTyped
  <2>4. WelcomesTrue'
    BY <1>0, <1>3, <1>4, <2>1 DEF WelcomesTrue
  <2> QED
    BY <1>0, <1>1, <2>1, <2>2, <2>3, <2>4 DEF JoinInv, WorkersDistinct
<1>5. CASE a = "201"
  <2>1. /\ tokenRow' = [tokenRow EXCEPT ![t].state = "used"]
        /\ creds' = creds + 1 /\ machines' = machines \cup {m}
    BY <1>2, <1>5
  <2>2. tokenRow[t].state \notin {"used", "deleted"} /\ minute - tokenRow[t].at < TokenTTL
    <3>1. tokenRow[t].at \in Nat /\ minute \in Nat /\ TokenTTL \in Nat
      BY <1>0, <1>1, JoinAssumption DEF JoinTyped
    <3> QED
      BY <1>5, <3>1 DEF Answer
  <2>3. FreeName = creds + 1 /\ creds \in Nat
    BY <1>0, FreeNameIsNext DEF JoinTyped
  <2>4. /\ m.name = creds + 1 /\ m.cred = creds + 1 /\ m.host = h /\ m.by = t
        /\ m.age = minute - tokenRow[t].at
    BY <2>3
  <2>5. m \in Machine
    BY <1>0, <1>1, <2>3 DEF JoinTyped, Machine
  <2> HIDE DEF m, t, a
  <2>6. \A w \in machines : w.name \in 1 .. creds /\ w.cred <= creds /\ w.cred \in Nat
                             /\ w.by # t /\ w.by \in JoinTokens
    BY <1>0, <2>2 DEF JoinTyped, Machine, GivenInOrder, TakenNames, AdmittedBySpent
  <2>7. m \notin machines
    BY <2>3, <2>4, <2>6
  <2>8. IsFiniteSet(machines') /\ Cardinality(machines') = creds'
    BY <1>0, <2>1, <2>7, FS_AddElement DEF JoinTyped
  <2>9. /\ tokenRow' \in [JoinTokens -> [at : Nat, state : {"none", "fresh", "used", "deleted"}]]
        /\ tokenRow'[t].state = "used" /\ \A u \in JoinTokens \ {t} : tokenRow'[u] = tokenRow[u]
    BY <1>0, <1>1, <2>1 DEF JoinTyped
  <2>10. JoinTyped'
    <3>1. machines' \subseteq Machine
      BY <1>0, <2>1, <2>5 DEF JoinTyped
    <3>2. \A k \in JoinHosts : joining'[k].at = "asked" => joining'[k].token \in JoinTokens
      BY <1>0, <1>3 DEF JoinTyped
    <3> QED
      BY <1>0, <1>1, <1>3, <2>1, <2>3, <2>8, <2>9, <3>1, <3>2 DEF JoinTyped
  <2>11. GivenInOrder'
    <3>1. TakenNames' = TakenNames \cup {creds + 1}
      BY <2>1, <2>4 DEF TakenNames
    <3>2. 1 .. (creds + 1) = (1 .. creds) \cup {creds + 1}
      BY <2>3
    <3>3. \A w \in machines' : w.cred <= creds'
      BY <2>1, <2>3, <2>4, <2>6
    <3> QED
      BY <1>0, <2>1, <3>1, <3>2, <3>3 DEF GivenInOrder
  <2>12. AdmittedBySpent'
    BY <1>0, <2>1, <2>4, <2>6, <2>9 DEF AdmittedBySpent
  <2>13. OneWorkerPerToken'
    BY <1>0, <2>1, <2>2, <2>4, <2>6 DEF OneWorkerPerToken
  <2>14. WorkersDistinct'
    <3>1. \A v, w \in machines' : (v.name = w.name \/ v.cred = w.cred) => v = w
      <4>1. \A w \in machines : w.name # m.name /\ w.cred # m.cred
        BY <2>3, <2>4, <2>6
      <4> QED
        BY <1>0, <2>1, <4>1 DEF WorkersDistinct
    <3>2. \A k \in JoinHosts : env'[k] # 0 => \E w \in machines' : w.cred = env'[k] /\ w.host = k
      BY <1>0, <1>1, <2>1 DEF WorkersDistinct
    <3> QED
      BY <3>1, <3>2 DEF WorkersDistinct
  <2>15. WelcomesTrue'
    <3>1. m \in machines' /\ machines \subseteq machines'
      BY <2>1
    <3> QED
      BY <1>0, <1>3, <2>4, <3>1 DEF WelcomesTrue
  <2> QED
    BY <2>10, <2>11, <2>12, <2>13, <2>14, <2>15 DEF JoinInv
<1> QED
  BY <1>4, <1>5

LEMMA JoinStep ==
  ASSUME JoinInv, [JoinNext]_joinVars
  PROVE  JoinInv'
<1>1. CASE MinutePasses
  BY <1>1 DEF MinutePasses, JoinInv, JoinTyped, GivenInOrder, TakenNames, AdmittedBySpent,
     WelcomesTrue, OneWorkerPerToken, WorkersDistinct
<1>2. CASE UNCHANGED joinVars
  BY <1>2 DEF joinVars, JoinInv, JoinTyped, GivenInOrder, TakenNames, AdmittedBySpent,
     WelcomesTrue, OneWorkerPerToken, WorkersDistinct
<1> QED
  BY <1>1, <1>2, TokensKeepJoins, AskKeepsJoins, RegisterKeepsJoins, EndKeepsJoins DEF JoinNext

(* A registration token admits one Worker, and Workers keep apart their names *)
(* and machine tokens, for any hosts, tokens and retention, whatever requests *)
(* are repeated and whatever answers are lost (machines.ts registerAgent).    *)
THEOREM WorkersJoinOnceOnly == JoinSpec => []WorkersJoinOnce
<1>1. JoinInv => WorkersJoinOnce
  BY DEF JoinInv, WorkersJoinOnce
<1> QED
  BY JoinInitInv, JoinStep, <1>1, PTL DEF JoinSpec

-----------------------------------------------------------------------------
(* Who may use the dashboard (Accounts).                                      *)

Account == [role : Roles \cup {"none"}, hub : BOOLEAN]

AccountsTyped ==
  /\ user \in [People -> Account \cup {Nobody}]
  /\ DOMAIN grant = Grants /\ \A g \in Grants : grant[g] # Nobody => grant[g].role \in Roles
  /\ left \subseteq People /\ ownerCut \in BOOLEAN

(* Whoever was put out has a tombstone.                                       *)
OutIsTombstoned == left \subseteq gone

AccountsInv == AccountsTyped /\ OutIsTombstoned /\ OwnerRemains /\ RemovedStaysOut

(* A step that gives p the account u keeps an owner if p becomes or is not    *)
(* the owner there was, or another remains.                                   *)
LEMMA OwnerKept ==
  ASSUME AccountsTyped, OwnerRemains, NEW p \in People, NEW u \in Account \cup {Nobody},
         user' = [user EXCEPT ![p] = u], ownerCut' = FALSE => ownerCut = FALSE,
         ownerCut' \in BOOLEAN,
         \/ u # Nobody /\ u.role \in {"owner", "none"}
         \/ Accounts = {} /\ u = Nobody
         \/ Accounts # {} /\ p \notin Owners
         \/ AnotherOwnerExists(p)
         \/ ownerCut'
  PROVE  OwnerRemains'
<1>1. /\ user'[p] = u /\ \A q \in People \ {p} : user'[q] = user[q]
  BY DEF AccountsTyped
<1>2. \A q \in People : q \in Owners' <=> user'[q] # Nobody /\ user'[q].role \in {"owner", "none"}
  BY DEF Owners, Accounts, EffectiveRole
<1>3. \A q \in People : q \in Owners <=> user[q] # Nobody /\ user[q].role \in {"owner", "none"}
  BY DEF Owners, Accounts, EffectiveRole
<1>4. Owners \subseteq People /\ Owners \subseteq Accounts
  BY DEF Owners, Accounts
<1>5. SUFFICES ASSUME Accounts' # {}, ~ownerCut'
               PROVE  Owners' # {}
  BY DEF OwnerRemains
<1>6. CASE u # Nobody /\ u.role \in {"owner", "none"}
  BY <1>1, <1>2, <1>6
<1>7. CASE Accounts = {} /\ u = Nobody
  BY <1>1, <1>5, <1>7 DEF Accounts
<1>8. CASE Accounts # {} /\ p \notin Owners
  <2>1. PICK q \in Owners : TRUE
    BY <1>5, <1>8 DEF OwnerRemains, AccountsTyped
  <2> QED
    BY <1>1, <1>2, <1>3, <1>4, <1>8, <2>1
<1>9. CASE AnotherOwnerExists(p)
  <2>1. PICK q \in Owners \ {p} : TRUE
    BY <1>9 DEF AnotherOwnerExists
  <2> QED
    BY <1>1, <1>2, <1>3, <1>4, <2>1
<1> QED
  BY <1>5, <1>6, <1>7, <1>8, <1>9

LEMMA AccountsInitInv ==
  ASSUME AccountsInit
  PROVE  AccountsInv
<1>1. PICK first \in SUBSET People :
        user = [p \in People |-> IF p \in first THEN [role |-> "none", hub |-> FALSE] ELSE Nobody]
  BY DEF AccountsInit
<1>2. AccountsTyped
  BY <1>1 DEF AccountsInit, AccountsTyped, Account
<1>3. \A p \in People : user[p] # Nobody => user[p].role = "none"
  BY <1>1
<1>4. OwnerRemains
  BY <1>3 DEF OwnerRemains, Owners, Accounts, EffectiveRole
<1> QED
  BY <1>2, <1>4 DEF AccountsInit, AccountsInv, OutIsTombstoned, RemovedStaysOut

LEMMA SignUpKeepsAccounts ==
  ASSUME AccountsInv, NEW p \in People, NEW g \in Grants, SignUp(p, g)
  PROVE  AccountsInv'
<1> DEFINE u == [role |-> RoleOfNew(grant[g].role), hub |-> FALSE]
<1>0. AccountsTyped /\ OutIsTombstoned /\ OwnerRemains /\ RemovedStaysOut
  BY DEF AccountsInv
<1>1. /\ user' = [user EXCEPT ![p] = u] /\ left' = left \ {p} /\ UNCHANGED <<gone, ownerCut>>
      /\ grant' = [grant EXCEPT ![g].live = FALSE] /\ grant[g] # Nobody /\ user[p] = Nobody
  BY DEF SignUp
<1>2. u \in Account /\ (Accounts = {} => u.role = "owner")
  BY <1>0, <1>1 DEF AccountsTyped, Account, RoleOfNew, Roles
<1>3. u # Nobody
  BY <1>2, AccountsAssumption DEF Account, Roles
<1> HIDE DEF u
<1>4. DOMAIN grant' = Grants /\ \A h \in Grants : grant'[h] # Nobody => grant'[h].role \in Roles
  <2>1. grant'[g].role = grant[g].role /\ \A h \in Grants \ {g} : grant'[h] = grant[h]
    BY <1>0, <1>1 DEF AccountsTyped
  <2> QED
    BY <1>0, <1>1, <2>1 DEF AccountsTyped
<1>5. AccountsTyped'
  BY <1>0, <1>1, <1>2, <1>4 DEF AccountsTyped
<1>6. OwnerRemains'
  <2>1. Accounts # {} => p \notin Owners
    BY <1>1 DEF Owners, Accounts
  <2> QED
    BY <1>0, <1>1, <1>2, <1>3, <2>1, OwnerKept DEF AccountsTyped
<1>7. RemovedStaysOut'
  BY <1>0, <1>1 DEF RemovedStaysOut, AccountsTyped
<1> QED
  BY <1>0, <1>1, <1>5, <1>6, <1>7 DEF AccountsInv, OutIsTombstoned

LEMMA SetRoleKeepsAccounts ==
  ASSUME AccountsInv, NEW by \in People, NEW p \in People, NEW r \in Roles, SetUserRole(by, p, r)
  PROVE  AccountsInv'
<1> DEFINE u == [user[p] EXCEPT !.role = r]
<1>0. AccountsTyped /\ OutIsTombstoned /\ OwnerRemains /\ RemovedStaysOut
  BY DEF AccountsInv
<1>1. /\ user' = [user EXCEPT ![p] = u] /\ UNCHANGED <<grant, gone, left, ownerCut>>
      /\ user[p] # Nobody /\ Accounts # {}
      /\ (p \in Owners /\ r # "owner") => AnotherOwnerExists(p)
  BY <1>0 DEF SetUserRole, Accounts, AccountsTyped
<1>2. u \in Account /\ u.role = r
  BY <1>0, <1>1 DEF AccountsTyped, Account
<1>3. u # Nobody
  BY <1>2, AccountsAssumption DEF Account, Roles
<1> HIDE DEF u
<1>4. AccountsTyped'
  BY <1>0, <1>1, <1>2 DEF AccountsTyped
<1>5. OwnerRemains'
  BY <1>0, <1>1, <1>2, <1>3, OwnerKept DEF AccountsTyped
<1>6. RemovedStaysOut'
  BY <1>0, <1>1 DEF RemovedStaysOut, AccountsTyped
<1> QED
  BY <1>0, <1>1, <1>4, <1>5, <1>6 DEF AccountsInv, OutIsTombstoned

LEMMA ForgetKeepsAccounts ==
  ASSUME AccountsInv, NEW p \in People,
         \/ \E by \in People : RemoveUser(by, p)
         \/ DeleteUser(p)
  PROVE  AccountsInv'
<1>0. AccountsTyped /\ OutIsTombstoned /\ OwnerRemains /\ RemovedStaysOut
  BY DEF AccountsInv
<1>1. /\ user' = [user EXCEPT ![p] = Nobody] /\ UNCHANGED grant /\ p \in Accounts
      /\ \/ gone' = gone \cup {p} /\ left' = left \cup {p}
         \/ UNCHANGED <<gone, left>>
      /\ ownerCut' \in BOOLEAN /\ (ownerCut => ownerCut')
      /\ p \notin Owners \/ AnotherOwnerExists(p) \/ ownerCut'
  BY <1>0 DEF RemoveUser, DeleteUser, Forget, Tombstones, AccountsTyped
<1>2. AccountsTyped'
  BY <1>0, <1>1 DEF AccountsTyped
<1>3. OwnerRemains'
  BY <1>0, <1>1, OwnerKept DEF AccountsTyped
<1>4. RemovedStaysOut'
  BY <1>0, <1>1 DEF RemovedStaysOut, AccountsTyped
<1> QED
  BY <1>0, <1>1, <1>2, <1>3, <1>4 DEF AccountsInv, OutIsTombstoned

LEMMA ImportKeepsAccounts ==
  ASSUME AccountsInv, NEW p \in People, ImportUser(p)
  PROVE  AccountsInv'
<1>0. AccountsTyped /\ OutIsTombstoned /\ OwnerRemains /\ RemovedStaysOut
  BY DEF AccountsInv
<1>1. /\ user' = [user EXCEPT ![p] = DecideUser(p)] /\ UNCHANGED <<grant, gone, left, ownerCut>>
      /\ DecideUser(p) # user[p] /\ HubRole[p] \in Roles
  BY AccountsAssumption DEF ImportUser, Roles
<1>2. p \notin gone
  BY <1>1 DEF DecideUser
<1>3. /\ DecideUser(p) \in Account
      /\ Accounts = {} \/ p \in Owners => DecideUser(p).role = "owner"
  <2>1. CASE user[p] = Nobody
    <3>1. DecideUser(p) = [role |-> RoleOfNew(HubRole[p]), hub |-> TRUE]
      BY <1>2, <2>1 DEF DecideUser
    <3>2. p \notin Owners
      BY <2>1 DEF Owners, Accounts
    <3> QED
      BY <1>1, <3>1, <3>2 DEF RoleOfNew, Account, Roles
  <2>2. CASE user[p] # Nobody
    <3>1. DecideUser(p) = [role |-> HigherRole(HubRole[p], EffectiveRole(p)), hub |-> TRUE]
      BY <1>1, <1>2, <2>2 DEF DecideUser
    <3>2. EffectiveRole(p) \in Roles /\ (p \in Owners => EffectiveRole(p) = "owner") /\ Accounts # {}
      BY <1>0, <2>2 DEF AccountsTyped, Account, EffectiveRole, Owners, Accounts, Roles
    <3>3. ~(RANK[HubRole[p]] > RANK["owner"])
      BY <1>1 DEF RANK, Roles
    <3> QED
      BY <1>1, <3>1, <3>2, <3>3 DEF HigherRole, Account
  <2> QED
    BY <2>1, <2>2
<1>4. DecideUser(p) # Nobody
  BY <1>3, AccountsAssumption DEF Account, Roles
<1>5. PICK u \in Account : u = DecideUser(p)
  BY <1>3
<1>6. AccountsTyped'
  BY <1>0, <1>1, <1>5 DEF AccountsTyped
<1>7. OwnerRemains'
  BY <1>0, <1>1, <1>3, <1>4, <1>5, OwnerKept DEF AccountsTyped
<1>8. RemovedStaysOut'
  BY <1>0, <1>1, <1>2 DEF RemovedStaysOut, AccountsTyped, OutIsTombstoned
<1> QED
  BY <1>0, <1>1, <1>6, <1>7, <1>8 DEF AccountsInv, OutIsTombstoned

LEMMA GrantsKeepAccounts ==
  ASSUME AccountsInv, UNCHANGED <<user, gone, left, ownerCut>>, DOMAIN grant' = Grants,
         \A g \in Grants : grant'[g] # Nobody => grant'[g].role \in Roles
  PROVE  AccountsInv'
  BY DEF AccountsInv, AccountsTyped, OutIsTombstoned, OwnerRemains, RemovedStaysOut, Owners,
     Accounts, EffectiveRole

LEMMA AccountsStep ==
  ASSUME AccountsInv, [AccountsNext]_accountVars
  PROVE  AccountsInv'
<1>0. DOMAIN grant = Grants /\ \A g \in Grants : grant[g] # Nobody => grant[g].role \in Roles
  BY DEF AccountsInv, AccountsTyped
<1>1. CASE ClaimWrong \/ Wait \/ UNCHANGED accountVars
  BY <1>0, <1>1, GrantsKeepAccounts DEF ClaimWrong, Wait, accountVars
<1>2. ASSUME NEW g \in Grants, ClaimRight(g)
      PROVE  AccountsInv'
  BY <1>0, <1>2, GrantsKeepAccounts DEF ClaimRight, Roles
<1>3. ASSUME NEW g \in Grants, GrantExpires(g)
      PROVE  AccountsInv'
  BY <1>0, <1>3, GrantsKeepAccounts DEF GrantExpires
<1>4. ASSUME NEW by \in People, NEW g \in Grants, NEW r \in Roles, Invite(by, g, r)
      PROVE  AccountsInv'
  BY <1>0, <1>4, GrantsKeepAccounts DEF Invite
<1> QED
  BY <1>1, <1>2, <1>3, <1>4, SignUpKeepsAccounts, SetRoleKeepsAccounts, ForgetKeepsAccounts,
     ImportKeepsAccounts DEF AccountsNext

(* Whatever sign-ups, demotions, removals and imports come together, a        *)
(* deployment with accounts keeps an owner unless its own key took the last   *)
(* one away, and an account that was put out is not imported again            *)
(* (access.ts insertUser, assertNotLastOwner; hubImport.ts decideUser).       *)
THEOREM OwnersRemain == AccountsSpec => []AccountsSafe
<1>1. AccountsInv => AccountsSafe
  BY DEF AccountsInv, AccountsSafe
<1> QED
  BY AccountsInitInv, AccountsStep, <1>1, PTL DEF AccountsSpec

(* The bootstrap secret. Beyond the allowance the lockout runs from the last  *)
(* wrong guess.                                                               *)
ThrottleInv ==
  /\ throttle \in [failures : Nat, lockedUntil : Nat] /\ clock \in Nat /\ lastGuess \in Nat
  /\ guesses \in Nat /\ throttle.failures <= guesses /\ guesses <= MaxGuesses
  /\ throttle.failures > Allowance => throttle.lockedUntil = lastGuess + Lockout(throttle.failures)

LEMMA LockoutType ==
  ASSUME NEW f \in 0 .. MaxGuesses
  PROVE  Lockout(f) \in Nat
<1>1. Allowance \in Nat /\ MaxLockout \in Nat /\ MaxGuesses \in Nat
  BY AccountsAssumption
<1>2. CASE f > Allowance
  <2>1. f - Allowance - 1 \in 0 .. MaxGuesses
    BY <1>1, <1>2
  <2>2. 2^(f - Allowance - 1) \in Nat
    BY <2>1, AccountsAssumption
  <2> QED
    BY <1>1, <1>2, <2>2 DEF Lockout, Min2
<1>3. CASE ~(f > Allowance)
  BY <1>3 DEF Lockout
<1> QED
  BY <1>2, <1>3

LEMMA ThrottleStep ==
  ASSUME ThrottleInv, [AccountsNext]_accountVars
  PROVE  ThrottleInv'
<1>1. CASE ClaimWrong
  <2> DEFINE f == throttle.failures + 1
  <2>1. /\ guesses' = guesses + 1 /\ guesses < MaxGuesses /\ lastGuess' = clock /\ clock' = clock
        /\ throttle' = [failures |-> f, lockedUntil |-> IF f > Allowance THEN clock + Lockout(f) ELSE 0]
    BY <1>1 DEF ClaimWrong, NextThrottleAfterFailure
  <2>2. f \in 0 .. MaxGuesses /\ f <= guesses'
    BY <2>1, AccountsAssumption DEF ThrottleInv
  <2>3. Lockout(f) \in Nat
    BY <2>2, LockoutType
  <2>4. throttle'.failures = f /\ throttle'.lockedUntil = IF f > Allowance THEN clock + Lockout(f) ELSE 0
    BY <2>1
  <2>5. throttle' \in [failures : Nat, lockedUntil : Nat]
    BY <2>1, <2>2, <2>3 DEF ThrottleInv
  <2> HIDE DEF f
  <2> QED
    BY <2>1, <2>2, <2>4, <2>5, AccountsAssumption DEF ThrottleInv
<1>2. ASSUME NEW g \in Grants, ClaimRight(g)
      PROVE  ThrottleInv'
  <2>1. /\ throttle' = [failures |-> 0, lockedUntil |-> 0] /\ UNCHANGED <<clock, lastGuess>>
        /\ guesses' = guesses + 1 /\ guesses < MaxGuesses
    BY <1>2 DEF ClaimRight
  <2>2. throttle' \in [failures : Nat, lockedUntil : Nat] /\ throttle'.failures = 0
    BY <2>1
  <2> QED
    BY <2>1, <2>2, AccountsAssumption DEF ThrottleInv
<1>3. CASE Wait
  BY <1>3 DEF Wait, ThrottleInv
<1>4. CASE UNCHANGED <<throttle, clock, lastGuess, guesses>>
  BY <1>4 DEF ThrottleInv
<1> QED
  BY <1>1, <1>2, <1>3, <1>4 DEF AccountsNext, GrantExpires, Invite, Changed, SignUp, SetUserRole,
     RemoveUser, DeleteUser, ImportUser, accountVars

LEMMA StepSpacesGuesses ==
  ASSUME ThrottleInv, [AccountsNext]_accountVars
  PROVE  GuessesSpaced
<1>1. CASE ClaimWrong
  <2>1. ~(throttle.lockedUntil > clock) /\ throttle.lockedUntil \in Nat /\ clock \in Nat
    BY <1>1 DEF ClaimWrong, Locked, ThrottleInv
  <2> QED
    BY <2>1 DEF ThrottleInv, GuessesSpaced
<1>2. ASSUME NEW g \in Grants, ClaimRight(g)
      PROVE  GuessesSpaced
  <2>1. throttle'.failures = 0 /\ throttle.failures \in Nat
    BY <1>2 DEF ClaimRight, ThrottleInv
  <2> QED
    BY <2>1 DEF GuessesSpaced
<1>3. CASE UNCHANGED throttle
  <2>1. throttle.failures \in Nat /\ throttle'.failures = throttle.failures
    BY <1>3 DEF ThrottleInv
  <2> QED
    BY <2>1 DEF GuessesSpaced
<1> QED
  BY <1>1, <1>2, <1>3 DEF AccountsNext, GrantExpires, Invite, Changed, SignUp, SetUserRole,
     RemoveUser, DeleteUser, ImportUser, Wait, accountVars

LEMMA ThrottleInit ==
  ASSUME AccountsInit
  PROVE  ThrottleInv
<1>1. throttle \in [failures : Nat, lockedUntil : Nat] /\ throttle.failures = 0
  BY DEF AccountsInit
<1> QED
  BY <1>1, AccountsAssumption DEF AccountsInit, ThrottleInv

(* Beyond the allowance, a wrong bootstrap secret is looked at only when the  *)
(* lockout of the one before it is over, for any allowance and cap            *)
(* (bootstrapPolicy.ts nextThrottleAfterFailure).                             *)
THEOREM GuessesStaySpaced == AccountsSpec => [][GuessesSpaced]_accountVars
<1>1. ThrottleInv /\ [AccountsNext]_accountVars => [GuessesSpaced]_accountVars
  BY StepSpacesGuesses
<1> QED
  BY ThrottleInit, ThrottleStep, <1>1, PTL DEF AccountsSpec

-----------------------------------------------------------------------------
(* The installer's node role (InstallNode).                                   *)

NodePhases == {"idle", "stop-hub", "mesh", "binary", "unit", "enable", "restart", "check", "fallback",
               "trap", "put-back"}
NodeRun == [at : NodePhases, mode : {"none", "hub", "convex", "both"}, pin : Agents \cup {NoAgent},
            todo : SUBSET HubUnits, stopped : SUBSET HubUnits, bin : Agents \cup {NoAgent},
            found : SUBSET HubUnits]

NodeTyped ==
  /\ hubBin \in Agents \cup {NoAgent}
  /\ DOMAIN unitRuns = NodeUnits /\ nodeRun \in NodeRun
  /\ nodeRun.at # "idle" => nodeSaid.what # "put-back" /\ nodeRun.mode # "none"
  /\ nodeRun.at = "idle" => nodeRun = NoRun

(* What runs is enabled; a run's target is enabled before it is restarted.    *)
RunsEnabled ==
  /\ \A u \in NodeUnits : unitRuns[u] # NoAgent => u \in atBoot
  /\ nodeRun.at = "restart" => Target \in atBoot

(* A run in Convex mode: the Hub's binary is untouched, and each unit it      *)
(* found is still enabled or remembered as stopped.                           *)
ConvexRun ==
  nodeRun.mode = "convex" =>
    /\ hubBin = nodeRun.bin /\ nodeRun.found \subseteq nodeRun.stopped \cup atBoot
    /\ nodeRun.at = "stop-hub" => atBoot \cap HubUnits \subseteq nodeRun.todo
    /\ nodeRun.at \in {"mesh", "binary", "unit", "enable", "restart", "check"} =>
         atBoot \cap HubUnits = {}

(* A run in Hub mode starts without a Convex unit; the trap has taken it away.*)
NoConvexUnit ==
  (nodeRun.mode = "hub" \/ (nodeRun.at = "put-back" /\ nodeRun.mode # "both"))
    => "erainfra-node" \notin atBoot

NodeInv == NodeTyped /\ RunsEnabled /\ ConvexRun /\ NoConvexUnit /\ HubModeComesBack

LEMMA NodeFields ==
  ASSUME NodeTyped, NEW a \in NodePhases, NEW m \in {"none", "hub", "convex", "both"}
  PROVE  LET r == [nodeRun EXCEPT !.at = a, !.mode = m]
             q == [nodeRun EXCEPT !.at = a]
         IN /\ r \in NodeRun /\ r.at = a /\ r.mode = m /\ r.stopped = nodeRun.stopped
            /\ r.found = nodeRun.found /\ r.bin = nodeRun.bin /\ r.todo = nodeRun.todo
            /\ q \in NodeRun /\ q.at = a /\ q.mode = nodeRun.mode /\ q.stopped = nodeRun.stopped
            /\ q.found = nodeRun.found /\ q.bin = nodeRun.bin /\ q.todo = nodeRun.todo
  BY DEF NodeTyped, NodeRun

LEMMA NoRunFields ==
  /\ NoRun \in NodeRun /\ NoRun.at = "idle" /\ NoRun.mode = "none"
  /\ NoRun.stopped = {} /\ NoRun.found = {} /\ NoRun.todo = {}
<1>1. NoRun \in NodeRun
  BY DEF NoRun, NodeRun, NodePhases
<1> QED
  BY <1>1 DEF NoRun

LEMMA NodeInitInv ==
  ASSUME NodeInit
  PROVE  NodeInv
<1>1. NodeTyped
  BY NoRunFields DEF NodeInit, NodeTyped
<1>2. RunsEnabled
  BY NoRunFields DEF NodeInit, RunsEnabled
<1>3. HubModeComesBack
  BY DEF NodeInit, HubModeComesBack, NoWord
<1> QED
  BY <1>1, <1>2, <1>3, NoRunFields DEF NodeInit, NodeInv, ConvexRun, NoConvexUnit

(* The run ends, for whatever reason, with the units as they are.             *)
LEMMA RunEndsKeeps ==
  ASSUME NodeInv, NEW what, what # "put-back", RunEnds(what), hubBin' = hubBin, atBoot' = atBoot,
         DOMAIN unitRuns' = NodeUnits,
         \A u \in NodeUnits : unitRuns'[u] # NoAgent => u \in atBoot
  PROVE  NodeInv'
<1>1. nodeRun' = NoRun /\ nodeSaid' = [what |-> what, run |-> nodeRun]
  BY DEF RunEnds
<1>2. nodeSaid'.what = what
  BY <1>1
<1>3. NodeTyped'
  BY <1>1, NoRunFields DEF NodeInv, NodeTyped
<1>4. RunsEnabled'
  BY <1>1, NoRunFields DEF RunsEnabled
<1>5. HubModeComesBack'
  BY <1>2 DEF HubModeComesBack
<1> QED
  BY <1>1, <1>3, <1>4, <1>5, NoRunFields DEF NodeInv, ConvexRun, NoConvexUnit

(* The run goes on with the units and the Hub's binary as they are.           *)
LEMMA RunGoesKeeps ==
  ASSUME NodeInv, NEW s \in NodePhases, RunGoes(s), nodeRun.at # "idle",
         s # "idle" /\ s # "restart" /\ s # "stop-hub",
         s = "put-back" /\ nodeRun.mode # "both" => "erainfra-node" \notin atBoot',
         (nodeRun.mode = "convex" /\ s \in {"mesh", "binary", "unit", "enable", "restart", "check"})
           => atBoot' \cap HubUnits = {},
         nodeRun.mode = "convex" => hubBin' = hubBin,
         hubBin' \in Agents \cup {NoAgent},
         atBoot' \subseteq atBoot, atBoot \cap HubUnits \subseteq atBoot', DOMAIN unitRuns' = NodeUnits,
         \A u \in NodeUnits : unitRuns'[u] # NoAgent => u \in atBoot'
  PROVE  NodeInv'
<1>1. nodeRun' = [nodeRun EXCEPT !.at = s] /\ nodeSaid' = nodeSaid
  BY DEF RunGoes
<1>2. NodeTyped /\ ConvexRun /\ NoConvexUnit
  BY DEF NodeInv
<1>3. /\ nodeRun' \in NodeRun /\ nodeRun'.at = s /\ nodeRun'.mode = nodeRun.mode
      /\ nodeRun'.stopped = nodeRun.stopped /\ nodeRun'.found = nodeRun.found
      /\ nodeRun'.bin = nodeRun.bin
  BY <1>1, <1>2, NodeFields
<1>4. nodeSaid.what # "put-back" /\ nodeRun.found \subseteq HubUnits
  BY <1>2 DEF NodeTyped, NodeRun
<1>5. NodeTyped'
  BY <1>1, <1>2, <1>3, <1>4 DEF NodeTyped
<1>6. RunsEnabled'
  BY <1>3 DEF RunsEnabled
<1>7. ConvexRun'
  BY <1>2, <1>3, <1>4 DEF ConvexRun
<1>8. NoConvexUnit'
  BY <1>2, <1>3 DEF NoConvexUnit
<1>9. HubModeComesBack'
  BY <1>1, <1>4 DEF HubModeComesBack
<1> QED
  BY <1>5, <1>6, <1>7, <1>8, <1>9 DEF NodeInv

(* Agents die, come back and stop; what is enabled stays as it is.            *)
LEMMA UnitsMoveKeeps ==
  ASSUME NodeInv, UNCHANGED <<hubBin, atBoot, nodeRun, nodeSaid>>, DOMAIN unitRuns' = NodeUnits,
         \A u \in NodeUnits : unitRuns'[u] # NoAgent => u \in atBoot
  PROVE  NodeInv'
<1>1. Target' = Target
  BY DEF Target
<1> QED
  BY <1>1 DEF NodeInv, NodeTyped, RunsEnabled, ConvexRun, NoConvexUnit, HubModeComesBack

(* A run that begins, or refuses to.                                          *)
LEMMA BeginKeepsNode ==
  ASSUME NodeInv, NEW pin \in Agents, installHub(pin) \/ \E r \in BOOLEAN : installConvex(pin, r)
  PROVE  NodeInv'
<1> DEFINE live == {u \in HubUnits : node_unit_live(u)}
           rh == [NoRun EXCEPT !.at = "mesh", !.mode = "hub", !.pin = pin, !.bin = hubBin]
           rc == [NoRun EXCEPT !.at = "stop-hub", !.mode = "convex", !.pin = pin, !.todo = live,
                               !.bin = hubBin, !.found = live]
<1>0. NodeTyped /\ RunsEnabled
  BY DEF NodeInv
<1>1. UNCHANGED <<hubBin, unitRuns, atBoot>> /\ nodeRun = NoRun
  BY <1>0 DEF installHub, installConvex, nodeBins, nodeUnits, RunAt, NodeTyped
<1>2. CASE nodeRun' = nodeRun /\ nodeSaid' = [what |-> "refused", run |-> NoRun]
  <2>1. nodeSaid'.what = "refused"
    BY <1>2
  <2>2. Target' = Target
    BY <1>2 DEF Target
  <2> QED
    BY <1>1, <1>2, <2>1, <2>2, NoRunFields
    DEF NodeInv, NodeTyped, RunsEnabled, ConvexRun, NoConvexUnit, HubModeComesBack
<1>3. CASE nodeRun' = rh /\ nodeSaid' = NoWord /\ ~node_unit_live("erainfra-node")
  <2>1. rh \in NodeRun /\ rh.at = "mesh" /\ rh.mode = "hub"
    BY <1>0, NoRunFields DEF NodeRun, NodePhases, NodeTyped
  <2>2. nodeSaid'.what = "none" /\ "erainfra-node" \notin atBoot
    BY <1>3 DEF NoWord, node_unit_live
  <2> HIDE DEF rh
  <2>3. NodeTyped' /\ RunsEnabled' /\ ConvexRun' /\ NoConvexUnit' /\ HubModeComesBack'
    BY <1>0, <1>1, <1>3, <2>1, <2>2
    DEF NodeTyped, RunsEnabled, ConvexRun, NoConvexUnit, HubModeComesBack
  <2> QED
    BY <2>3 DEF NodeInv
<1>4. CASE nodeRun' = rc /\ nodeSaid' = NoWord
  <2>1. live \in SUBSET HubUnits /\ atBoot \cap HubUnits = live
    BY <1>0 DEF RunsEnabled, node_unit_live, NodeUnits
  <2> HIDE DEF live
  <2>2. /\ rc \in NodeRun /\ rc.at = "stop-hub" /\ rc.mode = "convex" /\ rc.todo = live
        /\ rc.found = live /\ rc.bin = hubBin
    BY <1>0, <2>1, NoRunFields DEF NodeRun, NodePhases, NodeTyped
  <2>3. nodeSaid'.what = "none"
    BY <1>4 DEF NoWord
  <2> HIDE DEF rc
  <2>4. NodeTyped' /\ RunsEnabled' /\ NoConvexUnit' /\ HubModeComesBack'
    BY <1>0, <1>1, <1>4, <2>2, <2>3 DEF NodeTyped, RunsEnabled, NoConvexUnit, HubModeComesBack
  <2>5. ConvexRun'
    BY <1>1, <1>4, <2>1, <2>2 DEF ConvexRun
  <2> QED
    BY <2>4, <2>5 DEF NodeInv
<1> QED
  BY <1>2, <1>3, <1>4 DEF installHub, installConvex

LEMMA StopHubKeepsNode ==
  ASSUME NodeInv, NEW u \in HubUnits, stopHub(u)
  PROVE  NodeInv'
<1>0. NodeTyped /\ RunsEnabled /\ ConvexRun /\ NoConvexUnit
  BY DEF NodeInv
<1>1. /\ UNCHANGED <<hubBin, nodeSaid>> /\ nodeRun.at = "stop-hub" /\ atBoot' = atBoot \ {u}
      /\ unitRuns' = Halted({u})
      /\ nodeRun' = [nodeRun EXCEPT !.todo = nodeRun.todo \ {u}, !.stopped = nodeRun.stopped \cup {u}]
  BY DEF stopHub, nodeBins, RunAt, StoppedToo
<1>2. /\ nodeRun' \in NodeRun /\ nodeRun'.at = "stop-hub" /\ nodeRun'.mode = nodeRun.mode
      /\ nodeRun'.todo = nodeRun.todo \ {u} /\ nodeRun'.stopped = nodeRun.stopped \cup {u}
      /\ nodeRun'.found = nodeRun.found /\ nodeRun'.bin = nodeRun.bin
  BY <1>0, <1>1 DEF NodeTyped, NodeRun
<1>3. DOMAIN unitRuns' = NodeUnits /\ \A v \in NodeUnits : unitRuns'[v] # NoAgent => v \in atBoot'
  BY <1>0, <1>1 DEF Halted, RunsEnabled, NodeUnits
<1>4. NodeTyped'
  BY <1>0, <1>1, <1>2, <1>3 DEF NodeTyped
<1>5. RunsEnabled' /\ NoConvexUnit'
  BY <1>0, <1>1, <1>2, <1>3 DEF RunsEnabled, NoConvexUnit
<1>6. ConvexRun'
  BY <1>0, <1>1, <1>2 DEF ConvexRun
<1>7. HubModeComesBack'
  BY <1>0, <1>1 DEF HubModeComesBack, NodeTyped
<1> QED
  BY <1>4, <1>5, <1>6, <1>7 DEF NodeInv

LEMMA EnableKeepsNode ==
  ASSUME NodeInv, enableUnit
  PROVE  NodeInv'
<1>0. NodeTyped /\ RunsEnabled /\ ConvexRun /\ NoConvexUnit
  BY DEF NodeInv
<1>1. /\ UNCHANGED <<hubBin, nodeSaid>> /\ nodeRun.at = "enable" /\ atBoot' = atBoot \cup {Target}
      /\ unitRuns' = Launched({Target}) \/ unitRuns' = unitRuns
      /\ nodeRun' = [nodeRun EXCEPT !.at = "restart"]
  BY DEF enableUnit, nodeBins, RunAt, RunGoes
<1>2. /\ nodeRun' \in NodeRun /\ nodeRun'.at = "restart" /\ nodeRun'.mode = nodeRun.mode
      /\ nodeRun'.stopped = nodeRun.stopped
      /\ nodeRun'.found = nodeRun.found /\ nodeRun'.bin = nodeRun.bin
  BY <1>0, <1>1, NodeFields DEF NodePhases
<1>3. DOMAIN unitRuns' = NodeUnits /\ \A v \in NodeUnits : unitRuns'[v] # NoAgent => v \in atBoot'
  BY <1>0, <1>1 DEF Launched, RunsEnabled, NodeTyped
<1>4. NodeTyped'
  BY <1>0, <1>1, <1>2, <1>3 DEF NodeTyped
<1>5. Target' = Target
  BY <1>2 DEF Target
<1>6. RunsEnabled'
  BY <1>1, <1>3, <1>5 DEF RunsEnabled
<1>7. NoConvexUnit'
  BY <1>0, <1>1, <1>2 DEF NoConvexUnit, Target
<1>8. ConvexRun'
  BY <1>0, <1>1, <1>2 DEF ConvexRun, Target, HubUnits
<1>9. HubModeComesBack'
  BY <1>0, <1>1 DEF HubModeComesBack, NodeTyped
<1> QED
  BY <1>4, <1>6, <1>7, <1>8, <1>9 DEF NodeInv

(* The steps between, that change no unit or only start an enabled one.       *)
LEMMA MiddleKeepsNode ==
  ASSUME NodeInv, hubStopped \/ node_mesh_install \/ placeBinary \/ writeUnit \/ restartUnit
  PROVE  NodeInv'
<1>0. NodeTyped /\ RunsEnabled /\ ConvexRun
  BY DEF NodeInv
<1>1. atBoot' = atBoot /\ nodeRun.at \in {"stop-hub", "mesh", "binary", "unit", "restart"}
  BY DEF hubStopped, node_mesh_install, placeBinary, writeUnit, restartUnit, nodeUnits, RunAt
<1>2. /\ DOMAIN unitRuns' = NodeUnits
      /\ \A u \in NodeUnits : unitRuns'[u] # NoAgent => u \in atBoot
  <2>1. CASE unitRuns' = unitRuns
    BY <1>0, <2>1 DEF RunsEnabled, NodeTyped
  <2>2. CASE restartUnit
    BY <1>0, <2>2 DEF restartUnit, RunsEnabled, Launched, RunAt
  <2> QED
    BY <2>1, <2>2 DEF hubStopped, node_mesh_install, placeBinary, writeUnit, nodeUnits
<1>3. /\ nodeRun.mode = "convex" => hubBin' = hubBin
      /\ hubBin' \in Agents \cup {NoAgent}
  BY <1>0 DEF hubStopped, node_mesh_install, placeBinary, BinaryPlaced, writeUnit, restartUnit, nodeBins,
     NodeTyped, NodeRun
<1>4. nodeRun.mode = "convex" => \/ atBoot \cap HubUnits = {}
                                 \/ nodeRun.at = "stop-hub" /\ nodeRun.todo # {}
  BY <1>0, <1>1 DEF ConvexRun
<1>5. \E s \in {"mesh", "binary", "unit", "enable", "check"} :
        RunGoes(s) /\ (nodeRun.at = "stop-hub" => nodeRun.todo = {})
  BY DEF hubStopped, node_mesh_install, placeBinary, writeUnit, restartUnit, RunAt
<1> QED
  BY <1>1, <1>2, <1>3, <1>4, <1>5, RunGoesKeeps DEF NodePhases

LEMMA FailKeepsNode ==
  ASSUME NodeInv, node_fail
  PROVE  NodeInv'
<1>0. NodeTyped /\ RunsEnabled
  BY DEF NodeInv
<1>1. UNCHANGED <<hubBin, atBoot, unitRuns>> /\ nodeRun.at # "idle"
  BY DEF node_fail, nodeBins, nodeUnits, Failing, RunAt
<1>2. RunGoes("fallback") \/ RunEnds("failed") \/ RunGoes("trap")
  BY DEF node_fail
<1>3. CASE RunEnds("failed")
  BY <1>0, <1>1, <1>3, RunEndsKeeps DEF NodeTyped, RunsEnabled
<1>4. CASE RunGoes("fallback") \/ RunGoes("trap")
  BY <1>0, <1>1, <1>4, RunGoesKeeps DEF NodeTyped, RunsEnabled, NodePhases
<1> QED
  BY <1>2, <1>3, <1>4

LEMMA EndKeepsNode ==
  ASSUME NodeInv, checkUnit \/ startNohup \/ killInstaller
  PROVE  NodeInv'
<1>1. UNCHANGED <<hubBin, atBoot, unitRuns>>
      /\ (RunEnds("running") \/ RunEnds("nohup") \/ RunEnds("killed"))
  BY DEF checkUnit, startNohup, killInstaller, nodeBins, nodeUnits
<1> QED
  BY <1>1, RunEndsKeeps DEF NodeInv, NodeTyped, RunsEnabled

LEMMA TrapKeepsNode ==
  ASSUME NodeInv, node_on_exit
  PROVE  NodeInv'
<1>0. NodeTyped /\ RunsEnabled /\ ConvexRun /\ NoConvexUnit
  BY DEF NodeInv
<1>1. hubBin' = hubBin /\ nodeRun.at = "trap"
  BY DEF node_on_exit, nodeBins, RunAt
<1>2. CASE /\ RunGoes("put-back") /\ atBoot' = atBoot \ {"erainfra-node"}
           /\ unitRuns' = Halted({"erainfra-node"})
  <2>1. DOMAIN unitRuns' = NodeUnits /\ \A u \in NodeUnits : unitRuns'[u] # NoAgent => u \in atBoot'
    BY <1>0, <1>2 DEF Halted, RunsEnabled
  <2>2. "erainfra-node" \notin HubUnits
    BY DEF HubUnits
  <2> QED
    BY <1>0, <1>1, <1>2, <2>1, <2>2, RunGoesKeeps DEF NodePhases, NodeTyped
<1>3. CASE /\ nodeRun' = [nodeRun EXCEPT !.at = "put-back", !.mode = "both"]
           /\ UNCHANGED <<atBoot, unitRuns, nodeSaid>>
  <2>1. nodeRun' \in NodeRun /\ nodeRun'.at = "put-back" /\ nodeRun'.mode = "both"
    BY <1>0, <1>3, NodeFields DEF NodePhases
  <2>2. NodeTyped' /\ RunsEnabled' /\ ConvexRun' /\ NoConvexUnit'
    BY <1>0, <1>1, <1>3, <2>1 DEF NodeTyped, RunsEnabled, ConvexRun, NoConvexUnit
  <2> QED
    BY <1>0, <1>1, <1>3, <2>2 DEF NodeInv, HubModeComesBack, NodeTyped
<1> QED
  BY <1>2, <1>3 DEF node_on_exit, TrapStops

LEMMA PutBackKeepsNode ==
  ASSUME NodeInv, putBack
  PROVE  NodeInv'
<1>0. NodeTyped /\ RunsEnabled /\ ConvexRun
  BY DEF NodeInv
<1>1. hubBin' = hubBin /\ nodeRun.at = "put-back"
  BY DEF putBack, nodeBins, RunAt
<1>2. CASE RunEnds("start-it-by-hand") /\ UNCHANGED <<atBoot, unitRuns>>
  BY <1>0, <1>1, <1>2, RunEndsKeeps DEF NodeTyped, RunsEnabled
<1>3. CASE /\ RunEnds("put-back") /\ atBoot' = atBoot \cup nodeRun.stopped
           /\ unitRuns' = Launched(nodeRun.stopped)
  <2>1. nodeRun' = NoRun /\ nodeSaid' = [what |-> "put-back", run |-> nodeRun]
    BY <1>3 DEF RunEnds
  <2>2. nodeSaid'.run = nodeRun
    BY <2>1
  <2>3. HubModeComesBack'
    BY <1>0, <1>1, <1>3, <2>2 DEF HubModeComesBack, ConvexRun
  <2>4. DOMAIN unitRuns' = NodeUnits /\ \A u \in NodeUnits : unitRuns'[u] # NoAgent => u \in atBoot'
    BY <1>0, <1>3 DEF Launched, RunsEnabled
  <2>5. NodeTyped' /\ RunsEnabled' /\ ConvexRun' /\ NoConvexUnit'
    BY <1>0, <1>1, <2>1, <2>4, NoRunFields DEF NodeTyped, RunsEnabled, ConvexRun, NoConvexUnit
  <2> QED
    BY <2>3, <2>5 DEF NodeInv
<1> QED
  BY <1>2, <1>3 DEF putBack

LEMMA HostKeepsNode ==
  ASSUME NodeInv,
         \/ \E u \in NodeUnits : agentDies(u) \/ agentRespawns(u) \/ disableByHand(u) \/ stopByHand(u)
         \/ nodeReboots
  PROVE  NodeInv'
<1>0. NodeTyped /\ RunsEnabled
  BY DEF NodeInv
<1>1. ASSUME NEW u \in NodeUnits, agentDies(u) \/ agentRespawns(u) \/ stopByHand(u)
      PROVE  NodeInv'
  <2>1. UNCHANGED <<hubBin, atBoot, nodeRun, nodeSaid>>
    BY <1>1 DEF agentDies, agentRespawns, stopByHand, nodeBins
  <2>2. DOMAIN unitRuns' = NodeUnits /\ \A v \in NodeUnits : unitRuns'[v] # NoAgent => v \in atBoot
    BY <1>0, <1>1 DEF agentDies, agentRespawns, stopByHand, Halted, Launched, RunsEnabled
  <2> QED
    BY <2>1, <2>2, UnitsMoveKeeps
<1>2. ASSUME NEW u \in NodeUnits, disableByHand(u)
      PROVE  NodeInv'
  <2>1. /\ UNCHANGED <<hubBin, nodeRun>> /\ nodeRun = NoRun /\ nodeSaid' = NoWord
        /\ atBoot' = atBoot \ {u} /\ unitRuns' = Halted({u})
    BY <1>0, <1>2 DEF disableByHand, nodeBins, RunAt, NodeTyped
  <2>2. DOMAIN unitRuns' = NodeUnits /\ \A v \in NodeUnits : unitRuns'[v] # NoAgent => v \in atBoot'
    BY <1>0, <2>1 DEF Halted, RunsEnabled
  <2>3. nodeSaid'.what = "none"
    BY <2>1 DEF NoWord
  <2> QED
    BY <1>0, <2>1, <2>2, <2>3, NoRunFields
    DEF NodeInv, NodeTyped, RunsEnabled, ConvexRun, NoConvexUnit, HubModeComesBack
<1>3. CASE nodeReboots
  <2>1. UNCHANGED <<hubBin, atBoot>>
    BY <1>3 DEF nodeReboots, nodeBins
  <2>2. DOMAIN unitRuns' = NodeUnits /\ \A v \in NodeUnits : unitRuns'[v] # NoAgent => v \in atBoot
    BY <1>3 DEF nodeReboots
  <2>3. UNCHANGED <<nodeRun, nodeSaid>> \/ RunEnds("killed")
    BY <1>3 DEF nodeReboots
  <2> QED
    BY <2>1, <2>2, <2>3, UnitsMoveKeeps, RunEndsKeeps
<1> QED
  BY <1>1, <1>2, <1>3

LEMMA NodeStep ==
  ASSUME NodeInv, [NodeInstallNext]_nodeVars
  PROVE  NodeInv'
<1>1. CASE UNCHANGED nodeVars
  BY <1>1, UnitsMoveKeeps DEF nodeVars, NodeInv, NodeTyped, RunsEnabled
<1> QED
  BY <1>1, BeginKeepsNode, StopHubKeepsNode, EnableKeepsNode, MiddleKeepsNode, FailKeepsNode, EndKeepsNode,
     TrapKeepsNode, PutBackKeepsNode, HostKeepsNode DEF NodeInstallNext, NodeInstallStep

(* What starts at boot grows only when a unit is enabled and when the trap    *)
(* puts the stopped ones back.                                                *)
LEMMA StepKeepsOneMode ==
  ASSUME NodeInv, NodeInv', [NodeInstallNext]_nodeVars
  PROVE  OneMode
<1>0. NodeTyped /\ RunsEnabled /\ ConvexRun /\ NoConvexUnit /\ RunsEnabled'
  BY DEF NodeInv
<1>1. BothModes <=> ("erainfra-node" \in atBoot /\ atBoot \cap HubUnits # {})
  BY <1>0 DEF BothModes, node_unit_live, RunsEnabled, NodeUnits
<1>2. BothModes' <=> ("erainfra-node" \in atBoot' /\ atBoot' \cap HubUnits # {})
  BY <1>0 DEF BothModes, node_unit_live, RunsEnabled, NodeUnits
<1>3. CASE atBoot' \subseteq atBoot
  BY <1>1, <1>2, <1>3 DEF OneMode
<1>4. CASE enableUnit
  <2>1. nodeRun.at = "enable" /\ atBoot' = atBoot \cup {Target}
    BY <1>4 DEF enableUnit, RunAt
  <2>2. nodeRun.mode \in {"hub", "convex", "both"}
    BY <1>0, <2>1 DEF NodeTyped, NodeRun
  <2>3. CASE nodeRun.mode = "hub"
    BY <1>0, <1>2, <2>1, <2>3 DEF NoConvexUnit, Target, OneMode
  <2>4. CASE nodeRun.mode = "convex"
    BY <1>0, <1>2, <2>1, <2>4 DEF ConvexRun, Target, HubUnits, OneMode
  <2> QED
    BY <2>2, <2>3, <2>4 DEF OneMode
<1>5. CASE putBack
  <2>1. nodeRun.at = "put-back" /\ atBoot' \subseteq atBoot \cup nodeRun.stopped
    BY <1>5 DEF putBack, RunAt
  <2>2. nodeRun.stopped \subseteq HubUnits /\ "erainfra-node" \notin HubUnits
    BY <1>0 DEF NodeTyped, NodeRun, HubUnits
  <2> QED
    BY <1>0, <1>2, <2>1, <2>2 DEF NoConvexUnit, OneMode
<1> QED
  BY <1>3, <1>4, <1>5 DEF NodeInstallNext, NodeInstallStep, installHub, installConvex, nodeUnits, stopHub,
     hubStopped, node_mesh_install, placeBinary, writeUnit, restartUnit, checkUnit, node_fail, startNohup,
     node_on_exit, TrapStops, killInstaller, agentDies, agentRespawns, disableByHand, stopByHand,
     nodeReboots, nodeVars

(* A failed --replace-hub-agent puts back every Hub-mode unit it found, with  *)
(* the bytes it ran before, for any builds and any number of faults           *)
(* (installScript.ts node_on_exit).                                           *)
THEOREM HubModeReturns == NodeInstallSpec => []HubModeComesBack
<1>1. NodeInv => HubModeComesBack
  BY DEF NodeInv
<1> QED
  BY NodeInitInv, NodeStep, <1>1, PTL DEF NodeInstallSpec

(* No step makes a host live in both Node modes, but for the trap that could  *)
(* not stop the Convex unit and says so (installScript.ts node_install).      *)
THEOREM ModesStayApart == NodeInstallSpec => [][OneMode]_nodeVars
<1>1. NodeInv /\ NodeInv' /\ [NodeInstallNext]_nodeVars => [OneMode]_nodeVars
  BY StepKeepsOneMode
<1> QED
  BY NodeInitInv, NodeStep, <1>1, PTL DEF NodeInstallSpec

-----------------------------------------------------------------------------
(* The installer's controller role (InstallController).                       *)

CtlPhases == {"idle", "swap", "unit", "reload", "restart", "undo-binary", "undo-unit", "undo-reload",
              "undo-restart", "profile-binary", "profile-unit", "profile-env", "profile-fill",
              "profile-start", "profile-check"}
Builds == CtlBuilds \cup {NoCtlBuild}
CtlStep == [at : CtlPhases, pin : Builds, old : Builds, oldUnit : Builds, profile : CtlProfiles \cup {"none"},
            active : SUBSET CtlProfiles, todo : SUBSET CtlProfiles, restored : BOOLEAN, clean : BOOLEAN]

CtlTyped ==
  /\ ctlStep \in CtlStep /\ ctlBinary \in Builds /\ ctlUnitFile \in Builds
  /\ ctlRuns \in [CtlProfiles -> Builds]
  /\ ctlOutcome.step \in CtlStep
  /\ ctlStep.at # "idle" => ctlOutcome = NoCtlOutcome

(* How far an update has come, or its rollback, and what each instance it     *)
(* has restarted runs.                                                        *)
UpdateOnCourse ==
  LET s == ctlStep IN
  /\ s.old # NoCtlBuild => s.old \in ctlBackup
  /\ s.clean => s.restored
  /\ s.at \in {"unit", "reload", "restart"} => ctlBinary = s.pin
  /\ s.at \in {"reload", "restart"} => ctlUnitFile = s.pin
  /\ s.at = "restart" => \A p \in s.active \ s.todo : ctlRuns[p] \in {s.pin, NoCtlBuild}
  /\ s.at \in {"undo-unit", "undo-reload", "undo-restart"} /\ s.restored => ctlBinary = s.old
  /\ s.at \in {"undo-reload", "undo-restart"} /\ s.restored => ctlUnitFile = s.oldUnit
  /\ s.at = "undo-restart" /\ s.clean => \A p \in s.active \ s.todo : ctlRuns[p] \in {s.old, NoCtlBuild}

CtlInv == CtlTyped /\ UpdateOnCourse /\ UpdateOutcomeTrue

LEMMA NoCtlStepFields ==
  /\ NoCtlStep \in CtlStep /\ NoCtlStep.at = "idle" /\ NoCtlStep.old = NoCtlBuild
  /\ NoCtlStep.restored = TRUE /\ NoCtlStep.clean = TRUE
  /\ NoCtlOutcome.said = "none" /\ NoCtlOutcome.step = NoCtlStep
<1>1. NoCtlStep \in CtlStep
  BY DEF NoCtlStep, CtlStep, CtlPhases, Builds
<1>2. NoCtlStep.at = "idle" /\ NoCtlStep.old = NoCtlBuild
  BY DEF NoCtlStep
<1>3. NoCtlStep.restored = TRUE /\ NoCtlStep.clean = TRUE
  BY DEF NoCtlStep
<1>4. NoCtlOutcome.said = "none" /\ NoCtlOutcome.step = NoCtlStep
  BY DEF NoCtlOutcome
<1> QED
  BY <1>1, <1>2, <1>3, <1>4

LEMMA NothingSaid ==
  ASSUME NoCtlOutcome' = NoCtlOutcome, ctlOutcome' = NoCtlOutcome
  PROVE  UpdateOutcomeTrue'
  BY NoCtlStepFields DEF UpdateOutcomeTrue

LEMMA CtlInitInv ==
  ASSUME CtlInit
  PROVE  CtlInv
<1>1. CtlTyped
  BY NoCtlStepFields DEF CtlInit, CtlTyped, Builds
<1>2. UpdateOnCourse
  BY NoCtlStepFields DEF CtlInit, UpdateOnCourse
<1>3. UpdateOutcomeTrue
  BY NoCtlStepFields DEF CtlInit, UpdateOutcomeTrue
<1> QED
  BY <1>1, <1>2, <1>3 DEF CtlInv

(* The script goes on to another phase and changes nothing else of its record.*)
LEMMA CtlGoesFields ==
  ASSUME CtlTyped, NEW a \in CtlPhases, CtlGoes(a)
  PROVE  /\ ctlStep' \in CtlStep /\ ctlStep'.at = a /\ ctlStep'.pin = ctlStep.pin
         /\ ctlStep'.old = ctlStep.old /\ ctlStep'.oldUnit = ctlStep.oldUnit
         /\ ctlStep'.active = ctlStep.active /\ ctlStep'.todo = ctlStep.todo
         /\ ctlStep'.restored = ctlStep.restored /\ ctlStep'.clean = ctlStep.clean
         /\ ctlOutcome' = ctlOutcome
  BY DEF CtlGoes, CtlTyped, CtlStep

(* The script ends, with the host as it is.                                   *)
LEMMA CtlEndsKeeps ==
  ASSUME CtlInv, NEW said, CtlEnds(said), UNCHANGED <<ctlBinary, ctlUnitFile, ctlBackup, ctlRuns>>,
         said = "updated" =>
           /\ ctlBinary = ctlStep.pin /\ ctlUnitFile = ctlStep.pin
           /\ \A p \in ctlStep.active : ctlRuns[p] \in {ctlStep.pin, NoCtlBuild},
         said = "rolled-back" =>
           /\ ctlBinary = ctlStep.old /\ ctlUnitFile = ctlStep.oldUnit
           /\ \A p \in ctlStep.active : ctlRuns[p] \in {ctlStep.old, NoCtlBuild}
  PROVE  CtlInv'
<1>1. ctlStep' = NoCtlStep /\ ctlOutcome' = [said |-> said, step |-> ctlStep]
  BY DEF CtlEnds
<1>2. ctlOutcome'.said = said /\ ctlOutcome'.step = ctlStep
  BY <1>1
<1>3. CtlTyped'
  BY <1>1, <1>2, NoCtlStepFields DEF CtlInv, CtlTyped
<1>4. UpdateOnCourse'
  BY <1>1, NoCtlStepFields DEF UpdateOnCourse
<1>5. UpdateOutcomeTrue'
  BY <1>2 DEF CtlInv, UpdateOnCourse, UpdateOutcomeTrue
<1> QED
  BY <1>3, <1>4, <1>5 DEF CtlInv

(* The script goes on: what it says of the last run is still nothing.         *)
LEMMA CtlMovesKeeps ==
  ASSUME CtlInv, CtlTyped', ctlStep.at # "idle", ctlOutcome' = ctlOutcome, UpdateOnCourse'
  PROVE  CtlInv'
  BY NothingSaid DEF CtlInv, CtlTyped

LEMMA BeginKeepsCtl ==
  ASSUME CtlInv, NEW pin \in CtlBuilds,
         ctl_update(pin) \/ \E p \in CtlProfiles : ctl_profile(p, pin)
  PROVE  CtlInv'
<1>0. CtlTyped /\ UpdateOnCourse
  BY DEF CtlInv
<1>1. UNCHANGED <<ctlBinary, ctlUnitFile, ctlRuns>> /\ ctlStep.at = "idle"
  BY DEF ctl_update, ctl_profile, ctlFiles, ctlUnits, CtlAt
<1>2. ActiveInstances \in SUBSET CtlProfiles
  BY DEF ActiveInstances
<1>3. ASSUME NEW p \in CtlProfiles, ctl_profile(p, pin)
      PROVE  CtlInv'
  <2> DEFINE s == [NoCtlStep EXCEPT !.at = "profile-binary", !.pin = pin, !.profile = p]
  <2>1. ctlStep' = s /\ ctlOutcome' = NoCtlOutcome /\ ctlBackup' = ctlBackup
    BY <1>3 DEF ctl_profile, ctlFiles
  <2>2. s \in CtlStep /\ s.at = "profile-binary" /\ s.old = NoCtlBuild /\ s.clean = TRUE /\ s.restored = TRUE
    <3>1. NoCtlStep \in CtlStep /\ NoCtlStep.old = NoCtlBuild /\ NoCtlStep.clean = TRUE /\ NoCtlStep.restored = TRUE
      BY NoCtlStepFields
    <3>2. "profile-binary" \in CtlPhases /\ pin \in Builds
      BY DEF CtlPhases, Builds
    <3>3. s \in CtlStep
      BY <3>1, <3>2 DEF CtlStep
    <3> QED
      BY <3>1, <3>3 DEF CtlStep
  <2> HIDE DEF s
  <2>3. CtlTyped' /\ UpdateOnCourse'
    BY <1>0, <1>1, <2>1, <2>2, NoCtlStepFields DEF CtlTyped, UpdateOnCourse
  <2> QED
    BY <2>1, <2>3, NothingSaid DEF CtlInv
<1>4. CASE ctl_update(pin) /\ ctlBinary # pin
  <2> DEFINE s == [NoCtlStep EXCEPT !.at = "swap", !.pin = pin, !.old = ctlBinary, !.oldUnit = ctlUnitFile,
                                    !.active = ActiveInstances]
  <2>1. ctlStep' = s /\ ctlOutcome' = NoCtlOutcome /\ ctlBackup' = ctlBackup \cup {ctlBinary}
    BY <1>4 DEF ctl_update, WithBackup
  <2>0. ctlBinary \in Builds /\ ctlUnitFile \in Builds
    BY <1>0 DEF CtlTyped
  <2>2. s \in CtlStep
    <3>1. NoCtlStep \in CtlStep
      BY NoCtlStepFields
    <3>2. "swap" \in CtlPhases /\ pin \in Builds
      BY DEF CtlPhases, Builds
    <3> QED
      BY <1>2, <2>0, <3>1, <3>2 DEF CtlStep
  <2>3. s.at = "swap" /\ s.old = ctlBinary /\ s.clean = TRUE /\ s.restored = TRUE
    BY NoCtlStepFields DEF CtlStep
  <2> HIDE DEF s
  <2>4. CtlTyped' /\ UpdateOnCourse'
    BY <1>0, <1>1, <2>1, <2>2, <2>3, NoCtlStepFields DEF CtlTyped, UpdateOnCourse
  <2> QED
    BY <2>1, <2>4, NothingSaid DEF CtlInv
<1>5. CASE ctl_update(pin) /\ ctlBinary = pin
  <2> DEFINE s == [NoCtlStep EXCEPT !.pin = pin]
  <2>1. /\ ctlOutcome' = [said |-> "nothing-changed", step |-> s] /\ UNCHANGED <<ctlStep, ctlBackup>>
    BY <1>5 DEF ctl_update
  <2>2. s \in CtlStep /\ s.old = NoCtlBuild
    BY NoCtlStepFields DEF CtlStep, Builds
  <2>3. ctlOutcome'.said = "nothing-changed" /\ ctlOutcome'.step = s
    BY <2>1
  <2> HIDE DEF s
  <2>4. CtlTyped' /\ UpdateOnCourse'
    BY <1>0, <1>1, <2>1, <2>2, <2>3 DEF CtlTyped, UpdateOnCourse
  <2>5. UpdateOutcomeTrue'
    BY <2>2, <2>3 DEF UpdateOutcomeTrue
  <2> QED
    BY <2>4, <2>5 DEF CtlInv
<1> QED
  BY <1>3, <1>4, <1>5

(* systemd: a process comes up from the binary that is there.                 *)
LEMMA HostKeepsCtl ==
  ASSUME CtlInv, NEW p \in CtlProfiles, respawnInstance(p) \/ instanceDies(p) \/ stopInstance(p)
  PROVE  CtlInv'
<1>0. CtlTyped /\ UpdateOnCourse /\ UpdateOutcomeTrue
  BY DEF CtlInv
<1>1. UNCHANGED <<ctlBinary, ctlUnitFile, ctlBackup, ctlStep, ctlOutcome>>
  BY DEF respawnInstance, instanceDies, stopInstance, ctlFiles
<1>2. /\ ctlRuns' \in [CtlProfiles -> Builds]
      /\ \A q \in CtlProfiles : ctlRuns'[q] \in {ctlRuns[q], ctlBinary, NoCtlBuild}
  BY <1>0 DEF respawnInstance, instanceDies, stopInstance, CtlTyped, Builds
<1>3. CtlTyped'
  BY <1>0, <1>1, <1>2 DEF CtlTyped
<1>4. UpdateOnCourse'
  <2>1. ctlStep.active \subseteq CtlProfiles
    BY <1>0 DEF CtlTyped, CtlStep
  <2>2. ctlStep.at = "restart" =>
          ctlBinary = ctlStep.pin /\ \A q \in ctlStep.active \ ctlStep.todo : ctlRuns'[q] \in {ctlStep.pin, NoCtlBuild}
    BY <1>0, <1>2, <2>1 DEF UpdateOnCourse
  <2>3. ctlStep.at = "undo-restart" /\ ctlStep.clean =>
          \A q \in ctlStep.active \ ctlStep.todo : ctlRuns'[q] \in {ctlStep.old, NoCtlBuild}
    BY <1>0, <1>2, <2>1 DEF UpdateOnCourse
  <2> QED
    BY <1>0, <1>1, <2>2, <2>3 DEF UpdateOnCourse
<1>5. UpdateOutcomeTrue'
  <2>1. ctlOutcome.step.active \subseteq CtlProfiles
    BY <1>0 DEF CtlTyped, CtlStep
  <2> QED
    BY <1>0, <1>1, <1>2, <2>1 DEF UpdateOutcomeTrue
<1> QED
  BY <1>3, <1>4, <1>5 DEF CtlInv

(* ctl_apply_update: the files move first, the instances follow.              *)
LEMMA ApplyKeepsCtl ==
  ASSUME CtlInv, applyFails \/ swapBinary \/ installUnit \/ daemonReload
  PROVE  CtlInv'
<1>0. CtlTyped /\ UpdateOnCourse /\ ctlStep.at # "idle" /\ ctlStep \in CtlStep
  BY DEF CtlInv, CtlTyped, applyFails, swapBinary, installUnit, daemonReload, CtlAt
<1>1. CASE applyFails
  <2>1. CtlGoes("undo-binary") /\ UNCHANGED <<ctlBinary, ctlUnitFile, ctlBackup, ctlRuns>>
    BY <1>1 DEF applyFails, ctlFiles, ctlUnits
  <2>2. CtlTyped' /\ UpdateOnCourse'
    BY <1>0, <2>1, CtlGoesFields DEF CtlPhases, CtlTyped, UpdateOnCourse
  <2> QED
    BY <1>0, <2>1, <2>2, CtlMovesKeeps DEF CtlGoes
<1>2. CASE swapBinary
  <2>1. CtlGoes("unit") /\ ctlBinary' = ctlStep.pin /\ UNCHANGED <<ctlUnitFile, ctlBackup, ctlRuns>>
    BY <1>2 DEF swapBinary, ctlUnits
  <2>2. ctlBinary' \in Builds
    BY <1>0, <2>1 DEF CtlStep
  <2>3. CtlTyped' /\ UpdateOnCourse'
    BY <1>0, <2>1, <2>2, CtlGoesFields DEF CtlPhases, CtlTyped, UpdateOnCourse
  <2> QED
    BY <1>0, <2>1, <2>3, CtlMovesKeeps DEF CtlGoes
<1>3. CASE installUnit
  <2>1. /\ ctlStep.at = "unit" /\ CtlGoes("reload") /\ ctlUnitFile' = ctlStep.pin
        /\ UNCHANGED <<ctlBinary, ctlBackup, ctlRuns>>
    BY <1>3 DEF installUnit, ctlUnits, CtlAt
  <2>2. ctlUnitFile' \in Builds
    BY <1>0, <2>1 DEF CtlStep
  <2>3. CtlTyped' /\ UpdateOnCourse'
    BY <1>0, <2>1, <2>2, CtlGoesFields DEF CtlPhases, CtlTyped, UpdateOnCourse
  <2> QED
    BY <1>0, <2>1, <2>3, CtlMovesKeeps DEF CtlGoes
<1>4. CASE daemonReload
  <2>1. /\ ctlStep.at = "reload" /\ ctlStep' = [ctlStep EXCEPT !.at = "restart", !.todo = ctlStep.active]
        /\ UNCHANGED <<ctlBinary, ctlUnitFile, ctlBackup, ctlRuns, ctlOutcome>>
    BY <1>4 DEF daemonReload, ctlFiles, ctlUnits, CtlAt
  <2>2. /\ ctlStep' \in CtlStep /\ ctlStep'.at = "restart" /\ ctlStep'.pin = ctlStep.pin
        /\ ctlStep'.old = ctlStep.old /\ ctlStep'.active = ctlStep.active /\ ctlStep'.todo = ctlStep.active
        /\ ctlStep'.restored = ctlStep.restored /\ ctlStep'.clean = ctlStep.clean
    BY <1>0, <2>1 DEF CtlStep, CtlPhases
  <2>3. CtlTyped' /\ UpdateOnCourse'
    BY <1>0, <2>1, <2>2 DEF CtlTyped, UpdateOnCourse
  <2> QED
    BY <1>0, <2>1, <2>3, CtlMovesKeeps
<1> QED
  BY <1>1, <1>2, <1>3, <1>4

(* A restarted instance runs the binary that is there, or is down.            *)
LEMMA RestartedRuns ==
  ASSUME CtlTyped, NEW p, CtlRestarted(p)
  PROVE  /\ ctlRuns' \in [CtlProfiles -> Builds]
         /\ \A q \in CtlProfiles : q # p => ctlRuns'[q] = ctlRuns[q]
         /\ p \in CtlProfiles => ctlRuns'[p] \in {ctlBinary, NoCtlBuild}
  BY DEF CtlTyped, CtlRestarted, Builds

(* The restarts: of an update, and of a rollback that put both files back.    *)
LEMMA RestartKeepsCtl ==
  ASSUME CtlInv, NEW p \in CtlProfiles, restartInstance(p) \/ undoRestart(p)
  PROVE  CtlInv'
<1>0. /\ CtlTyped /\ UpdateOnCourse /\ ctlStep.at # "idle" /\ ctlStep \in CtlStep
      /\ ctlStep.active \subseteq CtlProfiles
      /\ UNCHANGED <<ctlBinary, ctlUnitFile, ctlBackup, ctlOutcome>>
  BY DEF CtlInv, CtlTyped, CtlStep, restartInstance, undoRestart, CtlAt, ctlFiles
<1>1. CASE ctlStep' = [ctlStep EXCEPT !.todo = @ \ {p}] /\ CtlRestarted(p)
  <2>1. /\ ctlStep' \in CtlStep /\ ctlStep'.at = ctlStep.at /\ ctlStep'.pin = ctlStep.pin
        /\ ctlStep'.old = ctlStep.old /\ ctlStep'.oldUnit = ctlStep.oldUnit
        /\ ctlStep'.active = ctlStep.active /\ ctlStep'.todo = ctlStep.todo \ {p}
        /\ ctlStep'.restored = ctlStep.restored /\ ctlStep'.clean = ctlStep.clean
    BY <1>0, <1>1 DEF CtlStep
  <2>2. CtlTyped'
    BY <1>0, <1>1, <2>1, RestartedRuns DEF CtlTyped
  <2>3. UpdateOnCourse'
    BY <1>0, <1>1, <2>1, RestartedRuns DEF UpdateOnCourse
  <2> QED
    BY <1>0, <2>2, <2>3, CtlMovesKeeps
<1>2. CASE ctlStep' = [ctlStep EXCEPT !.todo = @ \ {p}, !.clean = FALSE] /\ UNCHANGED ctlUnits
           /\ ctlStep.at = "undo-restart"
  <2>1. /\ ctlStep' \in CtlStep /\ ctlStep'.at = ctlStep.at /\ ctlStep'.old = ctlStep.old
        /\ ctlStep'.oldUnit = ctlStep.oldUnit /\ ctlStep'.restored = ctlStep.restored /\ ctlStep'.clean = FALSE
    BY <1>0, <1>2 DEF CtlStep
  <2>2. ctlRuns' = ctlRuns
    BY <1>2 DEF ctlUnits
  <2>3. CtlTyped' /\ UpdateOnCourse'
    BY <1>0, <1>2, <2>1, <2>2 DEF CtlTyped, UpdateOnCourse
  <2> QED
    BY <1>0, <2>3, CtlMovesKeeps
<1> QED
  BY <1>1, <1>2 DEF restartInstance, undoRestart, CtlAt

(* The two health checks, and the script that ends: what it says is so.       *)
LEMMA EndKeepsCtl ==
  ASSUME CtlInv, healthCheck \/ undoHealthCheck \/ checkProfile \/ killScript
  PROVE  CtlInv'
<1>0. /\ CtlTyped /\ UpdateOnCourse /\ ctlStep.at # "idle" /\ ctlStep \in CtlStep
      /\ UNCHANGED <<ctlBinary, ctlUnitFile, ctlBackup, ctlRuns>>
  BY DEF CtlInv, CtlTyped, healthCheck, undoHealthCheck, checkProfile, killScript, CtlAt, ctlFiles, ctlUnits
<1>1. CASE healthCheck
  <2>1. ctlStep.at = "restart" /\ ctlStep.todo = {}
    BY <1>1 DEF healthCheck, CtlAt
  <2>2. CASE CtlHealthy
    <3>1. CtlEnds("updated")
      BY <1>1, <2>2 DEF healthCheck
    <3> QED
      BY <1>0, <2>1, <3>1, CtlEndsKeeps DEF UpdateOnCourse
  <2>3. CASE ~CtlHealthy
    <3>1. CtlGoes("undo-binary")
      BY <1>1, <2>3 DEF healthCheck
    <3>2. CtlTyped' /\ UpdateOnCourse'
      BY <1>0, <3>1, CtlGoesFields DEF CtlPhases, CtlTyped, UpdateOnCourse
    <3> QED
      BY <1>0, <3>1, <3>2, CtlMovesKeeps DEF CtlGoes
  <2> QED
    BY <2>2, <2>3
<1>2. CASE undoHealthCheck
  <2>1. ctlStep.at = "undo-restart" /\ ctlStep.todo = {}
    BY <1>2 DEF undoHealthCheck, CtlAt
  <2>2. CASE ctlStep.clean /\ CtlHealthy
    <3>1. CtlEnds("rolled-back")
      BY <1>2, <2>2 DEF undoHealthCheck
    <3> QED
      BY <1>0, <2>1, <2>2, <3>1, CtlEndsKeeps DEF UpdateOnCourse
  <2>3. CASE ~(ctlStep.clean /\ CtlHealthy)
    <3>1. CtlEnds("manual-recovery")
      BY <1>2, <2>3 DEF undoHealthCheck
    <3> QED
      BY <1>0, <3>1, CtlEndsKeeps
  <2> QED
    BY <2>2, <2>3
<1>3. CASE checkProfile
  <2>1. CtlEnds("running") \/ CtlEnds("did-not-stay-running")
    BY <1>3 DEF checkProfile
  <2> QED
    BY <1>0, <2>1, CtlEndsKeeps
<1>4. CASE killScript
  <2>1. CtlEnds("killed")
    BY <1>4 DEF killScript
  <2> QED
    BY <1>0, <2>1, CtlEndsKeeps
<1> QED
  BY <1>1, <1>2, <1>3, <1>4

(* The rollback: a file that could not be put back is remembered.             *)
LEMMA UndoKeepsCtl ==
  ASSUME CtlInv, restoreBinary \/ restoreUnit \/ undoReload
  PROVE  CtlInv'
<1>0. /\ CtlTyped /\ UpdateOnCourse /\ ctlStep.at # "idle" /\ ctlStep \in CtlStep
      /\ UNCHANGED <<ctlBackup, ctlRuns, ctlOutcome>>
  BY DEF CtlInv, CtlTyped, restoreBinary, restoreUnit, undoReload, CtlAt, ctlFiles, ctlUnits
<1>1. /\ ctlStep.old \in Builds /\ ctlStep.oldUnit \in Builds /\ ctlStep.restored \in BOOLEAN
      /\ ctlStep.clean \in BOOLEAN /\ ctlStep.active \in SUBSET CtlProfiles
  BY <1>0 DEF CtlStep
<1>2. ASSUME NEW a \in CtlPhases, ctlStep' = [ctlStep EXCEPT !.at = a]
      PROVE  /\ ctlStep' \in CtlStep /\ ctlStep'.at = a /\ ctlStep'.old = ctlStep.old
             /\ ctlStep'.oldUnit = ctlStep.oldUnit
             /\ ctlStep'.restored = ctlStep.restored /\ ctlStep'.clean = ctlStep.clean
  BY <1>0, <1>2 DEF CtlStep
<1>3. ASSUME NEW a \in CtlPhases, ctlStep' = [ctlStep EXCEPT !.at = a, !.restored = FALSE, !.clean = FALSE]
      PROVE  /\ ctlStep' \in CtlStep /\ ctlStep'.at = a /\ ctlStep'.old = ctlStep.old
             /\ ctlStep'.restored = FALSE /\ ctlStep'.clean = FALSE
  BY <1>0, <1>3 DEF CtlStep
<1>4. "undo-unit" \in CtlPhases /\ "undo-reload" \in CtlPhases /\ "undo-restart" \in CtlPhases
  BY DEF CtlPhases
<1>5. CASE restoreBinary
  <2>1. ctlUnitFile' = ctlUnitFile
    BY <1>5 DEF restoreBinary
  <2>2. CASE ctlBinary' = ctlStep.old /\ ctlStep' = [ctlStep EXCEPT !.at = "undo-unit"]
    <3>1. CtlTyped' /\ UpdateOnCourse'
      BY <1>0, <1>1, <1>2, <1>4, <2>1, <2>2 DEF CtlTyped, UpdateOnCourse
    <3> QED
      BY <1>0, <3>1, CtlMovesKeeps
  <2>3. CASE ctlBinary' = ctlBinary /\ ctlStep' = [ctlStep EXCEPT !.at = "undo-unit", !.restored = FALSE, !.clean = FALSE]
    <3>1. /\ ctlStep' \in CtlStep /\ ctlStep'.at = "undo-unit" /\ ctlStep'.old = ctlStep.old
          /\ ctlStep'.restored = FALSE /\ ctlStep'.clean = FALSE
      BY <1>3, <1>4, <2>3
    <3>2. CtlTyped'
      BY <1>0, <2>1, <2>3, <3>1 DEF CtlTyped
    <3>3. UpdateOnCourse'
      BY <1>0, <2>1, <3>1 DEF UpdateOnCourse
    <3> QED
      BY <1>0, <3>2, <3>3, CtlMovesKeeps
  <2> QED
    BY <1>5, <2>2, <2>3 DEF restoreBinary, CtlUndone
<1>6. CASE restoreUnit
  <2>1. ctlBinary' = ctlBinary /\ ctlStep.at = "undo-unit"
    BY <1>6 DEF restoreUnit, CtlAt
  <2>2. CASE ctlUnitFile' = ctlStep.oldUnit /\ ctlStep' = [ctlStep EXCEPT !.at = "undo-reload"]
    <3>1. CtlTyped' /\ UpdateOnCourse'
      BY <1>0, <1>1, <1>2, <1>4, <2>1, <2>2 DEF CtlTyped, UpdateOnCourse
    <3> QED
      BY <1>0, <3>1, CtlMovesKeeps
  <2>3. CASE ctlUnitFile' = ctlUnitFile /\ ctlStep' = [ctlStep EXCEPT !.at = "undo-reload", !.restored = FALSE, !.clean = FALSE]
    <3>1. /\ ctlStep' \in CtlStep /\ ctlStep'.at = "undo-reload" /\ ctlStep'.old = ctlStep.old
          /\ ctlStep'.restored = FALSE /\ ctlStep'.clean = FALSE
      BY <1>3, <1>4, <2>3
    <3>2. CtlTyped'
      BY <1>0, <2>1, <2>3, <3>1 DEF CtlTyped
    <3>3. UpdateOnCourse'
      BY <1>0, <2>1, <3>1 DEF UpdateOnCourse
    <3> QED
      BY <1>0, <3>2, <3>3, CtlMovesKeeps
  <2> QED
    BY <1>6, <2>2, <2>3 DEF restoreUnit, CtlUndone
<1>7. CASE undoReload
  <2>1. ctlStep.at = "undo-reload" /\ UNCHANGED <<ctlBinary, ctlUnitFile>>
    BY <1>7 DEF undoReload, ctlFiles, CtlAt
  <2>2. PICK clean \in {ctlStep.clean, FALSE} :
          ctlStep' = [ctlStep EXCEPT !.at = "undo-restart", !.clean = clean,
                                     !.todo = IF RestartAfter(ctlStep) THEN ctlStep.active ELSE {}]
    BY <1>7 DEF undoReload
  <2>3. /\ ctlStep' \in CtlStep /\ ctlStep'.at = "undo-restart" /\ ctlStep'.old = ctlStep.old
        /\ ctlStep'.oldUnit = ctlStep.oldUnit /\ ctlStep'.restored = ctlStep.restored
        /\ ctlStep'.clean = clean /\ ctlStep'.active = ctlStep.active
    BY <1>0, <1>1, <1>4, <2>2 DEF CtlStep
  <2>4. ctlStep.restored => ctlStep'.todo = ctlStep.active
    BY <1>0, <2>2 DEF CtlStep, RestartAfter
  <2>5. CtlTyped'
    BY <1>0, <2>1, <2>3 DEF CtlTyped
  <2>6. clean => ctlStep.clean
    BY <2>2
  <2>7. UpdateOnCourse'
    BY <1>0, <1>1, <2>1, <2>3, <2>4, <2>6 DEF UpdateOnCourse
  <2> QED
    BY <1>0, <2>5, <2>7, CtlMovesKeeps
<1> QED
  BY <1>5, <1>6, <1>7

(* --profile: no update is under way, so nothing is promised of the files.    *)
LEMMA ProfileKeepsCtl ==
  ASSUME CtlInv, profileBinary \/ profileUnit \/ keepConfig \/ createConfig \/ fillConfig \/ startProfile
  PROVE  CtlInv'
<1>0. CtlTyped /\ UpdateOnCourse /\ ctlStep.at # "idle" /\ ctlStep \in CtlStep /\ ctlStep.pin \in Builds
  BY DEF CtlInv, CtlTyped, CtlStep, profileBinary, profileUnit, keepConfig, createConfig, fillConfig,
         startProfile, CtlAt
<1>1. PICK a \in {"profile-unit", "profile-env", "profile-fill", "profile-start", "profile-check"} : CtlGoes(a)
  BY DEF profileBinary, profileUnit, keepConfig, createConfig, fillConfig, startProfile
<1>2. ctlBinary' \in {ctlBinary, ctlStep.pin} /\ ctlUnitFile' \in {ctlUnitFile, ctlStep.pin} /\ ctlBackup' = ctlBackup
  BY DEF profileBinary, profileUnit, keepConfig, createConfig, fillConfig, startProfile, ctlFiles
<1>3. ctlRuns' \in [CtlProfiles -> Builds]
  <2>1. CASE startProfile
    BY <1>0, <2>1, RestartedRuns DEF startProfile
  <2>2. CASE ctlRuns' = ctlRuns
    BY <1>0, <2>2 DEF CtlTyped
  <2> QED
    BY <2>1, <2>2 DEF profileBinary, profileUnit, keepConfig, createConfig, fillConfig, ctlUnits
<1>4. CtlTyped' /\ UpdateOnCourse'
  BY <1>0, <1>1, <1>2, <1>3, CtlGoesFields DEF CtlPhases, CtlTyped, UpdateOnCourse
<1> QED
  BY <1>0, <1>1, <1>4, CtlMovesKeeps DEF CtlGoes

LEMMA CtlStepKeeps ==
  ASSUME CtlInv, [CtlNext]_ctlVars
  PROVE  CtlInv'
<1>1. CASE UNCHANGED ctlVars
  BY <1>1 DEF ctlVars, CtlInv, CtlTyped, UpdateOnCourse, UpdateOutcomeTrue
<1>2. CASE CtlNext
  <2>1. CASE CtlUpdateStep
    BY <2>1, ApplyKeepsCtl, RestartKeepsCtl, EndKeepsCtl, UndoKeepsCtl DEF CtlUpdateStep
  <2>2. CASE CtlProfileStep
    BY <2>2, ProfileKeepsCtl, EndKeepsCtl DEF CtlProfileStep
  <2> QED
    BY <1>2, <2>1, <2>2, BeginKeepsCtl, HostKeepsCtl, EndKeepsCtl DEF CtlNext
<1> QED
  BY <1>1, <1>2

(* What the last line of a controller update says is so, whichever step       *)
(* failed, whichever instance died meanwhile, and whoever killed a run before *)
(* it (installScript.ts, controller_install).                                 *)
THEOREM UpdatesSpeakTrue == CtlSpec => []UpdateOutcomeTrue
<1>1. CtlInv => UpdateOutcomeTrue
  BY DEF CtlInv
<1> QED
  BY <1>1, CtlInitInv, CtlStepKeeps, PTL DEF CtlSpec

-----------------------------------------------------------------------------
(* InstallWorker: the machine's identity, the release an update replaces, and *)
(* the Agents of a host.                                                      *)

SetupPhases == {"idle", "stop", "clear", "keep", "place", "register", "configure", "start", "await",
                "undo", "undo-move", "undo-meta", "undo-start"}
Versions == AgentReleases \cup {"none"}
SetupKinds == {"none", "service", "nohup"}
Directories == [release : Versions, id : Nat]
SetupRuns == [at : SetupPhases, mode : {"none", "fresh", "update"}, pin : Versions, stage : Directories,
              found : Directories, version : Versions, kind : SetupKinds]
AgentProcs == [release : Versions, id : Nat, version : Versions, told : BOOLEAN]

SetupTyped ==
  /\ setup \in SetupRuns /\ agentDir \in Directories /\ previousDir \in Directories
  /\ installMeta \in [version : Versions, kind : SetupKinds]
  /\ agentProc \in [Starters -> AgentProcs] /\ agentUnit \in {"absent", "stopped", "started"}
  /\ agentReady \in Versions /\ setups \in Nat /\ knownId \in Nat
  /\ cronLine \in BOOLEAN /\ pidFile \in BOOLEAN /\ cutShort \in BOOLEAN /\ strayAgents \in BOOLEAN
  /\ setup.at # "idle" => setup.pin \in AgentReleases /\ setupSaid.what = "none"

(* The identity of the last registration is in the directory a step is about  *)
(* to leave alone.                                                            *)
IdentityHeld ==
  knownId # 0 =>
    /\ agentDir.id \in {0, knownId}
    /\ agentDir.id = 0 => previousDir.id = knownId
    /\ setup.at \in {"stop", "clear", "keep"} => agentDir.id = knownId
    /\ setup.at \in {"stop", "clear", "keep", "place"} => setup.stage.id = knownId
    /\ setup.mode = "update" /\ setup.at \in {"place", "configure", "start", "await", "undo", "undo-move"} =>
         previousDir.id = knownId
    /\ setup.at \in {"stop", "clear", "keep", "place"} => setup.mode = "update"

(* The release a run found is where the run put it, and install-meta names    *)
(* the version of what is installed unless a run was cut short.               *)
FoundHeld ==
  LET r == setup IN
  /\ r.mode = "update" => r.found # NoInstall
  /\ r.at = "register" => r.mode = "fresh"
  /\ r.at \in {"undo", "undo-move", "undo-meta", "undo-start"} => r.mode = "update"
  /\ r.at \in {"stop", "clear", "keep"} => agentDir = r.found
  /\ r.at = "keep" => previousDir = NoInstall
  /\ r.at = "place" => agentDir = NoInstall /\ previousDir = r.found
  /\ r.mode = "update" /\ r.at \in {"configure", "start", "await", "undo", "undo-move"} => previousDir = r.found
  /\ r.at \in {"undo-meta", "undo-start"} => agentDir = r.found
  /\ r.at \in {"stop", "clear", "keep", "place"} /\ r.found # NoInstall /\ ~cutShort =>
       installMeta.version = r.found.release
  /\ r.mode = "update" /\ ~cutShort => r.version = r.found.release
  /\ r.at = "undo-start" => installMeta.version = r.version
  /\ r.at = "idle" /\ agentDir # NoInstall /\ ~cutShort => installMeta.version = agentDir.release

(* What a run has put in place by then.                                       *)
NewPlaced ==
  LET r == setup IN
  /\ r.at \in {"stop", "clear", "keep", "place"} => r.stage.release = r.pin
  /\ r.at \in {"register", "configure", "start", "await"} => agentDir.release = r.pin
  /\ r.at \in {"start", "await"} => installMeta.version = r.pin
  /\ r.at \in {"start", "await", "undo", "undo-move", "undo-meta", "undo-start"} => r.kind = installMeta.kind

(* The Agent that runs is the one install-meta tells how to stop.             *)
AgentTracked ==
  ~strayAgents =>
    /\ AgentsRunning \subseteq {installMeta.kind}
    /\ "nohup" \in AgentsRunning => pidFile
    /\ agentUnit # "absent" => installMeta.kind = "service"

(* After the start, an Agent that runs is the new one.                        *)
NewAgentRuns ==
  setup.at = "await" /\ ~strayAgents =>
    /\ \A s \in AgentsRunning : agentProc[s].release = setup.pin /\ agentProc[s].id = agentDir.id
    /\ agentReady # "none" => setup.pin \in SoundReleases

SetupInv == SetupTyped /\ IdentityHeld /\ FoundHeld /\ NewPlaced /\ AgentTracked /\ NewAgentRuns /\ InstallKept

LEMMA NoneFields ==
  /\ NoInstall \in Directories /\ NoInstall.id = 0 /\ NoInstall.release = "none"
  /\ NoSetup \in SetupRuns /\ NoSetup.at = "idle" /\ NoSetup.mode = "none"
  /\ NoMeta \in [version : Versions, kind : SetupKinds] /\ NoMeta.kind = "none"
  /\ NoProc \in AgentProcs /\ NoProc.told = FALSE
<1>1. NoInstall \in Directories /\ NoInstall.id = 0 /\ NoInstall.release = "none"
  BY DEF NoInstall, Directories, Versions
<1>2. NoSetup \in SetupRuns /\ NoSetup.at = "idle" /\ NoSetup.mode = "none"
  BY <1>1 DEF NoSetup, SetupRuns, SetupPhases, Versions, SetupKinds
<1>3. NoMeta \in [version : Versions, kind : SetupKinds] /\ NoMeta.kind = "none"
  BY DEF NoMeta, Versions, SetupKinds
<1>4. NoProc \in AgentProcs /\ NoProc.told = FALSE
  BY DEF NoProc, AgentProcs, Versions
<1> QED
  BY <1>1, <1>2, <1>3, <1>4

LEMMA SetupInitInv ==
  ASSUME SetupInit
  PROVE  SetupInv
<1>1. /\ setup.at = "idle" /\ setup.mode = "none" /\ setupSaid.what = "none" /\ agentDir = NoInstall
      /\ previousDir = NoInstall /\ knownId = 0
  BY NoneFields DEF SetupInit
<1>2. AgentsRunning = {}
  BY DEF SetupInit, AgentsRunning
<1>3. SetupTyped
  <2>1. agentProc \in [Starters -> AgentProcs]
    BY NoneFields DEF SetupInit
  <2>2. "none" \in Versions /\ 0 \in Nat
    BY DEF Versions
  <2> QED
    BY NoneFields, <1>1, <2>1, <2>2 DEF SetupInit, SetupTyped
<1>4. IdentityHeld /\ FoundHeld /\ NewPlaced /\ InstallKept
  BY <1>1 DEF IdentityHeld, FoundHeld, NewPlaced, InstallKept
<1>5. AgentTracked /\ NewAgentRuns
  BY <1>1, <1>2 DEF SetupInit, AgentTracked, NewAgentRuns
<1> QED
  BY <1>3, <1>4, <1>5 DEF SetupInv

(* A run goes on to another phase and changes nothing else of its record.     *)
LEMMA SetupGoesFields ==
  ASSUME setup \in SetupRuns, NEW a \in SetupPhases, SetupGoes(a)
  PROVE  /\ setup' \in SetupRuns /\ setup'.at = a /\ setup'.mode = setup.mode /\ setup'.pin = setup.pin
         /\ setup'.stage = setup.stage /\ setup'.found = setup.found /\ setup'.version = setup.version
         /\ setup'.kind = setup.kind /\ setupSaid' = setupSaid /\ setups' = setups
  BY DEF SetupGoes, SetupRuns

(* A run ends.                                                                *)
LEMMA SetupEndsFields ==
  ASSUME NEW what, SetupEnds(what)
  PROVE  /\ setup' \in SetupRuns /\ setup'.at = "idle" /\ setup'.mode = "none"
         /\ setupSaid'.what = what /\ setupSaid'.run = setup /\ setups' = setups
<1>1. setup' = NoSetup /\ setupSaid' = [what |-> what, run |-> setup] /\ setups' = setups
  BY DEF SetupEnds
<1>2. setupSaid'.what = what /\ setupSaid'.run = setup
  BY <1>1
<1> QED
  BY <1>1, <1>2, NoneFields

(* Nothing of the host moves.                                                 *)
LEMMA HostStill ==
  ASSUME SetupInv, UNCHANGED <<agentProc, pidFile, agentUnit>>,
         UNCHANGED strayAgents, installMeta'.kind = installMeta.kind
  PROVE  AgentTracked'
  BY DEF SetupInv, AgentTracked, AgentsRunning

(* A run ends and leaves the host as it is; a run that does not say so with   *)
(* the release it found in place is marked as cut short.                      *)
LEMMA EndsKeepSetup ==
  ASSUME SetupInv, NEW what, SetupEnds(what), setup.at # "idle",
         what \notin {"rolled-back", "not-installed"},
         cutShort' = TRUE \/ (cutShort' = cutShort /\ installMeta.version = agentDir.release),
         UNCHANGED <<agentDir, previousDir, installMeta, hostVars, knownId, strayAgents>>
  PROVE  SetupInv'
<1>1. SetupTyped'
  BY SetupEndsFields DEF SetupInv, SetupTyped, hostVars
<1>2. IdentityHeld' /\ NewPlaced' /\ NewAgentRuns' /\ InstallKept'
  BY SetupEndsFields DEF SetupInv, IdentityHeld, NewPlaced, NewAgentRuns, InstallKept
<1>3. FoundHeld'
  BY SetupEndsFields DEF SetupInv, FoundHeld
<1>4. AgentTracked'
  BY HostStill DEF hostVars
<1> QED
  BY <1>1, <1>2, <1>3, <1>4 DEF SetupInv

LEMMA BeginKeepsSetup ==
  ASSUME SetupInv, NEW mode \in {"fresh", "update"}, NEW pin \in AgentReleases, beginSetup(mode, pin)
  PROVE  SetupInv'
<1> DEFINE stage == [release |-> pin, id |-> StagedIdentity(mode)]
           begun == [at |-> "stop", mode |-> mode, pin |-> pin, version |-> installMeta.version, kind |-> "none",
                   stage |-> stage, found |-> agentDir]
<1>0. SetupTyped /\ IdentityHeld /\ FoundHeld /\ setup.at = "idle"
  BY DEF SetupInv, beginSetup, AtSetup
<1>1. /\ setup' = begun /\ setupSaid' = [what |-> "none", run |-> NoSetup] /\ (mode = "update" => agentDir.id # 0)
      /\ knownId' = (IF mode = "fresh" THEN 0 ELSE knownId) /\ setups' = setups + 1
      /\ UNCHANGED <<agentDir, previousDir, installMeta, agentUnit, cronLine, agentProc, pidFile, agentReady,
                     cutShort, strayAgents>>
  BY DEF beginSetup, dirVars, hostVars
<1>2. agentDir \in Directories /\ agentDir.id \in Nat /\ installMeta.version \in Versions
  BY <1>0 DEF SetupTyped, Directories
<1>3. stage \in Directories /\ stage.id = agentDir.id /\ stage.release = pin
  BY <1>2 DEF Directories, Versions, StagedIdentity
<1> HIDE DEF stage
<1>4. begun \in SetupRuns
  BY <1>2, <1>3 DEF SetupRuns, SetupPhases, Versions, SetupKinds
<1>5. /\ begun.at = "stop" /\ begun.mode = mode /\ begun.pin = pin /\ begun.version = installMeta.version
      /\ begun.stage = stage /\ begun.found = agentDir
  OBVIOUS
<1> HIDE DEF begun
<1>6. setupSaid'.what = "none"
  BY <1>1
<1>7. SetupTyped'
  BY <1>0, <1>1, <1>4, <1>5, <1>6 DEF SetupTyped
<1>8. IdentityHeld'
  BY <1>0, <1>1, <1>3, <1>5 DEF IdentityHeld
<1>9. FoundHeld'
  BY <1>0, <1>1, <1>5, NoneFields DEF FoundHeld
<1>10. NewPlaced' /\ NewAgentRuns'
  BY <1>1, <1>3, <1>5 DEF NewPlaced, NewAgentRuns
<1>11. AgentTracked'
  BY <1>1, HostStill
<1>12. InstallKept'
  BY <1>1, <1>6 DEF SetupInv, InstallKept
<1> QED
  BY <1>7, <1>8, <1>9, <1>10, <1>11, <1>12 DEF SetupInv

(* The Agents AgentsStopped leaves, where none is stray.                      *)
LEMMA StoppedAgents ==
  ASSUME SetupTyped, agentProc' = AgentsStopped
  PROVE  /\ agentProc' \in [Starters -> AgentProcs]
         /\ \A s \in Starters : agentProc'[s] \in {agentProc[s], NoProc}
         /\ installMeta.kind = "service" => agentProc'["service"] = NoProc
         /\ installMeta.kind = "nohup" /\ pidFile => agentProc'["nohup"] = NoProc
  BY NoneFields DEF SetupTyped, AgentsStopped, Starters

LEMMA StopKeepsSetup ==
  ASSUME SetupInv, stopService
  PROVE  SetupInv'
<1>0. SetupTyped /\ setup \in SetupRuns /\ setup.at = "stop" /\ SetupGoes("clear") /\ "clear" \in SetupPhases
  BY DEF SetupInv, SetupTyped, stopService, AtSetup, SetupPhases
<1>1. UNCHANGED <<agentDir, previousDir, installMeta, cronLine, agentReady, knownId, cutShort, strayAgents>>
  BY DEF stopService, dirVars, setupHistory
<1>2. IdentityHeld' /\ NewPlaced'
  BY <1>0, <1>1, SetupGoesFields DEF SetupInv, IdentityHeld, NewPlaced
<1>3. FoundHeld'
  BY <1>0, <1>1, SetupGoesFields DEF SetupInv, FoundHeld
<1>4. InstallKept' /\ NewAgentRuns'
  BY <1>0, <1>1, SetupGoesFields DEF SetupInv, InstallKept, NewAgentRuns
<1>5. CASE UNCHANGED <<agentProc, agentUnit, pidFile>>
  <2>1. SetupTyped'
    BY <1>0, <1>1, <1>5, SetupGoesFields DEF SetupTyped
  <2>2. AgentTracked'
    BY <1>1, <1>5, HostStill
  <2> QED
    BY <1>2, <1>3, <1>4, <2>1, <2>2 DEF SetupInv
<1>6. CASE /\ agentProc' = AgentsStopped
           /\ agentUnit' = IF installMeta.kind = "service" /\ agentUnit = "started" THEN "stopped" ELSE agentUnit
           /\ pidFile' = IF installMeta.kind = "nohup" THEN FALSE ELSE pidFile
  <2>1. SetupTyped'
    BY <1>0, <1>1, <1>6, SetupGoesFields, StoppedAgents DEF SetupTyped
  <2>2. AgentTracked'
    BY <1>0, <1>1, <1>6, StoppedAgents DEF SetupInv, AgentTracked, AgentsRunning, Starters
  <2> QED
    BY <1>2, <1>3, <1>4, <2>1, <2>2 DEF SetupInv
<1> QED
  BY <1>5, <1>6 DEF stopService

(* The directories move: clear, keep, place.                                  *)
LEMMA ClearKeepsSetup ==
  ASSUME SetupInv, clearPrevious
  PROVE  SetupInv'
<1>0. SetupTyped /\ setup \in SetupRuns /\ setup.at = "clear" /\ SetupGoes("keep") /\ "keep" \in SetupPhases
  BY DEF SetupInv, SetupTyped, clearPrevious, AtSetup, SetupPhases
<1>1. /\ previousDir' = NoInstall
      /\ UNCHANGED <<agentDir, installMeta, agentUnit, cronLine, agentProc, pidFile, agentReady,
                     knownId, cutShort, strayAgents>>
  BY DEF clearPrevious, hostVars, setupHistory
<1>2. SetupTyped'
  BY <1>0, <1>1, SetupGoesFields, NoneFields DEF SetupTyped
<1>3. IdentityHeld' /\ NewPlaced'
  BY <1>0, <1>1, SetupGoesFields DEF SetupInv, IdentityHeld, NewPlaced
<1>4. FoundHeld'
  BY <1>0, <1>1, SetupGoesFields DEF SetupInv, FoundHeld
<1>5. InstallKept' /\ NewAgentRuns'
  BY <1>0, <1>1, SetupGoesFields DEF SetupInv, SetupTyped, IdentityHeld, InstallKept, NewAgentRuns
<1>6. AgentTracked'
  BY <1>1, HostStill
<1> QED
  BY <1>2, <1>3, <1>4, <1>5, <1>6 DEF SetupInv

LEMMA KeepKeepsSetup ==
  ASSUME SetupInv, keepPrevious
  PROVE  SetupInv'
<1>0. SetupTyped /\ setup \in SetupRuns /\ setup.at = "keep" /\ SetupGoes("place") /\ "place" \in SetupPhases
  BY DEF SetupInv, SetupTyped, keepPrevious, AtSetup, SetupPhases
<1>1. /\ agentDir' = NoInstall /\ previousDir' = agentDir
      /\ UNCHANGED <<installMeta, agentUnit, cronLine, agentProc, pidFile, agentReady,
                     knownId, cutShort, strayAgents>>
  BY <1>0 DEF keepPrevious, hostVars, setupHistory, dirVars, KeptAside, SetupInv, FoundHeld
<1>2. SetupTyped'
  BY <1>0, <1>1, SetupGoesFields, NoneFields DEF SetupTyped
<1>3. IdentityHeld' /\ NewPlaced'
  BY <1>0, <1>1, SetupGoesFields, NoneFields DEF SetupInv, IdentityHeld, NewPlaced
<1>4. FoundHeld'
  BY <1>0, <1>1, SetupGoesFields DEF SetupInv, FoundHeld
<1>5. InstallKept' /\ NewAgentRuns'
  BY <1>0, <1>1, SetupGoesFields DEF SetupInv, SetupTyped, IdentityHeld, InstallKept, NewAgentRuns
<1>6. AgentTracked'
  BY <1>1, HostStill
<1> QED
  BY <1>2, <1>3, <1>4, <1>5, <1>6 DEF SetupInv

LEMMA PlaceKeepsSetup ==
  ASSUME SetupInv, placeNew
  PROVE  SetupInv'
<1>0. SetupTyped /\ setup \in SetupRuns /\ setup.at = "place"
  BY DEF SetupInv, SetupTyped, placeNew, AtSetup
<1>1. UNCHANGED <<installMeta, agentUnit, cronLine, agentProc, pidFile, agentReady, knownId, cutShort, strayAgents>>
  BY DEF placeNew, hostVars, setupHistory
<1>2. AgentTracked'
  BY <1>1, HostStill
<1>3. CASE SetupGoes(IF setup.mode = "fresh" THEN "register" ELSE "configure") /\ agentDir' = setup.stage
           /\ previousDir' = previousDir
  <2>1. PICK a \in {"register", "configure"} : SetupGoes(a) /\ (setup.mode = "fresh" <=> a = "register")
    BY <1>3
  <2>2. a \in SetupPhases /\ setup.stage \in Directories
    BY <1>0 DEF SetupPhases, SetupRuns
  <2>3. SetupTyped'
    BY <1>0, <1>1, <1>3, <2>1, <2>2, SetupGoesFields DEF SetupTyped
  <2>4. IdentityHeld' /\ NewPlaced'
    BY <1>0, <1>1, <1>3, <2>1, <2>2, SetupGoesFields DEF SetupInv, IdentityHeld, NewPlaced
  <2>5. FoundHeld'
    BY <1>0, <1>1, <1>3, <2>1, <2>2, SetupGoesFields DEF SetupInv, FoundHeld
  <2>6. InstallKept' /\ NewAgentRuns'
    BY <1>0, <1>1, <1>3, <2>1, <2>2, SetupGoesFields DEF SetupInv, SetupTyped, IdentityHeld, InstallKept, NewAgentRuns
  <2> QED
    BY <1>2, <2>3, <2>4, <2>5, <2>6 DEF SetupInv
<1>4. CASE SetupEnds("not-installed") /\ IF previousDir # NoInstall
                                          THEN agentDir' = previousDir /\ previousDir' = NoInstall
                                          ELSE UNCHANGED dirVars
  <2>1. agentDir' = setup.found /\ setup.found \in Directories /\ previousDir' \in Directories
    BY <1>0, <1>4, NoneFields DEF SetupInv, FoundHeld, dirVars, SetupRuns, SetupTyped
  <2>2. knownId # 0 => agentDir'.id = knownId
    BY <1>0, <2>1 DEF SetupInv, IdentityHeld, FoundHeld
  <2>3. SetupTyped'
    BY <1>0, <1>1, <1>4, <2>1, SetupEndsFields DEF SetupTyped
  <2>4. IdentityHeld' /\ NewPlaced' /\ NewAgentRuns'
    BY <1>1, <1>4, <2>2, SetupEndsFields DEF IdentityHeld, NewPlaced, NewAgentRuns
  <2>5. FoundHeld'
    BY <1>0, <1>1, <1>4, <2>1, SetupEndsFields DEF SetupInv, FoundHeld
  <2>6. InstallKept'
    BY <1>1, <1>4, <2>1, <2>2, SetupEndsFields DEF InstallKept
  <2> QED
    BY <1>2, <2>3, <2>4, <2>5, <2>6 DEF SetupInv
<1> QED
  BY <1>3, <1>4 DEF placeNew

(* A registration gives the host a new identity.                              *)
LEMMA RegisterKeepsSetup ==
  ASSUME SetupInv, registerMachine
  PROVE  SetupInv'
<1>0. SetupTyped /\ setup \in SetupRuns /\ setup.at = "register" /\ "configure" \in SetupPhases
  BY DEF SetupInv, SetupTyped, registerMachine, AtSetup, SetupPhases
<1>1. UNCHANGED <<previousDir, installMeta, hostVars, agentUnit, cronLine, agentProc, pidFile, agentReady, strayAgents>>
  BY DEF registerMachine, hostVars
<1>2. CASE SetupEnds("not-registered") /\ cutShort' = TRUE /\ UNCHANGED <<agentDir, knownId>>
  BY <1>0, <1>1, <1>2, EndsKeepSetup
<1>3. CASE /\ agentDir' = [agentDir EXCEPT !.id = setups] /\ knownId' = setups /\ cutShort' = FALSE
           /\ SetupGoes("configure")
  <2>1. agentDir' \in Directories /\ agentDir'.id = setups /\ agentDir'.release = agentDir.release
    BY <1>0, <1>3 DEF SetupTyped, Directories
  <2>2. SetupTyped'
    BY <1>0, <1>1, <1>3, <2>1, SetupGoesFields DEF SetupTyped
  <2>3. setup.mode # "update"
    BY <1>0 DEF SetupInv, FoundHeld
  <2>4. IdentityHeld' /\ NewPlaced'
    BY <1>0, <1>1, <1>3, <2>1, <2>3, SetupGoesFields DEF SetupInv, IdentityHeld, NewPlaced
  <2>5. FoundHeld'
    BY <1>0, <1>1, <1>3, <2>1, <2>3, SetupGoesFields DEF SetupInv, FoundHeld
  <2>6. InstallKept' /\ NewAgentRuns'
    BY <1>0, <1>1, <1>3, <2>1, SetupGoesFields DEF SetupTyped, InstallKept, NewAgentRuns
  <2>7. AgentTracked'
    BY <1>1, HostStill
  <2> QED
    BY <2>2, <2>4, <2>5, <2>6, <2>7 DEF SetupInv
<1> QED
  BY <1>2, <1>3 DEF registerMachine

(* install-meta names the release and the service before anything starts.     *)
LEMMA ConfigureKeepsSetup ==
  ASSUME SetupInv, NEW kind \in ServiceKinds, configure(kind)
  PROVE  SetupInv'
<1>0. SetupTyped /\ setup \in SetupRuns /\ setup.at = "configure" /\ setup.pin \in Versions
  BY DEF SetupInv, SetupTyped, configure, AtSetup, SetupRuns
<1>1. /\ setup' = [setup EXCEPT !.at = "start", !.kind = kind] /\ installMeta' = [version |-> setup.pin, kind |-> kind]
      /\ cronLine' = (cronLine \/ kind = "nohup")
      /\ strayAgents' = (strayAgents \/ (installMeta.kind # "none" /\ installMeta.kind # kind))
      /\ UNCHANGED <<agentDir, previousDir, agentUnit, agentProc, pidFile, agentReady, knownId, cutShort,
                     setupSaid, setups>>
  BY DEF configure, dirVars
<1>2. kind \in {"service", "nohup"}
  BY WorkerInstallAssumption
<1>3. /\ setup' \in SetupRuns /\ setup'.at = "start" /\ setup'.mode = setup.mode /\ setup'.pin = setup.pin
      /\ setup'.stage = setup.stage /\ setup'.found = setup.found /\ setup'.version = setup.version
      /\ setup'.kind = kind
  BY <1>0, <1>1, <1>2 DEF SetupRuns, SetupPhases, SetupKinds
<1>4. /\ installMeta' \in [version : Versions, kind : SetupKinds]
      /\ installMeta'.version = setup.pin /\ installMeta'.kind = kind
  BY <1>0, <1>1, <1>2 DEF SetupKinds
<1>5. SetupTyped'
  BY <1>0, <1>1, <1>3, <1>4 DEF SetupTyped
<1>6. IdentityHeld' /\ NewPlaced' /\ NewAgentRuns'
  BY <1>0, <1>1, <1>3, <1>4 DEF SetupInv, IdentityHeld, NewPlaced, NewAgentRuns
<1>7. FoundHeld'
  BY <1>0, <1>1, <1>3 DEF SetupInv, FoundHeld
<1>8. InstallKept'
  BY <1>0, <1>1 DEF SetupInv, SetupTyped, InstallKept
<1>9. AgentTracked'
  BY <1>1, <1>4 DEF SetupInv, AgentTracked, AgentsRunning, Starters
<1> QED
  BY <1>5, <1>6, <1>7, <1>8, <1>9 DEF SetupInv

(* What start-agent.sh starts, and where.                                     *)
LEMMA StartedAgent ==
  ASSUME SetupTyped
  PROVE  /\ AgentStarted \in AgentProcs
         /\ AgentStarted # NoProc => /\ AgentStarted.release = agentDir.release /\ AgentStarted.id = agentDir.id
<1>1. agentDir.release \in Versions /\ agentDir.id \in Nat /\ installMeta.version \in Versions
  BY DEF SetupTyped, Directories
<1> QED
  BY <1>1, NoneFields DEF AgentStarted, AgentProcs

(* A start by the service install-meta names: one Agent at most, the new one. *)
LEMMA StartKeepsAgents ==
  ASSUME SetupInv, AgentStarts(installMeta.kind), UNCHANGED <<installMeta, strayAgents, agentDir>>
  PROVE  /\ agentProc' \in [Starters -> AgentProcs] /\ agentUnit' \in {"absent", "stopped", "started"}
         /\ pidFile' \in BOOLEAN /\ agentReady' = "none"
         /\ AgentTracked'
         /\ ~strayAgents => \A s \in AgentsRunning' : agentProc'[s].release = agentDir.release /\ agentProc'[s].id = agentDir.id
<1>0. SetupTyped /\ AgentTracked /\ agentProc \in [Starters -> AgentProcs]
  BY DEF SetupInv, SetupTyped
<1>1. PICK kind \in SetupKinds : kind = installMeta.kind
  BY <1>0 DEF SetupTyped
<1>2. PICK fresh \in AgentProcs : fresh = AgentStarted
  BY <1>0, StartedAgent
<1>3. /\ agentProc' = StartedBy(kind)
      /\ agentUnit' = (IF kind = "service" THEN "started" ELSE agentUnit) /\ pidFile' = (kind = "nohup" \/ pidFile)
      /\ agentReady' = "none"
  BY <1>1 DEF AgentStarts, PidWritten
<1>4. agentProc' \in [Starters -> AgentProcs]
  BY <1>0, <1>2, <1>3 DEF StartedBy, Starters
<1>5. ~strayAgents => agentProc' = [agentProc EXCEPT ![kind] = fresh]
  BY <1>0, <1>1, <1>2, <1>3 DEF StartedBy, AgentTracked, AgentsRunning, Starters
<1>6. ~strayAgents => \A s \in Starters : agentProc'[s] # NoProc => s = kind /\ agentProc'[s] = fresh
  BY <1>0, <1>1, <1>5 DEF AgentTracked, AgentsRunning, Starters
<1>7. AgentTracked'
  BY <1>0, <1>1, <1>3, <1>6 DEF AgentTracked, AgentsRunning
<1>8. ~strayAgents => \A s \in AgentsRunning' : agentProc'[s].release = agentDir.release /\ agentProc'[s].id = agentDir.id
  BY <1>0, <1>2, <1>6, StartedAgent DEF AgentsRunning
<1>9. agentUnit' \in {"absent", "stopped", "started"} /\ pidFile' \in BOOLEAN
  BY <1>0, <1>3 DEF SetupTyped
<1> QED
  BY <1>3, <1>4, <1>7, <1>8, <1>9

LEMMA StartKeepsSetup ==
  ASSUME SetupInv, startService
  PROVE  SetupInv'
<1>0. SetupTyped /\ setup \in SetupRuns /\ setup.at = "start" /\ "await" \in SetupPhases /\ setup.kind = installMeta.kind
  BY DEF SetupInv, SetupTyped, startService, AtSetup, SetupPhases, NewPlaced
<1>1. UNCHANGED <<agentDir, previousDir, installMeta, cronLine, knownId, strayAgents>>
  BY DEF startService, dirVars
<1>2. CASE SetupEnds("not-started") /\ cutShort' = TRUE /\ UNCHANGED <<agentProc, agentUnit, pidFile, agentReady>>
  BY <1>0, <1>1, <1>2, EndsKeepSetup DEF hostVars
<1>3. CASE AgentStarts(setup.kind) /\ SetupGoes("await") /\ cutShort' = cutShort
  <2>0. AgentStarts(installMeta.kind)
    BY <1>0, <1>3
  <2>1. SetupTyped'
    BY <1>0, <1>1, <1>3, <2>0, SetupGoesFields, StartKeepsAgents DEF SetupTyped, Versions
  <2>2. IdentityHeld' /\ NewPlaced'
    BY <1>0, <1>1, <1>3, SetupGoesFields DEF SetupInv, IdentityHeld, NewPlaced
  <2>3. FoundHeld'
    BY <1>0, <1>1, <1>3, SetupGoesFields DEF SetupInv, FoundHeld
  <2>4. InstallKept'
    BY <1>0, <1>1, <1>3, SetupGoesFields DEF SetupInv, SetupTyped, InstallKept
  <2>5. NewAgentRuns'
    BY <1>0, <1>1, <1>3, <2>0, SetupGoesFields, StartKeepsAgents DEF SetupInv, NewPlaced, NewAgentRuns
  <2>6. AgentTracked'
    BY <1>1, <2>0, StartKeepsAgents
  <2> QED
    BY <2>1, <2>2, <2>3, <2>4, <2>5, <2>6 DEF SetupInv
<1> QED
  BY <1>2, <1>3 DEF startService

(* The run says "connected", or gives up waiting.                             *)
LEMMA AwaitKeepsSetup ==
  ASSUME SetupInv, agentConnected \/ connectTimesOut
  PROVE  SetupInv'
<1>0. SetupTyped /\ setup \in SetupRuns /\ setup.at = "await" /\ "undo" \in SetupPhases
  BY DEF SetupInv, SetupTyped, agentConnected, connectTimesOut, AtSetup, SetupPhases
<1>1. /\ UNCHANGED <<agentDir, previousDir, installMeta, hostVars, knownId, strayAgents>>
      /\ UNCHANGED <<agentUnit, cronLine, agentProc, pidFile, agentReady>>
  BY DEF agentConnected, connectTimesOut, dirVars, hostVars, setupHistory
<1>2. CASE agentConnected
  <2>1. SetupEnds("connected") /\ cutShort' = cutShort
    BY <1>2 DEF agentConnected, setupHistory
  <2>2. installMeta.version = agentDir.release
    BY <1>0 DEF SetupInv, NewPlaced
  <2> QED
    BY <1>0, <1>1, <2>1, <2>2, EndsKeepSetup
<1>3. CASE SetupEnds("not-connected") /\ cutShort' = TRUE
  BY <1>0, <1>1, <1>3, EndsKeepSetup
<1>4. CASE setup.mode = "update" /\ SetupGoes("undo") /\ cutShort' = cutShort
  <2>1. SetupTyped'
    BY <1>0, <1>1, <1>4, SetupGoesFields DEF SetupTyped
  <2>2. IdentityHeld' /\ NewPlaced' /\ NewAgentRuns'
    BY <1>0, <1>1, <1>4, SetupGoesFields DEF SetupInv, IdentityHeld, NewPlaced, NewAgentRuns
  <2>3. FoundHeld'
    BY <1>0, <1>1, <1>4, SetupGoesFields DEF SetupInv, FoundHeld
  <2>4. InstallKept'
    BY <1>0, <1>1, <1>4, SetupGoesFields DEF SetupInv, SetupTyped, InstallKept
  <2>5. AgentTracked'
    BY <1>1, HostStill
  <2> QED
    BY <2>1, <2>2, <2>3, <2>4, <2>5 DEF SetupInv
<1> QED
  BY <1>2, <1>3, <1>4 DEF connectTimesOut

(* The rollback: the directory, then install-meta, then the start.            *)
LEMMA UndoDirKeepsSetup ==
  ASSUME SetupInv, dropRejected \/ restorePrevious
  PROVE  SetupInv'
<1>0. /\ SetupTyped /\ setup \in SetupRuns /\ setup.at \in {"undo", "undo-move"} /\ setup.mode = "update"
      /\ {"undo-move", "undo-meta"} \subseteq SetupPhases
  BY DEF SetupInv, SetupTyped, FoundHeld, dropRejected, restorePrevious, AtSetup, SetupPhases
<1>1. UNCHANGED <<installMeta, agentUnit, cronLine, agentProc, pidFile, agentReady, knownId, cutShort, strayAgents>>
  BY DEF dropRejected, restorePrevious, hostVars, setupHistory
<1>2. AgentTracked'
  BY <1>1, HostStill
<1>3. previousDir = setup.found /\ (knownId # 0 => previousDir.id = knownId)
  BY <1>0 DEF SetupInv, IdentityHeld, FoundHeld
<1>4. CASE dropRejected
  <2>1. SetupGoes("undo-move") /\ agentDir' = NoInstall /\ previousDir' = previousDir
    BY <1>4 DEF dropRejected
  <2>2. SetupTyped'
    BY <1>0, <1>1, <2>1, SetupGoesFields, NoneFields DEF SetupTyped
  <2>3. IdentityHeld' /\ NewPlaced' /\ NewAgentRuns'
    BY <1>0, <1>1, <1>3, <2>1, SetupGoesFields, NoneFields DEF SetupInv, IdentityHeld, NewPlaced, NewAgentRuns
  <2>4. FoundHeld'
    BY <1>0, <1>1, <1>3, <2>1, SetupGoesFields DEF SetupInv, FoundHeld
  <2>5. InstallKept'
    BY <1>0, <1>1, <1>3, <2>1, SetupGoesFields DEF SetupTyped, InstallKept
  <2> QED
    BY <1>2, <2>2, <2>3, <2>4, <2>5 DEF SetupInv
<1>5. CASE restorePrevious
  <2>1. SetupGoes("undo-meta") /\ agentDir' = previousDir /\ previousDir' = NoInstall
    BY <1>5 DEF restorePrevious
  <2>2. SetupTyped'
    BY <1>0, <1>1, <2>1, SetupGoesFields, NoneFields DEF SetupTyped
  <2>3. IdentityHeld' /\ NewPlaced' /\ NewAgentRuns'
    BY <1>0, <1>1, <1>3, <2>1, SetupGoesFields DEF SetupInv, IdentityHeld, NewPlaced, NewAgentRuns
  <2>4. FoundHeld'
    BY <1>0, <1>1, <1>3, <2>1, SetupGoesFields DEF SetupInv, FoundHeld
  <2>5. InstallKept'
    BY <1>0, <1>1, <1>3, <2>1, SetupGoesFields DEF SetupTyped, InstallKept
  <2> QED
    BY <1>2, <2>2, <2>3, <2>4, <2>5 DEF SetupInv
<1> QED
  BY <1>4, <1>5

LEMMA UndoMetaKeepsSetup ==
  ASSUME SetupInv, restoreMeta
  PROVE  SetupInv'
<1>0. /\ SetupTyped /\ setup \in SetupRuns /\ setup.at = "undo-meta" /\ SetupGoes("undo-start")
      /\ "undo-start" \in SetupPhases
  BY DEF SetupInv, SetupTyped, restoreMeta, AtSetup, SetupPhases
<1>1. /\ installMeta' = [version |-> setup.version, kind |-> setup.kind]
      /\ UNCHANGED <<agentDir, previousDir, agentUnit, cronLine, agentProc, pidFile, agentReady,
                     knownId, cutShort, strayAgents>>
  BY DEF restoreMeta, dirVars, hostVars, setupHistory
<1>2. setup.version \in Versions /\ setup.kind \in SetupKinds /\ setup.kind = installMeta.kind
  BY <1>0 DEF SetupRuns, SetupInv, NewPlaced
<1>3. /\ installMeta' \in [version : Versions, kind : SetupKinds] /\ installMeta'.kind = installMeta.kind
      /\ installMeta'.version = setup.version
  BY <1>1, <1>2
<1>4. SetupTyped'
  BY <1>0, <1>1, <1>3, SetupGoesFields DEF SetupTyped
<1>5. IdentityHeld' /\ NewPlaced' /\ NewAgentRuns'
  BY <1>0, <1>1, <1>3, SetupGoesFields DEF SetupInv, IdentityHeld, NewPlaced, NewAgentRuns
<1>6. FoundHeld'
  BY <1>0, <1>1, <1>3, SetupGoesFields DEF SetupInv, FoundHeld
<1>7. InstallKept'
  BY <1>0, <1>1, SetupGoesFields DEF SetupInv, SetupTyped, InstallKept
<1>8. AgentTracked'
  BY <1>1, <1>3, HostStill
<1> QED
  BY <1>4, <1>5, <1>6, <1>7, <1>8 DEF SetupInv

LEMMA UndoStartKeepsSetup ==
  ASSUME SetupInv, restartPrevious
  PROVE  SetupInv'
<1>0. /\ SetupTyped /\ setup \in SetupRuns /\ setup.at = "undo-start" /\ SetupEnds("rolled-back")
      /\ setup.kind = installMeta.kind
  BY DEF SetupInv, SetupTyped, restartPrevious, AtSetup, NewPlaced
<1>1. UNCHANGED <<agentDir, previousDir, installMeta, cronLine, knownId, cutShort, strayAgents>>
  BY DEF restartPrevious, dirVars, setupHistory
<1>2. /\ agentDir = setup.found
      /\ ~cutShort => installMeta.version = agentDir.release
  BY <1>0 DEF SetupInv, FoundHeld
<1>3. IdentityHeld' /\ NewPlaced' /\ NewAgentRuns'
  BY <1>0, <1>1, SetupEndsFields DEF SetupInv, IdentityHeld, NewPlaced, NewAgentRuns
<1>4. FoundHeld'
  BY <1>0, <1>1, <1>2, SetupEndsFields DEF FoundHeld
<1>5. InstallKept'
  BY <1>0, <1>1, <1>2, SetupEndsFields DEF SetupInv, InstallKept
<1>6. CASE AgentStarts(setup.kind)
  <2>1. SetupTyped'
    BY <1>0, <1>1, <1>6, SetupEndsFields, StartKeepsAgents DEF SetupTyped, Versions
  <2>2. AgentTracked'
    BY <1>0, <1>1, <1>6, StartKeepsAgents
  <2> QED
    BY <1>3, <1>4, <1>5, <2>1, <2>2 DEF SetupInv
<1>7. CASE UNCHANGED <<agentProc, agentUnit, pidFile, agentReady>>
  <2>1. SetupTyped'
    BY <1>0, <1>1, <1>7, SetupEndsFields DEF SetupTyped
  <2>2. AgentTracked'
    BY <1>1, <1>7, HostStill
  <2> QED
    BY <1>3, <1>4, <1>5, <2>1, <2>2 DEF SetupInv
<1> QED
  BY <1>6, <1>7 DEF restartPrevious

(* The installer is killed: nothing but its run is gone.                      *)
LEMMA KillKeepsSetup ==
  ASSUME SetupInv, setupKilled
  PROVE  SetupInv'
  BY EndsKeepSetup DEF setupKilled, AtSetup, dirVars

(* The Agents move on their own: the installer and its files stay.            *)
LEMMA AgentsMove ==
  ASSUME SetupInv, UNCHANGED <<agentDir, previousDir, installMeta, setup, setupSaid, knownId, cutShort, strayAgents>>,
         agentProc' \in [Starters -> AgentProcs], agentUnit' \in {"absent", "stopped", "started"},
         pidFile' \in BOOLEAN, cronLine' \in BOOLEAN, agentReady' \in Versions, setups' \in Nat,
         AgentTracked', NewAgentRuns'
  PROVE  SetupInv'
<1>1. SetupTyped'
  BY DEF SetupInv, SetupTyped
<1>2. IdentityHeld' /\ FoundHeld' /\ NewPlaced' /\ InstallKept'
  BY DEF SetupInv, IdentityHeld, FoundHeld, NewPlaced, InstallKept
<1> QED
  BY <1>1, <1>2 DEF SetupInv

LEMMA AgentKeepsSetup ==
  ASSUME SetupInv, NEW s \in Starters, publishReadiness(s) \/ agentProcDies(s)
  PROVE  SetupInv'
<1>0. SetupTyped /\ AgentTracked /\ NewAgentRuns /\ agentProc \in [Starters -> AgentProcs] /\ agentProc[s] # NoProc
  BY DEF SetupInv, SetupTyped, publishReadiness, agentProcDies
<1>1. UNCHANGED <<agentDir, previousDir, installMeta, setup, setupSaid, knownId, cutShort, strayAgents,
                 agentUnit, pidFile, cronLine, setups>>
  BY DEF publishReadiness, agentProcDies, dirVars, setupHistory
<1>2. agentProc' \in [Starters -> AgentProcs] /\ AgentsRunning' \subseteq AgentsRunning
      /\ \A t \in AgentsRunning' : agentProc'[t].release = agentProc[t].release /\ agentProc'[t].id = agentProc[t].id
  <2>1. CASE agentProcDies(s)
    BY <1>0, <2>1, NoneFields DEF agentProcDies, AgentsRunning
  <2>2. CASE publishReadiness(s)
    <3>1. agentProc' = [agentProc EXCEPT ![s] = [agentProc[s] EXCEPT !.told = TRUE]]
      BY <2>2 DEF publishReadiness
    <3>2. PICK fresh : fresh = [agentProc[s] EXCEPT !.told = TRUE]
      OBVIOUS
    <3>3. fresh \in AgentProcs /\ fresh.release = agentProc[s].release /\ fresh.id = agentProc[s].id
      BY <1>0, <3>2 DEF AgentProcs
    <3> QED
      BY <1>0, <3>1, <3>2, <3>3 DEF AgentsRunning
  <2> QED
    BY <2>1, <2>2
<1>3. AgentTracked'
  BY <1>0, <1>1, <1>2 DEF AgentTracked
<1>4. agentReady' \in Versions /\ NewAgentRuns'
  <2>1. CASE agentProcDies(s)
    BY <1>0, <1>1, <1>2, <2>1 DEF agentProcDies, NewAgentRuns, SetupTyped
  <2>2. CASE publishReadiness(s)
    <3>1. agentReady' = agentProc[s].version /\ agentProc[s].release \in SoundReleases /\ s \in AgentsRunning
      BY <1>0, <2>2 DEF publishReadiness, AgentsRunning
    <3>2. agentProc[s].version \in Versions
      BY <1>0 DEF AgentProcs
    <3> QED
      BY <1>0, <1>1, <1>2, <3>1, <3>2 DEF NewAgentRuns
  <2> QED
    BY <2>1, <2>2
<1>5. agentUnit' \in {"absent", "stopped", "started"} /\ pidFile' \in BOOLEAN /\ cronLine' \in BOOLEAN /\ setups' \in Nat
  BY <1>0, <1>1 DEF SetupTyped
<1> QED
  BY <1>1, <1>2, <1>3, <1>4, <1>5, AgentsMove

LEMMA RespawnKeepsSetup ==
  ASSUME SetupInv, serviceRespawns
  PROVE  SetupInv'
<1>0. SetupTyped /\ AgentTracked /\ NewPlaced /\ NewAgentRuns /\ agentProc \in [Starters -> AgentProcs]
  BY DEF SetupInv, SetupTyped
<1>1. /\ UNCHANGED <<agentDir, previousDir, installMeta, setup, setupSaid, knownId, cutShort, strayAgents,
                     agentUnit, pidFile, cronLine, setups>>
      /\ agentUnit = "started" /\ agentReady' = "none"
  BY DEF serviceRespawns, dirVars, setupHistory
<1>2. PICK fresh \in AgentProcs : /\ fresh = AgentStarted /\ fresh.release = agentDir.release /\ fresh.id = agentDir.id
  BY <1>0, StartedAgent DEF serviceRespawns
<1>3. agentProc' = [agentProc EXCEPT !["service"] = fresh]
  BY <1>2 DEF serviceRespawns
<1>4. agentProc' \in [Starters -> AgentProcs] /\ AgentsRunning' \subseteq AgentsRunning \cup {"service"}
  BY <1>0, <1>3 DEF AgentsRunning, Starters
<1>5. AgentTracked'
  BY <1>0, <1>1, <1>4 DEF AgentTracked
<1>6. NewAgentRuns'
  BY <1>0, <1>1, <1>2, <1>3 DEF NewPlaced, NewAgentRuns, AgentsRunning
<1>7. /\ agentUnit' \in {"absent", "stopped", "started"} /\ pidFile' \in BOOLEAN /\ cronLine' \in BOOLEAN
      /\ setups' \in Nat /\ agentReady' \in Versions
  BY <1>0, <1>1 DEF SetupTyped, Versions
<1> QED
  BY <1>1, <1>4, <1>5, <1>6, <1>7, AgentsMove

(* A reboot starts the service's Agent; a crontab line would make it stray.   *)
LEMMA RebootKeepsSetup ==
  ASSUME SetupInv, hostReboots
  PROVE  SetupInv'
<1>0. SetupTyped /\ AgentTracked /\ "none" \in Versions
  BY DEF SetupInv, SetupTyped, Versions
<1>1. PICK fresh \in AgentProcs : fresh = AgentStarted
  BY <1>0, StartedAgent
<1>2. /\ agentProc' = [s \in Starters |->
             IF (s = "service" /\ agentUnit # "absent") \/ (s = "loose" /\ cronLine) THEN fresh ELSE NoProc]
      /\ agentUnit' = (IF agentUnit = "absent" THEN agentUnit ELSE "started")
      /\ pidFile' = FALSE /\ strayAgents' = (strayAgents \/ cronLine) /\ agentReady' \in {"none", agentReady}
      /\ UNCHANGED <<agentDir, previousDir, installMeta, cronLine, knownId>>
  BY <1>1 DEF hostReboots, dirVars
<1>3. agentProc' \in [Starters -> AgentProcs]
  BY <1>1, <1>2, NoneFields
<1>4. AgentTracked'
  BY <1>0, <1>2 DEF AgentTracked, AgentsRunning, Starters
<1>5. CASE setup.at = "idle" /\ UNCHANGED <<setup, setupSaid, setups, cutShort>>
  <2>1. SetupTyped'
    BY <1>0, <1>2, <1>3, <1>5 DEF SetupTyped
  <2>2. IdentityHeld' /\ FoundHeld' /\ NewPlaced' /\ InstallKept' /\ NewAgentRuns'
    BY <1>2, <1>5 DEF SetupInv, IdentityHeld, FoundHeld, NewPlaced, InstallKept, NewAgentRuns
  <2> QED
    BY <1>4, <2>1, <2>2 DEF SetupInv
<1>6. CASE setup.at # "idle" /\ SetupEnds("killed") /\ cutShort' = TRUE
  <2>1. SetupTyped'
    BY <1>0, <1>2, <1>3, <1>6, SetupEndsFields DEF SetupTyped
  <2>2. IdentityHeld' /\ FoundHeld' /\ NewPlaced' /\ InstallKept' /\ NewAgentRuns'
    BY <1>2, <1>6, SetupEndsFields DEF SetupInv, IdentityHeld, FoundHeld, NewPlaced, InstallKept, NewAgentRuns
  <2> QED
    BY <1>4, <2>1, <2>2 DEF SetupInv
<1> QED
  BY <1>5, <1>6 DEF hostReboots, AtSetup

LEMMA RcKeepsSetup ==
  ASSUME SetupInv, rcStop \/ rcRestart
  PROVE  SetupInv'
<1>0. SetupTyped /\ AgentTracked /\ setup.at = "idle"
  BY DEF SetupInv, rcStop, rcRestart, AtSetup
<1>1. /\ UNCHANGED <<agentDir, previousDir, installMeta, setup, setupSaid, knownId, cutShort, strayAgents, cronLine>>
      /\ setups' = setups + 1
  BY DEF rcStop, rcRestart, dirVars, setupHistory
<1>2. NewAgentRuns' /\ cronLine' \in BOOLEAN /\ setups' \in Nat
  BY <1>0, <1>1 DEF NewAgentRuns, SetupTyped
<1>3. CASE rcStop
  <2>1. /\ agentProc' = AgentsStopped /\ agentReady' = agentReady
        /\ agentUnit' = IF installMeta.kind = "service" /\ agentUnit = "started" THEN "stopped" ELSE agentUnit
        /\ pidFile' = IF installMeta.kind = "nohup" THEN FALSE ELSE pidFile
    BY <1>3 DEF rcStop
  <2>2. /\ agentProc' \in [Starters -> AgentProcs] /\ agentUnit' \in {"absent", "stopped", "started"}
        /\ pidFile' \in BOOLEAN /\ agentReady' \in Versions
    BY <1>0, <2>1, StoppedAgents DEF SetupTyped
  <2>3. AgentTracked'
    BY <1>0, <1>1, <2>1, StoppedAgents DEF AgentTracked, AgentsRunning, Starters
  <2> QED
    BY <1>1, <1>2, <2>2, <2>3, AgentsMove
<1>4. CASE rcRestart
  <2>1. AgentStarts(installMeta.kind)
    BY <1>4 DEF rcRestart
  <2>2. /\ agentProc' \in [Starters -> AgentProcs] /\ agentUnit' \in {"absent", "stopped", "started"}
        /\ pidFile' \in BOOLEAN /\ agentReady' \in Versions /\ AgentTracked'
    BY <1>1, <2>1, StartKeepsAgents DEF Versions
  <2> QED
    BY <1>1, <1>2, <2>2, AgentsMove
<1> QED
  BY <1>3, <1>4

LEMMA UninstallKeepsSetup ==
  ASSUME SetupInv, rcUninstall
  PROVE  SetupInv'
<1>0. SetupTyped /\ AgentTracked /\ setup.at = "idle" /\ "none" \in Versions
  BY DEF SetupInv, rcUninstall, AtSetup, Versions
<1>1. /\ agentProc' = AgentsStopped /\ agentUnit' = "absent" /\ cronLine' = FALSE /\ pidFile' = FALSE
      /\ agentDir' = NoInstall /\ previousDir' = NoInstall /\ installMeta' = NoMeta /\ agentReady' = "none"
      /\ knownId' = 0 /\ setupSaid' = [what |-> "none", run |-> NoSetup] /\ setups' = setups + 1
      /\ UNCHANGED <<setup, cutShort, strayAgents>>
  BY DEF rcUninstall
<1>2. setupSaid'.what = "none"
  BY <1>1
<1>3. SetupTyped'
  <2>1. agentProc' \in [Starters -> AgentProcs]
    BY <1>0, <1>1, StoppedAgents
  <2>2. setups' \in Nat /\ setup' \in SetupRuns /\ cutShort' \in BOOLEAN /\ strayAgents' \in BOOLEAN
    BY <1>0, <1>1 DEF SetupTyped
  <2> QED
    BY <1>0, <1>1, <1>2, <2>1, <2>2, NoneFields DEF SetupTyped
<1>4. IdentityHeld' /\ NewPlaced' /\ InstallKept' /\ NewAgentRuns'
  BY <1>0, <1>1, <1>2 DEF IdentityHeld, NewPlaced, InstallKept, NewAgentRuns
<1>5. FoundHeld'
  BY <1>0, <1>1 DEF SetupInv, FoundHeld
<1>6. ~strayAgents => AgentsRunning' = {}
  <2>1. /\ \A s \in Starters : agentProc'[s] \in {agentProc[s], NoProc}
        /\ installMeta.kind = "service" => agentProc'["service"] = NoProc
        /\ installMeta.kind = "nohup" /\ pidFile => agentProc'["nohup"] = NoProc
    BY <1>0, <1>1, StoppedAgents
  <2>2. installMeta.kind \in {"none", "service", "nohup"}
    BY <1>0 DEF SetupTyped, SetupKinds
  <2> QED
    BY <1>0, <2>1, <2>2 DEF AgentTracked, AgentsRunning, Starters
<1>7. AgentTracked'
  BY <1>1, <1>6 DEF AgentTracked
<1> QED
  BY <1>3, <1>4, <1>5, <1>7 DEF SetupInv

LEMMA SetupStep ==
  ASSUME SetupInv, [SetupNext]_setupVars
  PROVE  SetupInv'
<1>1. CASE UNCHANGED setupVars
  BY <1>1 DEF setupVars, SetupInv, SetupTyped, IdentityHeld, FoundHeld, NewPlaced, AgentTracked, AgentsRunning,
              NewAgentRuns, InstallKept
<1>2. CASE SetupNext
  BY <1>2, BeginKeepsSetup, StopKeepsSetup, ClearKeepsSetup, KeepKeepsSetup, PlaceKeepsSetup, RegisterKeepsSetup,
     ConfigureKeepsSetup, StartKeepsSetup, AwaitKeepsSetup, UndoDirKeepsSetup, UndoMetaKeepsSetup,
     UndoStartKeepsSetup, KillKeepsSetup, AgentKeepsSetup, RespawnKeepsSetup, RebootKeepsSetup, RcKeepsSetup,
     UninstallKeepsSetup DEF SetupNext
<1> QED
  BY <1>1, <1>2

LEMMA SetupInvIsSafe ==
  ASSUME SetupInv
  PROVE  SetupSafe
<1>1. ASSUME ~strayAgents
      PROVE  Cardinality(AgentsRunning) <= 1
  <2>1. AgentsRunning \subseteq {installMeta.kind}
    BY <1>1 DEF SetupInv, AgentTracked
  <2>2. IsFiniteSet({installMeta.kind}) /\ Cardinality({installMeta.kind}) = 1
    BY FS_Singleton
  <2> QED
    BY <2>1, <2>2, FS_Subset
<1> QED
  BY <1>1 DEF SetupInv, SetupSafe, AgentAlone

(* A Worker host keeps the identity of its last registration and, while every *)
(* session offers one kind of service and no crontab line meets a reboot, one *)
(* Agent; a failed update leaves the release it found under its own version   *)
(* (installScript.ts, worker_install).                                        *)
THEOREM WorkerHostsStaySafe == SetupSpec => []SetupSafe
  BY SetupInitInv, SetupStep, SetupInvIsSafe, PTL DEF SetupSpec

(* The step that says "connected" is agentConnected.                          *)
LEMMA StepConnectsNew ==
  ASSUME SetupInv, [SetupNext]_setupVars
  PROVE  ConnectedIsNew
<1>1. SUFFICES ASSUME setupSaid'.what = "connected", setupSaid.what # "connected", ~strayAgents
               PROVE  /\ agentDir.release = setup.pin /\ installMeta.version = setup.pin /\ setup.pin \in SoundReleases
                      /\ \A s \in AgentsRunning : agentProc[s].release = setup.pin /\ agentProc[s].id = agentDir.id
  BY DEF ConnectedIsNew
<1>2. \A what : SetupEnds(what) => setupSaid'.what = what
  BY SetupEndsFields
<1>3. setupSaid' # setupSaid /\ setupSaid' # [what |-> "none", run |-> NoSetup]
  BY <1>1
<1>4. agentConnected
  <2>1. ~\E mode \in {"fresh", "update"}, pin \in AgentReleases : beginSetup(mode, pin)
    BY <1>3 DEF beginSetup
  <2>2. ~(stopService \/ clearPrevious \/ keepPrevious \/ dropRejected \/ restorePrevious \/ restoreMeta)
    BY <1>3 DEF stopService, clearPrevious, keepPrevious, dropRejected, restorePrevious, restoreMeta, SetupGoes
  <2>3. ~(placeNew \/ registerMachine \/ startService)
    BY <1>1, <1>2, <1>3 DEF placeNew, registerMachine, startService, SetupGoes
  <2>4. ~(connectTimesOut \/ restartPrevious \/ setupKilled \/ hostReboots)
    BY <1>1, <1>2, <1>3 DEF connectTimesOut, restartPrevious, setupKilled, hostReboots, SetupGoes
  <2>5. ~\E kind \in ServiceKinds : configure(kind)
    BY <1>3 DEF configure
  <2>6. ~\E s \in Starters : publishReadiness(s) \/ agentProcDies(s)
    BY <1>3 DEF publishReadiness, agentProcDies
  <2>7. ~(serviceRespawns \/ rcStop \/ rcRestart \/ rcUninstall)
    BY <1>3 DEF serviceRespawns, rcStop, rcRestart, rcUninstall
  <2>8. SetupNext
    BY <1>3 DEF setupVars
  <2> QED
    BY <2>1, <2>2, <2>3, <2>4, <2>5, <2>6, <2>7, <2>8 DEF SetupNext
<1>5. setup.at = "await" /\ agentReady = setup.pin /\ setup.pin # "none"
  BY <1>4, WorkerInstallAssumption DEF agentConnected, AtSetup, SetupInv, SetupTyped
<1> QED
  BY <1>1, <1>5 DEF SetupInv, NewPlaced, NewAgentRuns

(* "Connected" is said of the release just installed: no step says it while   *)
(* an Agent from before still runs (installScript.ts, wait_for_agent).        *)
THEOREM ConnectedMeansNew == SetupSpec => [][ConnectedIsNew]_setupVars
<1>1. SetupInv /\ [SetupNext]_setupVars => [ConnectedIsNew]_setupVars
  BY StepConnectsNew
<1> QED
  BY <1>1, SetupInitInv, SetupStep, PTL DEF SetupSpec

-----------------------------------------------------------------------------
(* Smallest and largest numbers, and ranks.                                   *)

(* A set of numbers that is not empty has a smallest.                         *)
LEMMA Smallest ==
  ASSUME NEW S, S \subseteq Nat, S # {}
  PROVE  Min(S) \in S /\ \A y \in S : Min(S) <= y
<1>1. PICK x \in S : \A y \in S : ~(<<y, x>> \in OpToRel(<, Nat))
  BY NatLessThanWellFounded, WFMin, Zenon
<1>2. x \in Nat /\ \A y \in S : y \in Nat /\ ~(y < x)
  BY <1>1 DEF OpToRel
<1>3. \E z \in S : \A y \in S : z <= y
  BY <1>2
<1> QED
  BY <1>3 DEF Min

(* One that is bounded has a largest.                                         *)
LEMMA Largest ==
  ASSUME NEW S, NEW n \in Nat, S \subseteq 0..n, S # {}
  PROVE  Max(S) \in S /\ \A y \in S : Max(S) >= y
<1> DEFINE T == {n - y : y \in S}
<1>0. PICK s \in S : TRUE
  OBVIOUS
<1>1. T \subseteq Nat /\ T # {}
  <2>1. \A y \in S : y \in Nat /\ n - y \in Nat
    OBVIOUS
  <2>2. n - s \in T
    OBVIOUS
  <2> QED
    BY <2>1, <2>2
<1> HIDE DEF T
<1>2. Min(T) \in T /\ \A y \in T : Min(T) <= y
  BY <1>1, Smallest
<1>3. PICK x \in S : Min(T) = n - x
  BY <1>2 DEF T
<1>4. \A y \in S : n - x <= n - y
  BY <1>2, <1>3 DEF T
<1>5. \A y \in S : x >= y
  BY <1>4
<1> QED
  BY <1>5 DEF Max

(* Of the elements of a finite set, taken by rank, either a full M are taken  *)
(* or all.                                                                    *)
Rank(R, key, g) == Cardinality({h \in R : key[h] < key[g]})
Lowest(R, key, M) == {g \in R : Rank(R, key, g) < M}

LEMMA LowestAreAllOrFull ==
  ASSUME NEW R, IsFiniteSet(R), NEW n \in Nat, NEW key \in [R -> 0..n],
         \A g, h \in R : key[g] = key[h] => g = h,
         NEW M \in Nat \ {0}, Cardinality(Lowest(R, key, M)) # M
  PROVE  Lowest(R, key, M) = R
<1> DEFINE L == Lowest(R, key, M)
           Below(g) == {h \in R : key[h] < key[g]}
<1>0. L \subseteq R /\ IsFiniteSet(L) /\ Cardinality(L) \in Nat
  BY FS_Subset, FS_CardinalityType DEF Lowest
<1>1. \A g \in R : IsFiniteSet(Below(g)) /\ Cardinality(Below(g)) \in Nat
  BY FS_Subset, FS_CardinalityType
<1> SUFFICES ASSUME L # R PROVE FALSE
  OBVIOUS
<1>2. Cardinality(L) >= M
  <2> DEFINE K == {key[g] : g \in R \ L}
  <2>1. K \subseteq Nat /\ K # {}
    BY <1>0
  <2>a. Min(K) \in K /\ \A k \in K : Min(K) <= k
    BY <2>1, Smallest
  <2>2. PICK g \in R \ L : Min(K) = key[g]
    BY <2>a
  <2>3. \A h \in R \ L : key[g] <= key[h]
    BY <2>a, <2>2
  <2>4. Below(g) \subseteq L
    BY <2>3, <1>0
  <2>5. Cardinality(Below(g)) <= Cardinality(L)
    BY <1>0, <2>4, FS_Subset
  <2>6. ~(Cardinality(Below(g)) < M)
    BY <2>2 DEF Lowest, Rank
  <2>7. g \in R
    OBVIOUS
  <2>8. Cardinality(Below(g)) \in Nat
    BY <1>1, <2>7
  <2> HIDE DEF Below
  <2> QED
    BY <1>0, <2>5, <2>6, <2>8
<1>3. Cardinality(L) <= M
  <2> DEFINE K == {key[g] : g \in L}
  <2>0. L # {}
    BY <1>2, FS_EmptySet
  <2>1. K \subseteq 0..n /\ K # {}
    BY <1>0, <2>0
  <2>a. Max(K) \in K /\ \A k \in K : Max(K) >= k
    BY <2>1, Largest
  <2>2. PICK g \in L : Max(K) = key[g]
    BY <2>a
  <2>3. \A h \in L : key[h] <= key[g]
    BY <2>a, <2>2
  <2>4. L \subseteq Below(g) \cup {g}
    BY <1>0, <2>3
  <2>5. g \notin Below(g) /\ g \in R
    BY <1>0
  <2>6. IsFiniteSet(Below(g) \cup {g}) /\ Cardinality(Below(g) \cup {g}) = Cardinality(Below(g)) + 1
    BY <1>1, <2>5, FS_AddElement
  <2>7. Cardinality(L) <= Cardinality(Below(g)) + 1
    BY <2>4, <2>6, FS_Subset
  <2>8. Cardinality(Below(g)) < M
    BY <2>2 DEF Lowest, Rank
  <2>9. Cardinality(Below(g)) \in Nat
    BY <1>1, <2>5
  <2> HIDE DEF Below
  <2> QED
    BY <1>0, <2>7, <2>8, <2>9
<1> QED
  BY <1>0, <1>2, <1>3

-----------------------------------------------------------------------------
(* Webhook deliveries and their recovery (WebhookRecovery).                   *)

Sent == [guid : Guids \cup {NoRow}, at : Nat, ok : BOOLEAN]
Runs == [at : {"listing", "listed", "missing", "asking"}, now : Nat, from : Nat, hi : Nat, lo : Nat,
         todo : SUBSET Guids, cut : BOOLEAN]

RecoveryTyped ==
  /\ hour \in Nat \ {0} /\ log \in Seq(Sent) /\ inflight \subseteq Guids
  /\ row \in [Guids -> DeliveryRows \cup {NoRow}]
  /\ rec \in [Guids -> RecoveryRows \cup {NoRow}]
  /\ applied \in [Guids -> Nat] /\ asked \in [Guids -> Nat]
  /\ scan \in [mark : Nat, next : Nat, failures : Nat]
  /\ run = NoRecovery \/ run \in Runs

(* GitHub's log is in the order of time, and a run is over within its hour.   *)
LogOrdered ==
  /\ \A i \in DOMAIN log : log[i].at <= hour
  /\ \A i, j \in DOMAIN log : i <= j => log[i].at <= log[j].at
  /\ scan.mark < hour
  /\ run # NoRecovery =>
       /\ run.now = hour /\ run.from = ClampWatermark(scan.mark, hour)
       /\ run.hi <= Len(log) /\ run.lo > 0
       /\ \A i \in DOMAIN log : i > run.hi => log[i].at = hour

Tried(g, i) == i \in DOMAIN log /\ log[i].guid = g
TriedBy(g, t) == (\E i \in DOMAIN log : Tried(g, i)) /\ \A i \in DOMAIN log : Tried(g, i) => log[i].at <= t
Fresh(g) == \E i \in DOMAIN log : Tried(g, i) /\ hour <= log[i].at + MaxAge
Old(g) == (\E i \in DOMAIN log : Tried(g, i)) /\ \A i \in DOMAIN log : Tried(g, i) => log[i].at + Retention <= hour
InHand(g) == g \in inflight \/ (run.at \in {"missing", "asking"} /\ g \in run.todo)
BeingAsked(g) == run.at = "asking" /\ g \in run.todo

(* What is asked for again is recent; a row is newer than every try of its    *)
(* delivery, and is forgotten only when none can be asked for any more.       *)
DeliveryRowsKept ==
  \A g \in Guids :
    /\ row[g] # NoRow => row[g].at <= hour /\ TriedBy(g, row[g].at)
    /\ InHand(g) => Fresh(g) /\ (row[g] # NoRow => row[g].at = hour)
    /\ row[g] = NoRow /\ applied[g] > 0 => Old(g)
    /\ applied[g] <= 1
    /\ row[g] # NoRow /\ row[g].status = "pending" => applied[g] = 0

(* The same of recovery rows, whose attempts count every request.             *)
RequestsKept ==
  \A g \in Guids :
    /\ rec[g] # NoRow =>
         /\ rec[g].last <= hour /\ TriedBy(g, rec[g].last)
         /\ asked[g] <= rec[g].attempts /\ rec[g].attempts <= MaxRequests
    /\ BeingAsked(g) => rec[g] # NoRow /\ rec[g].state = "requested" /\ asked[g] < rec[g].attempts
    /\ BeingAsked(g) \/ g \in inflight => rec[g] # NoRow /\ rec[g].last = hour
    /\ rec[g] = NoRow /\ asked[g] > 0 => Old(g)
    /\ asked[g] <= MaxRequests

(* A lost delivery nobody has asked for is ahead of the watermark, and a run  *)
(* that is not cut has it in its listing, then in its hands.                  *)
Waiting(g) ==
  row[g] = NoRow /\ rec[g] = NoRow /\ Fresh(g) /\ \A i \in DOMAIN log : Tried(g, i) => ~log[i].ok
Listed(g) == \A i \in DOMAIN log : Tried(g, i) => i <= run.hi
LostKept ==
  \A g \in Guids :
    Waiting(g) =>
      /\ \E i \in DOMAIN log : Tried(g, i) /\ log[i].at > scan.mark
      /\ run # NoRecovery /\ ~run.cut /\ Listed(g) =>
           /\ run.at = "listed" => \E i \in DOMAIN log : /\ Tried(g, i) /\ i >= run.lo
                                                         /\ log[i].at > run.from /\ hour <= log[i].at + MaxAge
           /\ run.at = "missing" => g \in run.todo
           /\ run.at # "asking"

DeliveryInv == RecoveryTyped /\ LogOrdered /\ DeliveryRowsKept /\ RequestsKept /\ LostKept

LEMMA Lengths ==
  /\ Overlap \in Nat /\ Overlap > 0 /\ Seed \in Nat /\ Seed > 0 /\ PerPage \in Nat /\ PerPage > 0
  /\ MaxPerRun \in Nat \ {0} /\ MaxPages \in Nat \ {0} /\ MaxRequests \in Nat /\ MaxRequests > 0
  /\ MaxAge \in Nat /\ Window \in Nat /\ Retention \in Nat /\ MaxAge < Window /\ Window < Retention
  /\ NoRow \notin Guids /\ NoRow \notin DeliveryRows /\ NoRow \notin RecoveryRows
  BY RecoveryAssumption

LEMMA RunTyped ==
  ASSUME RecoveryTyped
  PROVE  /\ run = NoRecovery <=> run.at = "idle"
         /\ run # NoRecovery => run \in Runs
  BY DEF RecoveryTyped, NoRecovery, Runs

LEMMA LogTyped ==
  ASSUME RecoveryTyped
  PROVE  /\ DOMAIN log = 1..Len(log) /\ Len(log) \in Nat
         /\ \A i \in DOMAIN log : log[i] \in Sent /\ log[i].at \in Nat
<1>1. DOMAIN log = 1..Len(log) /\ Len(log) \in Nat /\ \A i \in DOMAIN log : log[i] \in Sent
  BY DEF RecoveryTyped
<1> QED
  BY <1>1 DEF Sent

LEMMA RecoveryInitInv == RecoveryInit => DeliveryInv
<1> SUFFICES ASSUME RecoveryInit PROVE DeliveryInv
  OBVIOUS
<1>1. hour \in Nat \ {0} /\ scan.mark \in Nat /\ scan.mark < hour /\ run.at = "idle" /\ run = NoRecovery
  BY Lengths DEF RecoveryInit, Monus, NoRecovery
<1>2. log = <<>> /\ DOMAIN log = {} /\ Len(log) = 0 /\ log \in Seq(Sent)
  BY DEF RecoveryInit
<1>3. RecoveryTyped
  BY <1>1, <1>2 DEF RecoveryTyped, RecoveryInit
<1>4. LogOrdered
  BY <1>1, <1>2 DEF LogOrdered
<1>5. DeliveryRowsKept /\ RequestsKept
  BY <1>1, <1>2, RecoveryAssumption DEF DeliveryRowsKept, RequestsKept, RecoveryInit, InHand, BeingAsked
<1>6. LostKept
  BY <1>1, <1>2 DEF LostKept, Waiting, Fresh
<1> QED
  BY <1>3, <1>4, <1>5, <1>6 DEF DeliveryInv

-----------------------------------------------------------------------------
(* A delivery GitHub makes.                                                   *)
MayTry(g) == g \in inflight \/ \A i \in DOMAIN log : log[i].guid # g

LEMMA Appended ==
  ASSUME RecoveryTyped, NEW e \in Sent, log' = Append(log, e)
  PROVE  /\ DOMAIN log = 1..Len(log) /\ Len(log) \in Nat
         /\ DOMAIN log' = 1..(Len(log) + 1) /\ Len(log') = Len(log) + 1 /\ log' \in Seq(Sent)
         /\ \A i \in 1..Len(log) : log'[i] = log[i] /\ log[i] \in Sent
         /\ log'[Len(log) + 1] = e
  BY DEF RecoveryTyped

LEMMA TryTyped ==
  ASSUME DeliveryInv, NEW e \in Sent, e.at = hour, log' = Append(log, e),
         UNCHANGED <<hour, scan, run, applied, rec, asked>>, inflight' \subseteq inflight,
         row' \in [Guids -> DeliveryRows \cup {NoRow}]
  PROVE  RecoveryTyped' /\ LogOrdered'
<1>1. RecoveryTyped /\ LogOrdered
  BY DEF DeliveryInv
<1>2. /\ DOMAIN log = 1..Len(log) /\ Len(log) \in Nat
      /\ DOMAIN log' = 1..(Len(log) + 1) /\ Len(log') = Len(log) + 1 /\ log' \in Seq(Sent)
      /\ \A i \in 1..Len(log) : log'[i] = log[i] /\ log[i] \in Sent
      /\ log'[Len(log) + 1] = e
  BY <1>1, Appended
<1>3. RecoveryTyped'
  BY <1>1, <1>2 DEF RecoveryTyped
<1>4. hour \in Nat /\ scan.mark \in Nat /\ \A i \in 1..Len(log) : log[i].at \in Nat
  BY <1>1, <1>2 DEF RecoveryTyped, Sent
<1>5. \A i \in DOMAIN log' : log'[i].at <= hour
  BY <1>1, <1>2, <1>4 DEF LogOrdered
<1>6. \A i, j \in DOMAIN log' : i <= j => log'[i].at <= log'[j].at
  BY <1>1, <1>2, <1>4, <1>5 DEF LogOrdered
<1>7. ASSUME run # NoRecovery
      PROVE  /\ run.now = hour /\ run.from = ClampWatermark(scan.mark, hour)
             /\ run.hi <= Len(log') /\ run.lo > 0
             /\ \A i \in DOMAIN log' : i > run.hi => log'[i].at = hour
  <2>1. run.hi \in Nat /\ run.hi <= Len(log)
    BY <1>1, <1>7 DEF LogOrdered, RecoveryTyped, Runs
  <2> QED
    BY <1>1, <1>2, <1>4, <1>7, <2>1 DEF LogOrdered
<1>8. LogOrdered'
  BY <1>1, <1>5, <1>6, <1>7 DEF LogOrdered, ClampWatermark, MinOf, MaxOf, Monus
<1> QED
  BY <1>3, <1>8

(* Nothing changes for the deliveries the entry is not about.                 *)
LEMMA OtherTries ==
  ASSUME DeliveryInv, NEW e \in Sent, log' = Append(log, e), NEW g, g # e.guid
  PROVE  \A i : /\ Tried(g, i)' <=> Tried(g, i)
                /\ Tried(g, i) => log'[i] = log[i] /\ i \in DOMAIN log /\ i \in DOMAIN log'
<1>1. RecoveryTyped
  BY DEF DeliveryInv
<1>2. /\ DOMAIN log = 1..Len(log) /\ Len(log) \in Nat
      /\ DOMAIN log' = 1..(Len(log) + 1)
      /\ \A i \in 1..Len(log) : log'[i] = log[i] /\ log[i] \in Sent
      /\ log'[Len(log) + 1] = e
  BY <1>1, Appended
<1> QED
  BY <1>2 DEF Tried

LEMMA OthersKept ==
  ASSUME DeliveryInv, NEW e \in Sent, log' = Append(log, e),
         UNCHANGED <<hour, scan, run, applied, rec, asked>>,
         NEW g \in Guids, g # e.guid, row'[g] = row[g], g \in inflight' => g \in inflight
  PROVE  /\ \A t : TriedBy(g, t) => TriedBy(g, t)'
         /\ Fresh(g) <=> Fresh(g)'
         /\ Old(g) => Old(g)'
         /\ Waiting(g)' => Waiting(g)
         /\ Listed(g)' => Listed(g)
  BY OtherTries DEF TriedBy, Fresh, Old, Waiting, Listed

LEMMA TryKeeps ==
  ASSUME DeliveryInv, NEW e \in Sent, e.at = hour, log' = Append(log, e), e.guid \in Guids => MayTry(e.guid),
         UNCHANGED <<hour, scan, run, applied, rec, asked>>, inflight' \subseteq inflight,
         \/ UNCHANGED row
         \/ e.guid \in Guids /\ row[e.guid] = NoRow
            /\ row' = [row EXCEPT ![e.guid] = [status |-> "pending", at |-> hour, tries |-> 0]]
  PROVE  DeliveryInv'
<1> DEFINE d == e.guid
<1>1. RecoveryTyped /\ LogOrdered /\ DeliveryRowsKept /\ RequestsKept /\ LostKept
  BY DEF DeliveryInv
<1>2. /\ DOMAIN log = 1..Len(log) /\ Len(log) \in Nat
      /\ DOMAIN log' = 1..(Len(log) + 1)
      /\ \A i \in 1..Len(log) : log'[i] = log[i] /\ log[i] \in Sent
      /\ log'[Len(log) + 1] = e
  BY <1>1, Appended
<1>n. PICK n : n = Len(log) + 1
  OBVIOUS
<1>3. /\ hour \in Nat \ {0} /\ scan.mark \in Nat /\ MaxAge \in Nat /\ Retention \in Nat /\ MaxAge < Retention
      /\ \A i \in DOMAIN log : log[i].at \in Nat /\ log[i].at <= hour
  BY <1>1, <1>2, Lengths DEF RecoveryTyped, Sent, LogOrdered
<1>r. [status |-> "pending", at |-> hour, tries |-> 0] \in DeliveryRows
  BY <1>3 DEF DeliveryRows
<1>4. row' \in [Guids -> DeliveryRows \cup {NoRow}]
  BY <1>1, <1>r DEF RecoveryTyped
<1>5. RecoveryTyped' /\ LogOrdered'
  BY <1>4, TryTyped
<1>6. \A g \in Guids : g # d => row'[g] = row[g]
  BY <1>1 DEF RecoveryTyped
<1>7. ASSUME NEW g \in Guids, g # d
      PROVE  /\ \A t : TriedBy(g, t) => TriedBy(g, t)'
             /\ Fresh(g) <=> Fresh(g)'
             /\ Old(g) => Old(g)'
             /\ Waiting(g)' => Waiting(g)
             /\ Listed(g)' => Listed(g)
  BY <1>6, <1>7, OthersKept
<1>8. \A g \in Guids : (InHand(g)' => InHand(g)) /\ (BeingAsked(g)' => BeingAsked(g))
  BY DEF InHand, BeingAsked
<1>9. ASSUME d \in Guids
      PROVE  /\ TriedBy(d, hour)' /\ Fresh(d)'
             /\ \A t : TriedBy(d, t) => d \in inflight
             /\ ~Old(d)
  <2>1. Tried(d, n)' /\ n \in DOMAIN log' /\ log'[n].at = hour
    BY <1>2, <1>n DEF Tried
  <2>2. \A i \in DOMAIN log' : log'[i].at <= hour
    BY <1>5 DEF LogOrdered
  <2>3. TriedBy(d, hour)' /\ Fresh(d)'
    BY <1>2, <1>3, <2>1, <2>2 DEF TriedBy, Fresh
  <2>4. \A t : TriedBy(d, t) => d \in inflight
    BY <1>9 DEF TriedBy, Tried, MayTry
  <2>5. ASSUME Old(d) PROVE FALSE
    <3>1. d \in inflight
      BY <1>9, <2>5 DEF Old, Tried, MayTry
    <3>2. Fresh(d)
      BY <1>1, <1>9, <3>1 DEF DeliveryRowsKept, InHand
    <3> QED
      BY <1>3, <2>5, <3>2 DEF Old, Fresh
  <2> QED
    BY <2>3, <2>4, <2>5
<1>10. DeliveryRowsKept'
  <2> SUFFICES ASSUME NEW g \in Guids
               PROVE  /\ row'[g] # NoRow => row'[g].at <= hour' /\ TriedBy(g, row[g].at)'
                      /\ InHand(g)' => Fresh(g)' /\ (row'[g] # NoRow => row'[g].at = hour')
                      /\ row'[g] = NoRow /\ applied'[g] > 0 => Old(g)'
                      /\ applied'[g] <= 1
                      /\ row'[g] # NoRow /\ row'[g].status = "pending" => applied'[g] = 0
    BY DEF DeliveryRowsKept
  <2>1. CASE g # d
    BY <1>1, <1>6, <1>7, <1>8, <2>1 DEF DeliveryRowsKept
  <2>2. CASE g = d /\ UNCHANGED row
    <3>1. row[g] # NoRow => row[g].at = hour
      BY <1>1, <1>9, <2>2 DEF DeliveryRowsKept, InHand
    <3> QED
      BY <1>1, <1>3, <1>9, <2>2, <3>1 DEF DeliveryRowsKept
  <2>3. CASE g = d /\ row[g] = NoRow /\ row' = [row EXCEPT ![d] = [status |-> "pending", at |-> hour, tries |-> 0]]
    <3>1. row'[g] = [status |-> "pending", at |-> hour, tries |-> 0] /\ row'[g] # NoRow
      BY <1>1, <1>r, <2>3, Lengths DEF RecoveryTyped
    <3>2. applied[g] \in Nat /\ ~(applied[g] > 0)
      BY <1>1, <1>9, <2>3 DEF DeliveryRowsKept, RecoveryTyped
    <3> QED
      BY <1>3, <1>9, <2>3, <3>1, <3>2
  <2> QED
    BY <2>1, <2>2, <2>3
<1>11. RequestsKept'
  <2> SUFFICES ASSUME NEW g \in Guids
               PROVE  /\ rec[g] # NoRow =>
                           /\ rec[g].last <= hour /\ TriedBy(g, rec[g].last)'
                           /\ asked[g] <= rec[g].attempts /\ rec[g].attempts <= MaxRequests
                      /\ BeingAsked(g)' => rec[g] # NoRow /\ rec[g].state = "requested" /\ asked[g] < rec[g].attempts
                      /\ BeingAsked(g)' \/ g \in inflight' => rec[g] # NoRow /\ rec[g].last = hour
                      /\ rec[g] = NoRow /\ asked[g] > 0 => Old(g)'
                      /\ asked[g] <= MaxRequests
    BY DEF RequestsKept
  <2>1. CASE g # d
    BY <1>1, <1>7, <1>8, <2>1 DEF RequestsKept
  <2>2. CASE g = d
    <3>1. rec[g] # NoRow => rec[g].last = hour
      BY <1>1, <1>9, <2>2 DEF RequestsKept
    <3> QED
      BY <1>1, <1>8, <1>9, <2>2, <3>1 DEF RequestsKept
  <2> QED
    BY <2>1, <2>2
<1>12. LostKept'
  <2> SUFFICES ASSUME NEW g \in Guids, Waiting(g)'
               PROVE  /\ \E i \in DOMAIN log' : Tried(g, i)' /\ log'[i].at > scan.mark
                      /\ run # NoRecovery /\ ~run.cut /\ Listed(g)' =>
                           /\ run.at = "listed" =>
                                \E i \in DOMAIN log' : /\ Tried(g, i)' /\ i >= run.lo
                                                       /\ log'[i].at > run.from /\ hour <= log'[i].at + MaxAge
                           /\ run.at = "missing" => g \in run.todo
                           /\ run.at # "asking"
    BY DEF LostKept
  <2>1. CASE g # d
    <3>1. Waiting(g) /\ (Listed(g)' => Listed(g))
      BY <1>7, <2>1
    <3>2. \A i : Tried(g, i) => Tried(g, i)' /\ log'[i] = log[i] /\ i \in DOMAIN log'
      BY <2>1, OtherTries
    <3> QED
      BY <1>1, <3>1, <3>2 DEF LostKept
  <2>2. CASE g = d
    <3>1. Tried(g, n)' /\ n \in DOMAIN log'
      BY <1>2, <1>n, <2>2 DEF Tried
    <3>2. log'[n].at > scan.mark
      BY <1>1, <1>2, <1>n, <1>3 DEF LogOrdered
    <3>3. run # NoRecovery => ~Listed(g)'
      <4> SUFFICES ASSUME run # NoRecovery PROVE ~Listed(g)'
        OBVIOUS
      <4>1. run.hi \in Nat /\ run.hi <= Len(log)
        BY <1>1 DEF LogOrdered, RecoveryTyped, Runs
      <4> QED
        BY <1>2, <1>n, <3>1, <4>1 DEF Listed
    <3> QED
      BY <3>1, <3>2, <3>3
  <2> QED
    BY <2>1, <2>2
<1> QED
  BY <1>5, <1>10, <1>11, <1>12 DEF DeliveryInv

-----------------------------------------------------------------------------
(* Steps that leave GitHub's log and the hour alone.                          *)

LEMMA SameLog ==
  ASSUME UNCHANGED <<hour, log>>
  PROVE  \A g : /\ \A i : Tried(g, i)' <=> Tried(g, i)
                /\ \A t : TriedBy(g, t)' <=> TriedBy(g, t)
                /\ Fresh(g)' <=> Fresh(g)
                /\ Old(g)' <=> Old(g)
  BY DEF Tried, TriedBy, Fresh, Old

LEMMA OldNotFresh ==
  ASSUME DeliveryInv, NEW g, Old(g)
  PROVE  ~Fresh(g)
<1>1. hour \in Nat /\ \A i \in DOMAIN log : log[i].at \in Nat
  BY LogTyped DEF DeliveryInv, RecoveryTyped
<1> QED
  BY <1>1, Lengths DEF Old, Fresh

(* Rows are settled, retried or forgotten.                                    *)
RowMoves(g) ==
  \/ row'[g] = row[g] /\ applied'[g] = applied[g]
  \/ /\ StillPending(g) /\ row'[g] # NoRow /\ row'[g].at \in {hour, row[g].at}
     /\ row'[g].status = "pending" => applied'[g] = applied[g]
     /\ applied'[g] <= applied[g] + 1
  \/ /\ row[g] # NoRow /\ row[g].at + Retention <= hour
     /\ row'[g] = NoRow /\ applied'[g] = applied[g]
RecMoves(g) ==
  \/ rec'[g] = rec[g]
  \/ /\ rec[g] # NoRow /\ rec[g].state # "requested" /\ rec[g].last + Retention <= hour
     /\ rec'[g] = NoRow

LEMMA RowStep ==
  ASSUME DeliveryInv, UNCHANGED <<hour, log, inflight, scan, run, asked>>,
         row' \in [Guids -> DeliveryRows \cup {NoRow}], rec' \in [Guids -> RecoveryRows \cup {NoRow}],
         applied' \in [Guids -> Nat],
         \A g \in Guids : RowMoves(g) /\ RecMoves(g)
  PROVE  DeliveryInv'
<1>1. RecoveryTyped /\ LogOrdered /\ DeliveryRowsKept /\ RequestsKept /\ LostKept
  BY DEF DeliveryInv
<1>2. \A g : /\ \A i : Tried(g, i)' <=> Tried(g, i)
             /\ \A t : TriedBy(g, t)' <=> TriedBy(g, t)
             /\ Fresh(g)' <=> Fresh(g)
             /\ Old(g)' <=> Old(g)
  BY SameLog
<1>3. hour \in Nat /\ \A i \in DOMAIN log : log[i].at \in Nat
  BY <1>1, LogTyped DEF RecoveryTyped
<1>4. RecoveryTyped' /\ LogOrdered'
  BY <1>1 DEF RecoveryTyped, LogOrdered, ClampWatermark, MinOf, MaxOf, Monus
<1>5. ASSUME NEW g \in Guids, NEW t \in Nat, TriedBy(g, t), t + Retention <= hour PROVE Old(g)
  BY <1>3, <1>5, Lengths DEF TriedBy, Old
<1>6. ASSUME NEW g \in Guids, row[g] # NoRow, row'[g] = NoRow PROVE Old(g)
  <2>1. row[g].at \in Nat /\ row[g].at + Retention <= hour
    BY <1>1, <1>6 DEF RowMoves, RecoveryTyped, DeliveryRows
  <2> QED
    BY <1>1, <1>5, <1>6, <2>1 DEF DeliveryRowsKept
<1>7. ASSUME NEW g \in Guids, rec[g] # NoRow, rec'[g] = NoRow PROVE Old(g) /\ rec[g].last # hour
  <2>1. rec[g].last \in Nat /\ rec[g].last + Retention <= hour
    BY <1>1, <1>7 DEF RecMoves, RecoveryTyped, RecoveryRows
  <2> QED
    BY <1>1, <1>3, <1>5, <1>7, <2>1, Lengths DEF RequestsKept
<1>8. DeliveryRowsKept'
  <2> SUFFICES ASSUME NEW g \in Guids
               PROVE  /\ row'[g] # NoRow => row'[g].at <= hour /\ TriedBy(g, row[g].at)'
                      /\ InHand(g) => Fresh(g) /\ (row'[g] # NoRow => row'[g].at = hour)
                      /\ row'[g] = NoRow /\ applied'[g] > 0 => Old(g)
                      /\ applied'[g] <= 1
                      /\ row'[g] # NoRow /\ row'[g].status = "pending" => applied'[g] = 0
    BY <1>2 DEF DeliveryRowsKept, InHand
  <2>0. applied[g] \in Nat /\ applied'[g] \in Nat
    BY <1>1 DEF RecoveryTyped
  <2>1. CASE row'[g] = row[g] /\ applied'[g] = applied[g]
    <3>1. TriedBy(g, row[g].at)' <=> TriedBy(g, row'[g].at)
      BY <1>2
    <3> QED
      BY <1>1, <2>1, <3>1 DEF DeliveryRowsKept
  <2>2. CASE /\ StillPending(g) /\ row'[g] # NoRow /\ row'[g].at \in {hour, row[g].at}
             /\ row'[g].status = "pending" => applied'[g] = applied[g]
             /\ applied'[g] <= applied[g] + 1
    <3>1. row[g] # NoRow /\ applied[g] = 0
      BY <1>1, <2>2 DEF DeliveryRowsKept, StillPending
    <3>2. row[g].at \in Nat /\ row[g].at <= hour /\ TriedBy(g, row[g].at)
      BY <1>1, <3>1 DEF DeliveryRowsKept, RecoveryTyped, DeliveryRows
    <3>3. TriedBy(g, hour)
      BY <1>1, <3>2 DEF TriedBy, LogOrdered
    <3>4. TriedBy(g, row[g].at)'
      BY <1>2, <2>2, <3>2, <3>3
    <3>5. InHand(g) => Fresh(g) /\ row[g].at = hour
      BY <1>1, <3>1 DEF DeliveryRowsKept
    <3> QED
      BY <1>3, <2>0, <2>2, <3>1, <3>2, <3>4, <3>5
  <2>3. CASE row[g] # NoRow /\ row[g].at + Retention <= hour /\ row'[g] = NoRow /\ applied'[g] = applied[g]
    BY <1>1, <1>6, <2>3 DEF DeliveryRowsKept
  <2> QED
    BY <2>1, <2>2, <2>3 DEF RowMoves
<1>9. RequestsKept'
  <2> SUFFICES ASSUME NEW g \in Guids
               PROVE  /\ rec'[g] # NoRow =>
                           /\ rec'[g].last <= hour /\ TriedBy(g, rec[g].last)'
                           /\ asked[g] <= rec'[g].attempts /\ rec'[g].attempts <= MaxRequests
                      /\ BeingAsked(g) => rec'[g] # NoRow /\ rec'[g].state = "requested" /\ asked[g] < rec'[g].attempts
                      /\ BeingAsked(g) \/ g \in inflight => rec'[g] # NoRow /\ rec'[g].last = hour
                      /\ rec'[g] = NoRow /\ asked[g] > 0 => Old(g)
                      /\ asked[g] <= MaxRequests
    BY <1>2 DEF RequestsKept, BeingAsked
  <2>1. CASE rec'[g] = rec[g]
    <3>1. TriedBy(g, rec[g].last)' <=> TriedBy(g, rec'[g].last)
      BY <1>2
    <3> QED
      BY <1>1, <2>1, <3>1 DEF RequestsKept
  <2>2. CASE rec[g] # NoRow /\ rec[g].state # "requested" /\ rec'[g] = NoRow
    BY <1>1, <1>7, <2>2 DEF RequestsKept
  <2> QED
    BY <2>1, <2>2 DEF RecMoves
<1>10. ASSUME NEW g \in Guids, Waiting(g)' PROVE Waiting(g)
  <2>1. Fresh(g) /\ row'[g] = NoRow /\ rec'[g] = NoRow /\ \A i \in DOMAIN log : Tried(g, i) => ~log[i].ok
    BY <1>2, <1>10 DEF Waiting
  <2> QED
    BY <1>6, <1>7, <2>1, OldNotFresh DEF Waiting
<1>11. LostKept'
  BY <1>1, <1>2, <1>10 DEF LostKept, Listed
<1> QED
  BY <1>4, <1>8, <1>9, <1>11 DEF DeliveryInv

LEMMA ProcessKeeps ==
  ASSUME DeliveryInv, NEW g \in Guids, NEW o \in {"processed", "dropped", "rolled-back"}, ProcessDelivery(g, o)
  PROVE  DeliveryInv'
<1>1. RecoveryTyped /\ UNCHANGED <<hour, log, inflight, rec, asked, scan, run>>
  BY DEF DeliveryInv, ProcessDelivery
<1>2. hour \in Nat /\ row \in [Guids -> DeliveryRows \cup {NoRow}] /\ applied \in [Guids -> Nat]
      /\ rec \in [Guids -> RecoveryRows \cup {NoRow}]
  BY <1>1 DEF RecoveryTyped
<1>3. CASE StillPending(g) /\ o # "rolled-back"
  <2> DEFINE r == [status |-> o, at |-> hour, tries |-> 0]
  <2>1. row' = [row EXCEPT ![g] = r] /\ applied' = [applied EXCEPT ![g] = @ + (IF o = "processed" THEN 1 ELSE 0)]
    BY <1>3 DEF ProcessDelivery
  <2>2. r \in DeliveryRows /\ r # NoRow /\ r.at = hour /\ r.status # "pending"
    BY <1>2, <1>3, Lengths DEF DeliveryRows
  <2>3. row' \in [Guids -> DeliveryRows \cup {NoRow}] /\ row'[g] = r /\ \A h \in Guids : h # g => row'[h] = row[h]
    BY <1>2, <2>1, <2>2
  <2>4. /\ applied' \in [Guids -> Nat] /\ applied'[g] <= applied[g] + 1
        /\ \A h \in Guids : h # g => applied'[h] = applied[h]
    BY <1>2, <2>1
  <2>5. \A h \in Guids : RowMoves(h) /\ RecMoves(h)
    BY <1>1, <1>3, <2>2, <2>3, <2>4 DEF RowMoves, RecMoves
  <2> QED
    BY <1>1, <1>2, <2>3, <2>4, <2>5, RowStep
<1>4. CASE ~(StillPending(g) /\ o # "rolled-back")
  <2>1. UNCHANGED <<row, applied>>
    BY <1>4 DEF ProcessDelivery
  <2> QED
    BY <1>1, <1>2, <2>1, RowStep DEF RowMoves, RecMoves
<1> QED
  BY <1>3, <1>4

LEMMA RetryKeeps ==
  ASSUME DeliveryInv, RetryStalledDeliveries
  PROVE  DeliveryInv'
<1>1. RecoveryTyped /\ UNCHANGED <<hour, log, inflight, applied, rec, asked, scan, run>>
  BY DEF DeliveryInv, RetryStalledDeliveries
<1>2. hour \in Nat /\ row \in [Guids -> DeliveryRows \cup {NoRow}] /\ applied \in [Guids -> Nat]
      /\ rec \in [Guids -> RecoveryRows \cup {NoRow}]
  BY <1>1 DEF RecoveryTyped
<1>3. /\ row' = [g \in Guids |-> row'[g]]
      /\ \A g \in Guids : \/ row'[g] = row[g]
                          \/ StillPending(g) /\ row'[g] = [status |-> "dropped", at |-> hour, tries |-> 0]
                          \/ StillPending(g) /\ row'[g] = [row[g] EXCEPT !.tries = @ + 1]
  BY DEF RetryStalledDeliveries
<1>4. ASSUME NEW g \in Guids
      PROVE  RowMoves(g) /\ row'[g] \in DeliveryRows \cup {NoRow}
  <2>1. CASE row'[g] = row[g]
    BY <1>1, <1>2, <2>1 DEF RowMoves
  <2>2. CASE StillPending(g) /\ row'[g] = [status |-> "dropped", at |-> hour, tries |-> 0]
    <3>1. row'[g] \in DeliveryRows /\ row'[g].at = hour /\ row'[g].status = "dropped"
      BY <1>2, <2>2 DEF DeliveryRows
    <3>2. applied'[g] = applied[g] /\ applied[g] \in Nat
      BY <1>1, <1>2
    <3> QED
      BY <2>2, <3>1, <3>2, Lengths DEF RowMoves
  <2>3. CASE StillPending(g) /\ row'[g] = [row[g] EXCEPT !.tries = @ + 1]
    <3>1. row[g] \in DeliveryRows
      BY <1>2, <2>3 DEF StillPending
    <3>2. row'[g] \in DeliveryRows /\ row'[g].at = row[g].at
      BY <2>3, <3>1 DEF DeliveryRows
    <3>3. applied'[g] = applied[g] /\ applied[g] \in Nat
      BY <1>1, <1>2
    <3> QED
      BY <2>3, <3>2, <3>3, Lengths DEF RowMoves
  <2> QED
    BY <1>3, <2>1, <2>2, <2>3
<1>5. row' \in [Guids -> DeliveryRows \cup {NoRow}]
  BY <1>3, <1>4
<1> QED
  BY <1>1, <1>2, <1>4, <1>5, RowStep DEF RecMoves

LEMMA PurgeKeeps ==
  ASSUME DeliveryInv, PurgeSettled
  PROVE  DeliveryInv'
<1>1. RecoveryTyped /\ UNCHANGED <<hour, log, inflight, applied, asked, scan, run>>
  BY DEF DeliveryInv, PurgeSettled
<1>2. hour \in Nat /\ row \in [Guids -> DeliveryRows \cup {NoRow}] /\ applied \in [Guids -> Nat]
      /\ rec \in [Guids -> RecoveryRows \cup {NoRow}]
  BY <1>1 DEF RecoveryTyped
<1>3. /\ row' \in [Guids -> DeliveryRows \cup {NoRow}] /\ rec' \in [Guids -> RecoveryRows \cup {NoRow}]
      /\ \A g \in Guids : row'[g] = row[g] \/ (row[g] # NoRow /\ Forgotten(row[g].at) /\ row'[g] = NoRow)
      /\ \A g \in Guids : \/ rec'[g] = rec[g]
                          \/ rec[g] # NoRow /\ rec[g].state # "requested" /\ Forgotten(rec[g].last) /\ rec'[g] = NoRow
  BY <1>2 DEF PurgeSettled
<1>4. ASSUME NEW g \in Guids PROVE RowMoves(g) /\ RecMoves(g)
  <2>1. (row[g] # NoRow => row[g].at \in Nat) /\ (rec[g] # NoRow => rec[g].last \in Nat)
    BY <1>2 DEF DeliveryRows, RecoveryRows
  <2> QED
    BY <1>1, <1>2, <1>3, <2>1, Lengths DEF RowMoves, RecMoves, Forgotten
<1> QED
  BY <1>1, <1>2, <1>3, <1>4, RowStep

-----------------------------------------------------------------------------
(* The recovery run. A run that ends leaves the watermark behind what waits.  *)

LEMMA ClampedMark ==
  ASSUME DeliveryInv, NEW g \in Guids, Waiting(g)
  PROVE  \E i \in DOMAIN log : /\ Tried(g, i) /\ log[i].at > scan.mark /\ hour <= log[i].at + MaxAge
                               /\ log[i].at > ClampWatermark(scan.mark, hour)
<1>1. RecoveryTyped /\ LogOrdered /\ LostKept
  BY DEF DeliveryInv
<1>2. /\ hour \in Nat /\ scan.mark \in Nat /\ scan.mark < hour
      /\ DOMAIN log = 1..Len(log) /\ Len(log) \in Nat /\ \A i \in DOMAIN log : log[i].at \in Nat
  BY <1>1, LogTyped DEF RecoveryTyped, LogOrdered
<1>0. MaxAge \in Nat /\ Window \in Nat /\ MaxAge < Window
  BY Lengths
<1>3. PICK i \in DOMAIN log : Tried(g, i) /\ log[i].at > scan.mark
  BY <1>1 DEF LostKept
<1>4. PICK j \in DOMAIN log : Tried(g, j) /\ hour <= log[j].at + MaxAge
  BY DEF Waiting, Fresh
<1>5. PICK k \in DOMAIN log : Tried(g, k) /\ log[k].at > scan.mark /\ hour <= log[k].at + MaxAge
  <2>1. CASE i <= j
    <3>1. log[i].at <= log[j].at
      BY <1>1, <2>1 DEF LogOrdered
    <3> QED
      BY <1>2, <1>3, <1>4, <3>1
  <2>2. CASE j <= i
    <3>1. log[j].at <= log[i].at
      BY <1>1, <2>2 DEF LogOrdered
    <3> QED
      BY <1>0, <1>2, <1>3, <1>4, <3>1
  <2> QED
    BY <1>2, <2>1, <2>2
<1>6. log[k].at > ClampWatermark(scan.mark, hour)
  <2>1. PICK a : a = log[k].at /\ a \in Nat /\ a > scan.mark /\ hour <= a + MaxAge
    BY <1>2, <1>5
  <2>2. a > Monus(hour, Window)
    BY <1>0, <1>2, <2>1 DEF Monus
  <2>3. a > MaxOf(scan.mark, Monus(hour, Window))
    BY <2>1, <2>2 DEF MaxOf
  <2>4. MaxOf(scan.mark, Monus(hour, Window)) \in Nat
    BY <1>0, <1>2 DEF MaxOf, Monus
  <2> QED
    BY <1>2, <2>1, <2>3, <2>4 DEF ClampWatermark, MinOf
<1> QED
  BY <1>5, <1>6

LEMMA ClampedTyped ==
  ASSUME DeliveryInv
  PROVE  ClampWatermark(scan.mark, hour) \in Nat /\ ClampWatermark(scan.mark, hour) < hour
<1>1. hour \in Nat /\ hour > 0 /\ scan.mark \in Nat /\ scan.mark < hour
  BY DEF DeliveryInv, RecoveryTyped, LogOrdered
<1> QED
  BY <1>1, Lengths DEF ClampWatermark, MinOf, MaxOf, Monus

LEMMA RecoveryEnds ==
  ASSUME DeliveryInv, UNCHANGED <<hour, log, inflight, row, applied, rec, asked>>, run' = NoRecovery,
         scan' \in [mark : Nat, next : Nat, failures : Nat], scan'.mark < hour,
         \A g \in Guids : Waiting(g) => \E i \in DOMAIN log : Tried(g, i) /\ log[i].at > scan'.mark
  PROVE  DeliveryInv'
<1>1. RecoveryTyped /\ LogOrdered /\ DeliveryRowsKept /\ RequestsKept /\ LostKept
  BY DEF DeliveryInv
<1>2. \A g : /\ \A i : Tried(g, i)' <=> Tried(g, i)
             /\ \A t : TriedBy(g, t)' <=> TriedBy(g, t)
             /\ Fresh(g)' <=> Fresh(g)
             /\ Old(g)' <=> Old(g)
  BY SameLog
<1>3. run'.at = "idle"
  BY DEF NoRecovery
<1>4. RecoveryTyped' /\ LogOrdered'
  BY <1>1 DEF RecoveryTyped, LogOrdered
<1>5. \A g \in Guids : /\ InHand(g)' => InHand(g)
                       /\ ~BeingAsked(g)'
                       /\ TriedBy(g, row[g].at)' <=> TriedBy(g, row[g].at)
                       /\ TriedBy(g, rec[g].last)' <=> TriedBy(g, rec[g].last)
  BY <1>2, <1>3 DEF InHand, BeingAsked, TriedBy, Tried
<1>6. DeliveryRowsKept'
  BY <1>1, <1>2, <1>5 DEF DeliveryRowsKept
<1>7. RequestsKept'
  BY <1>1, <1>2, <1>5 DEF RequestsKept
<1>8. \A g \in Guids : Waiting(g)' => Waiting(g)
  BY <1>2 DEF Waiting
<1>9. LostKept'
  BY <1>2, <1>8 DEF LostKept
<1> QED
  BY <1>4, <1>6, <1>7, <1>9 DEF DeliveryInv

LEMMA StopsKeep ==
  ASSUME DeliveryInv, SkipNoApp \/ ListFails \/ RunDies
  PROVE  DeliveryInv'
<1>1. RecoveryTyped /\ LogOrdered /\ LostKept
  BY DEF DeliveryInv
<1>2. hour \in Nat /\ scan \in [mark : Nat, next : Nat, failures : Nat]
  BY <1>1 DEF RecoveryTyped
<1>3. CASE RunDies
  BY <1>1, <1>2, <1>3, RecoveryEnds DEF RunDies, LogOrdered, LostKept
<1>4. CASE SkipNoApp \/ ListFails
  <2>1. run # NoRecovery /\ run.now = hour
    BY <1>1, <1>4 DEF SkipNoApp, ListFails, NoRecovery, LogOrdered
  <2>2. /\ scan' \in [mark : Nat, next : Nat, failures : Nat] /\ scan'.mark = ClampWatermark(scan.mark, hour)
        /\ run' = NoRecovery /\ UNCHANGED <<hour, log, inflight, row, applied, rec, asked>>
    BY <1>2, <1>4, <2>1, ClampedTyped DEF SkipNoApp, ListFails, MinOf, NextRunDelay
  <2>3. scan'.mark < hour
    BY <2>2, ClampedTyped
  <2>4. \A g \in Guids : Waiting(g) => \E i \in DOMAIN log : Tried(g, i) /\ log[i].at > scan'.mark
    BY <2>2, ClampedMark
  <2> QED
    BY <2>2, <2>3, <2>4, RecoveryEnds
<1> QED
  BY <1>3, <1>4

LEMMA FinishKeeps ==
  ASSUME DeliveryInv, FinishRecoveryRun
  PROVE  DeliveryInv'
<1>1. RecoveryTyped /\ LogOrdered /\ LostKept
  BY DEF DeliveryInv
<1>2. /\ run # NoRecovery /\ run \in Runs /\ run.at = "asking" /\ run.now = hour
      /\ run.hi \in Nat /\ run.hi <= Len(log) /\ run.lo \in Nat /\ run.lo > 0
  BY <1>1, RunTyped DEF FinishRecoveryRun, NoRecovery, LogOrdered, Runs
<1>3. /\ hour \in Nat /\ hour > 0 /\ scan.mark \in Nat /\ scan.mark < hour
      /\ DOMAIN log = 1..Len(log) /\ Len(log) \in Nat /\ \A i \in DOMAIN log : log[i].at \in Nat /\ log[i].at <= hour
  BY <1>1, LogTyped DEF RecoveryTyped, LogOrdered
<1>4. UNCHANGED <<hour, log, inflight, row, applied, rec, asked>> /\ run' = NoRecovery
  BY DEF FinishRecoveryRun
<1>5. CASE run.cut \/ run.lo > run.hi
  <2>1. scan' = [mark |-> ClampWatermark(scan.mark, hour), next |-> hour, failures |-> 0]
    BY <1>2, <1>5 DEF FinishRecoveryRun
  <2>2. scan' \in [mark : Nat, next : Nat, failures : Nat] /\ scan'.mark < hour
    BY <1>3, <2>1, ClampedTyped
  <2>3. \A g \in Guids : Waiting(g) => \E i \in DOMAIN log : Tried(g, i) /\ log[i].at > scan'.mark
    BY <2>1, ClampedMark
  <2> QED
    BY <1>4, <2>2, <2>3, RecoveryEnds
<1>6. CASE ~(run.cut \/ run.lo > run.hi)
  <2> DEFINE n == log[run.hi].at
  <2>1. run.hi \in DOMAIN log /\ n \in Nat /\ n <= hour
    BY <1>2, <1>3, <1>6
  <2>2. scan' = [mark |-> AdvanceWatermark(scan.mark, n, hour), next |-> hour, failures |-> 0]
    BY <1>2, <1>6 DEF FinishRecoveryRun
  <2>3. AdvanceWatermark(scan.mark, n, hour) \in Nat /\ AdvanceWatermark(scan.mark, n, hour) < hour
    <3> HIDE DEF n
    <3> QED
      BY <1>3, <2>1, Lengths DEF AdvanceWatermark, ClampWatermark, MinOf, MaxOf, Monus
  <2>4. scan' \in [mark : Nat, next : Nat, failures : Nat] /\ scan'.mark < hour
    BY <1>3, <2>2, <2>3
  <2>5. ASSUME NEW g \in Guids, Waiting(g) PROVE \E i \in DOMAIN log : Tried(g, i) /\ log[i].at > scan'.mark
    <3>1. ~Listed(g)
      BY <1>1, <1>2, <1>6, <2>5 DEF LostKept
    <3>2. PICK i \in DOMAIN log : Tried(g, i) /\ i > run.hi
      BY <1>2, <1>3, <3>1 DEF Listed
    <3>3. log[i].at = hour
      BY <1>1, <1>2, <3>2 DEF LogOrdered
    <3> QED
      BY <1>3, <2>4, <3>2, <3>3
  <2> QED
    BY <1>4, <2>4, <2>5, RecoveryEnds
<1> QED
  BY <1>5, <1>6

LEMMA HourPasses ==
  ASSUME DeliveryInv, Passes
  PROVE  DeliveryInv'
<1>1. RecoveryTyped /\ LogOrdered /\ DeliveryRowsKept /\ RequestsKept /\ LostKept
  BY DEF DeliveryInv
<1>2. /\ hour' = hour + 1 /\ run = NoRecovery /\ inflight = {} /\ run.at = "idle"
      /\ UNCHANGED <<log, inflight, row, applied, rec, asked, scan, run>>
  BY DEF Passes, NoRecovery
<1>3. hour \in Nat /\ \A i \in DOMAIN log : log[i].at \in Nat
  BY <1>1, LogTyped DEF RecoveryTyped
<1>4. RecoveryTyped'
  BY <1>1, <1>2 DEF RecoveryTyped
<1>5. LogOrdered'
  BY <1>1, <1>2, <1>3 DEF LogOrdered, RecoveryTyped
<1>6. \A g \in Guids : /\ \A i : Tried(g, i)' <=> Tried(g, i)
                       /\ \A t : TriedBy(g, t)' <=> TriedBy(g, t)
                       /\ Fresh(g)' => Fresh(g)
                       /\ Old(g) => Old(g)'
                       /\ ~InHand(g)' /\ ~BeingAsked(g)'
                       /\ TriedBy(g, row[g].at)' <=> TriedBy(g, row[g].at)
                       /\ TriedBy(g, rec[g].last)' <=> TriedBy(g, rec[g].last)
  BY <1>2, <1>3, Lengths DEF Tried, TriedBy, Fresh, Old, InHand, BeingAsked
<1>7. \A g \in Guids : (row[g] # NoRow => row[g].at \in Nat) /\ (rec[g] # NoRow => rec[g].last \in Nat)
  BY <1>1 DEF RecoveryTyped, DeliveryRows, RecoveryRows
<1>8. DeliveryRowsKept'
  BY <1>1, <1>2, <1>3, <1>6, <1>7 DEF DeliveryRowsKept
<1>9. RequestsKept'
  BY <1>1, <1>2, <1>3, <1>6, <1>7 DEF RequestsKept
<1>10. \A g \in Guids : Waiting(g)' => Waiting(g)
  BY <1>2, <1>6 DEF Waiting
<1>11. LostKept'
  BY <1>1, <1>2, <1>6, <1>10 DEF LostKept
<1> QED
  BY <1>4, <1>5, <1>8, <1>9, <1>11 DEF DeliveryInv

(* A run moves on, and recovery rows at most change their state.              *)
Follows(g) ==
  run'.cut \/ ~Listed(g)'
  \/ /\ run'.at = "listed" => \E i \in DOMAIN log : /\ Tried(g, i) /\ i >= run'.lo
                                                    /\ log[i].at > run'.from /\ hour <= log[i].at + MaxAge
     /\ run'.at = "missing" => g \in run'.todo
     /\ run'.at # "asking"

LEMMA RunMoves ==
  ASSUME DeliveryInv, UNCHANGED <<hour, log, inflight, row, applied, asked, scan>>,
         rec' \in [Guids -> RecoveryRows \cup {NoRow}],
         \A g \in Guids : /\ rec'[g] = NoRow <=> rec[g] = NoRow
                          /\ rec[g] # NoRow => rec'[g].last = rec[g].last /\ rec'[g].attempts = rec[g].attempts,
         run' \in Runs, run'.at # "asking", run'.now = hour, run'.from = ClampWatermark(scan.mark, hour),
         run'.hi <= Len(log), run'.lo > 0, \A i \in DOMAIN log : i > run'.hi => log[i].at = hour,
         run'.at = "missing" => \A g \in run'.todo : Fresh(g) /\ row[g] = NoRow,
         \A g \in Guids : Waiting(g) => Follows(g)
  PROVE  DeliveryInv'
<1>1. RecoveryTyped /\ LogOrdered /\ DeliveryRowsKept /\ RequestsKept /\ LostKept
  BY DEF DeliveryInv
<1>2. \A g : /\ \A i : Tried(g, i)' <=> Tried(g, i)
             /\ \A t : TriedBy(g, t)' <=> TriedBy(g, t)
             /\ Fresh(g)' <=> Fresh(g)
             /\ Old(g)' <=> Old(g)
  BY SameLog
<1>3. RecoveryTyped'
  BY <1>1 DEF RecoveryTyped
<1>4. LogOrdered'
  BY <1>1 DEF LogOrdered, ClampWatermark, MinOf, MaxOf, Monus
<1>5. \A g \in Guids : /\ ~BeingAsked(g)'
                       /\ InHand(g)' => g \in inflight \/ (Fresh(g) /\ row[g] = NoRow)
                       /\ TriedBy(g, row[g].at)' <=> TriedBy(g, row[g].at)
                       /\ TriedBy(g, rec[g].last)' <=> TriedBy(g, rec'[g].last)
  BY <1>2 DEF InHand, BeingAsked, TriedBy, Tried
<1>6. DeliveryRowsKept'
  <2>1. \A g \in Guids : g \in inflight => InHand(g)
    BY DEF InHand
  <2> QED
    BY <1>1, <1>2, <1>5, <2>1 DEF DeliveryRowsKept
<1>7. RequestsKept'
  BY <1>1, <1>2, <1>5 DEF RequestsKept
<1>8. \A g \in Guids : Waiting(g)' => Waiting(g)
  BY <1>2 DEF Waiting
<1>9. LostKept'
  BY <1>1, <1>2, <1>8 DEF LostKept, Follows
<1> QED
  BY <1>3, <1>4, <1>6, <1>7, <1>9 DEF DeliveryInv

LEMMA BeginKeeps ==
  ASSUME DeliveryInv, BeginRecoveryRun
  PROVE  DeliveryInv'
<1>1. RecoveryTyped /\ LogOrdered /\ DeliveryRowsKept /\ RequestsKept /\ LostKept
  BY DEF DeliveryInv
<1>2. /\ hour \in Nat /\ rec \in [Guids -> RecoveryRows \cup {NoRow}]
      /\ DOMAIN log = 1..Len(log) /\ Len(log) \in Nat
  BY <1>1, LogTyped DEF RecoveryTyped
<1>3. /\ UNCHANGED <<hour, log, inflight, row, applied, asked, scan>> /\ run = NoRecovery
      /\ rec' = [g \in Guids |-> ReconcileRecovered(g)]
  BY DEF BeginRecoveryRun
<1>4. ASSUME NEW g \in Guids
      PROVE  /\ rec'[g] \in RecoveryRows \cup {NoRow}
             /\ rec'[g] = NoRow <=> rec[g] = NoRow
             /\ rec[g] # NoRow => rec'[g].last = rec[g].last /\ rec'[g].attempts = rec[g].attempts
  <2>0. rec'[g] = ReconcileRecovered(g)
    BY <1>3
  <2>1. CASE rec[g] = NoRow
    <3>1. rec'[g] = rec[g]
      BY <2>0, <2>1 DEF ReconcileRecovered
    <3> QED
      BY <2>1, <3>1
  <2>2. CASE rec[g] # NoRow
    <3>1. rec[g] \in RecoveryRows
      BY <1>2, <2>2
    <3>2. \/ rec'[g] = rec[g]
          \/ rec'[g] = [rec[g] EXCEPT !.state = "recovered", !.refused = FALSE]
          \/ rec'[g] = [rec[g] EXCEPT !.state = "abandoned"]
      BY <2>0, <2>2 DEF ReconcileRecovered
    <3>3. rec'[g] \in RecoveryRows /\ rec'[g].last = rec[g].last /\ rec'[g].attempts = rec[g].attempts
      BY <3>1, <3>2 DEF RecoveryRows
    <3> QED
      BY <2>2, <3>3, Lengths
  <2> QED
    BY <2>1, <2>2
<1>5. rec' \in [Guids -> RecoveryRows \cup {NoRow}]
  BY <1>3, <1>4
<1>6. CASE hour < scan.next
  <2>1. run' = NoRecovery
    BY <1>6 DEF BeginRecoveryRun
  <2>2. \A g : /\ \A i : Tried(g, i)' <=> Tried(g, i)
               /\ \A t : TriedBy(g, t)' <=> TriedBy(g, t)
               /\ Fresh(g)' <=> Fresh(g)
               /\ Old(g)' <=> Old(g)
    BY <1>3, SameLog
  <2>3. RecoveryTyped' /\ LogOrdered'
    BY <1>1, <1>3, <1>5, <2>1 DEF RecoveryTyped, LogOrdered
  <2>4. \A g \in Guids : /\ ~BeingAsked(g)'
                         /\ InHand(g)' => InHand(g)
                         /\ TriedBy(g, row[g].at)' <=> TriedBy(g, row[g].at)
                         /\ TriedBy(g, rec[g].last)' <=> TriedBy(g, rec'[g].last)
    BY <1>3, <2>1, <2>2 DEF InHand, BeingAsked, TriedBy, Tried, NoRecovery
  <2>5. DeliveryRowsKept'
    BY <1>1, <1>3, <2>2, <2>4 DEF DeliveryRowsKept
  <2>6. RequestsKept'
    BY <1>1, <1>3, <1>4, <2>2, <2>4 DEF RequestsKept
  <2>7. \A g \in Guids : Waiting(g)' => Waiting(g)
    BY <1>3, <1>4, <2>2 DEF Waiting
  <2>8. LostKept'
    BY <1>1, <1>3, <2>1, <2>2, <2>7 DEF LostKept
  <2> QED
    BY <2>3, <2>5, <2>6, <2>8 DEF DeliveryInv
<1>7. CASE ~(hour < scan.next)
  <2> DEFINE r == [at |-> "listing", now |-> hour, from |-> ClampWatermark(scan.mark, hour),
                   hi |-> Len(log), lo |-> Len(log) + 1, todo |-> {}, cut |-> FALSE]
  <2>1. run' = r
    BY <1>7 DEF BeginRecoveryRun
  <2>2. r \in Runs
    BY <1>2, ClampedTyped DEF Runs
  <2>3. /\ run'.at = "listing" /\ run'.now = hour /\ run'.from = ClampWatermark(scan.mark, hour)
        /\ run'.hi = Len(log) /\ run'.lo = Len(log) + 1
    BY <2>1
  <2>4. \A g \in Guids : Follows(g)
    BY <2>3 DEF Follows
  <2> QED
    BY <1>2, <1>3, <1>4, <1>5, <2>1, <2>2, <2>3, <2>4, RunMoves
<1> QED
  BY <1>6, <1>7

(* The pages that are read reach back to the watermark, unless the scan is    *)
(* cut.                                                                       *)
LEMMA PagesReachBack ==
  ASSUME DeliveryInv, run # NoRecovery, NEW k \in Nat \ {0}, Ends(k), NEW i \in DOMAIN log,
         i <= run.hi, log[i].at > run.from
  PROVE  i >= LowOf(k)
<1>1. RecoveryTyped /\ LogOrdered
  BY DEF DeliveryInv
<1>2. /\ run.hi \in Nat /\ run.from \in Nat /\ run.hi <= Len(log)
      /\ DOMAIN log = 1..Len(log) /\ Len(log) \in Nat /\ \A j \in DOMAIN log : log[j].at \in Nat
  BY <1>1, LogTyped, RunTyped DEF Runs, LogOrdered
<1>3. CASE LowOf(k) = 1
  BY <1>2, <1>3
<1>4. CASE LowOf(k) # 1 /\ PageIsExhausted(k)
  <2>1. PICK p : p = k * PerPage /\ p \in Nat /\ (k - 1) * PerPage = p - PerPage
    BY Lengths
  <2>2. run.hi > p /\ LowOf(k) = run.hi - p + 1
    BY <1>2, <1>4, <2>1 DEF LowOf, Monus
  <2>3. p - PerPage >= 0 /\ p >= PerPage
    <3>1. k - 1 \in Nat
      OBVIOUS
    <3>2. (k - 1) * PerPage \in Nat
      BY <3>1, Lengths
    <3> QED
      BY <2>1, <3>2, Lengths
  <2>4. Monus(run.hi, (k - 1) * PerPage) = run.hi - (p - PerPage)
    BY <1>2, <2>1, <2>2, <2>3, Lengths DEF Monus
  <2>5. LowOf(k) \in LowOf(k) .. Monus(run.hi, (k - 1) * PerPage) /\ LowOf(k) \in DOMAIN log
    <3>1. PICK l, m : l = LowOf(k) /\ m = Monus(run.hi, (k - 1) * PerPage) /\ l = run.hi - p + 1 /\ m = run.hi - p + PerPage
      BY <1>2, <2>1, <2>2, <2>4, Lengths
    <3>2. l \in Nat /\ m \in Nat /\ 1 <= l /\ l <= m /\ l <= run.hi
      <4>1. PerPage \in Nat /\ PerPage > 0
        BY Lengths
      <4>2. run.hi \in Nat /\ p \in Nat /\ run.hi > p /\ p >= PerPage
        BY <1>2, <2>1, <2>2, <2>3
      <4> QED
        BY <3>1, <4>1, <4>2
    <3>3. l \in l..m /\ l \in 1..Len(log)
      BY <1>2, <3>2
    <3> QED
      BY <1>2, <3>1, <3>3
  <2>6. log[LowOf(k)].at <= run.from
    BY <1>4, <2>5 DEF PageIsExhausted
  <2>7. ASSUME i <= LowOf(k) PROVE FALSE
    <3>1. log[i].at <= log[LowOf(k)].at
      BY <1>1, <2>5, <2>7 DEF LogOrdered
    <3> QED
      BY <1>2, <2>5, <2>6, <3>1
  <2> QED
    BY <1>2, <2>1, <2>2, <2>7
<1> QED
  BY <1>3, <1>4 DEF Ends

LEMMA ListKeeps ==
  ASSUME DeliveryInv, ListDeliveries
  PROVE  DeliveryInv'
<1> DEFINE ending == {k \in 1 .. MaxPages : Ends(k)}
           low == IF ending = {} THEN MaxPages ELSE Min(ending)
<1>1. RecoveryTyped /\ LogOrdered
  BY DEF DeliveryInv
<1>2. run # NoRecovery /\ run \in Runs /\ run.at = "listing"
  BY <1>1, RunTyped DEF ListDeliveries, NoRecovery
<1>3. /\ run' = [run EXCEPT !.at = "listed", !.cut = ending = {}, !.lo = LowOf(low)]
      /\ UNCHANGED <<hour, log, inflight, row, applied, rec, asked, scan>>
  BY DEF ListDeliveries
<1>4. low \in Nat \ {0} /\ (ending # {} => low \in ending)
  <2>1. CASE ending = {}
    BY <2>1, Lengths
  <2>2. CASE ending # {}
    <3>1. ending \subseteq Nat
      OBVIOUS
    <3>2. Min(ending) \in ending
      BY <2>2, <3>1, Smallest
    <3> QED
      BY <2>2, <3>2
  <2> QED
    BY <2>1, <2>2
<1>5. LowOf(low) \in Nat /\ LowOf(low) > 0
  <2> HIDE DEF low
  <2>1. low * PerPage \in Nat /\ run.hi \in Nat
    BY <1>2, <1>4, Lengths DEF Runs
  <2> QED
    BY <2>1 DEF LowOf, Monus
<1>6. run' \in Runs /\ run'.at = "listed" /\ run'.lo = LowOf(low) /\ run'.cut = (ending = {})
      /\ run'.now = run.now /\ run'.from = run.from /\ run'.hi = run.hi
  <2>1. PICK c \in BOOLEAN, l \in Nat : c = (ending = {}) /\ l = LowOf(low)
    BY <1>5
  <2>2. run' = [run EXCEPT !.at = "listed", !.cut = c, !.lo = l]
    BY <1>3, <2>1
  <2> HIDE DEF low, ending
  <2>3. run' \in Runs /\ run'.at = "listed" /\ run'.lo = l /\ run'.cut = c
        /\ run'.now = run.now /\ run'.from = run.from /\ run'.hi = run.hi
    BY <1>2, <2>2 DEF Runs
  <2> QED
    BY <2>1, <2>3
<1>7. ASSUME NEW g \in Guids, Waiting(g), ending # {}, Listed(g)' PROVE Follows(g)
  <2>1. PICK i \in DOMAIN log : /\ Tried(g, i) /\ hour <= log[i].at + MaxAge
                                /\ log[i].at > ClampWatermark(scan.mark, hour)
    BY <1>7, ClampedMark
  <2>2. log[i].at > run.from
    BY <1>1, <1>2, <2>1 DEF LogOrdered
  <2>3. i <= run.hi
    BY <1>3, <1>6, <1>7, <2>1 DEF Listed, Tried
  <2>4. Ends(low) /\ low \in Nat \ {0}
    BY <1>4, <1>7
  <2>5. i >= LowOf(low)
    BY <1>2, <2>2, <2>3, <2>4, PagesReachBack
  <2> HIDE DEF low, ending
  <2> QED
    BY <1>6, <2>1, <2>2, <2>5 DEF Follows
<1>8. \A g \in Guids : Waiting(g) => Follows(g)
  <2>1. ASSUME NEW g \in Guids, Waiting(g) PROVE Follows(g)
    <3>1. CASE ending = {}
      BY <1>6, <3>1 DEF Follows
    <3>2. CASE ~Listed(g)'
      BY <3>2 DEF Follows
    <3> QED
      BY <1>7, <2>1, <3>1, <3>2
  <2> QED
    BY <2>1
<1>9. rec \in [Guids -> RecoveryRows \cup {NoRow}]
  BY <1>1 DEF RecoveryTyped
<1>10. /\ run.now = hour /\ run.from = ClampWatermark(scan.mark, hour)
       /\ run.hi <= Len(log) /\ \A i \in DOMAIN log : i > run.hi => log[i].at = hour
  BY <1>1, <1>2 DEF LogOrdered
<1> HIDE DEF low, ending
<1> QED
  BY <1>3, <1>5, <1>6, <1>8, <1>9, <1>10, RunMoves

(* What a run asks for is recent, and unless the cap cuts it, it asks for     *)
(* everything recoverable.                                                    *)
LEMMA Candidates ==
  ASSUME DeliveryInv, run # NoRecovery, NEW items, items = run.lo .. run.hi, NEW R, R = Recoverable(items)
  PROVE  /\ R \subseteq Guids => \A g \in R : Fresh(g)
         /\ Cardinality(SelectRecoverable(items)) # MaxPerRun => SelectRecoverable(items) = R
         /\ \A g \in Guids, i \in items :
              /\ Tried(g, i) /\ log[i].at > run.from /\ hour <= log[i].at + MaxAge
              /\ \A j \in DOMAIN log : Tried(g, j) => ~log[j].ok
              => g \in R
<1>1. RecoveryTyped /\ LogOrdered
  BY DEF DeliveryInv
<1>2. /\ run.hi \in Nat /\ run.lo \in Nat /\ run.lo > 0 /\ run.from \in Nat /\ run.hi <= Len(log) /\ run.now = hour
      /\ DOMAIN log = 1..Len(log) /\ Len(log) \in Nat /\ hour \in Nat
      /\ \A j \in DOMAIN log : log[j].at \in Nat /\ log[j].guid \in Guids \cup {NoRow} /\ log[j].at <= hour
  <2>1. \A j \in DOMAIN log : log[j].guid \in Guids \cup {NoRow}
    BY <1>1, LogTyped DEF Sent
  <2> QED
    BY <1>1, <2>1, LogTyped, RunTyped DEF Runs, LogOrdered, RecoveryTyped
<1>3. items \subseteq DOMAIN log /\ items \subseteq 0..run.hi /\ IsFiniteSet(items)
  <2>0. run.lo \in Int /\ run.hi \in Int
    BY <1>2
  <2>1. IsFiniteSet(run.lo .. run.hi)
    BY <2>0, FS_Interval
  <2> QED
    BY <1>2, <2>1
<1>4. ASSUME NEW g, \E i \in items : log[i].guid = g
      PROVE  /\ NewestFailed(items, g) \in items /\ log[NewestFailed(items, g)].guid = g
             /\ \A i \in items : log[i].guid = g => i <= NewestFailed(items, g)
  <2> DEFINE T == {i \in items : log[i].guid = g}
  <2>1. T \subseteq 0..run.hi /\ T # {}
    BY <1>3, <1>4
  <2>2. Max(T) \in T /\ \A i \in T : Max(T) >= i
    BY <1>2, <2>1, Largest
  <2>3. NewestFailed(items, g) = Max(T)
    BY DEF NewestFailed
  <2> QED
    BY <1>2, <1>3, <2>2, <2>3
<1>5. \A g \in R : \E i \in items : log[i].guid = g
  BY DEF Recoverable
<1>6. ASSUME NEW g \in R PROVE Fresh(g)
  <2> DEFINE m == NewestFailed(items, g)
  <2>1. m \in DOMAIN log /\ log[m].guid = g
    BY <1>3, <1>4, <1>5
  <2>2. Monus(run.now, log[m].at) <= MaxAge
    BY DEF Recoverable
  <2>3. hour <= log[m].at + MaxAge
    <3>1. PICK a : a = log[m].at /\ a \in Nat /\ a <= hour
      BY <1>2, <2>1
    <3> QED
      BY <1>2, <2>2, <3>1, Lengths DEF Monus
  <2> QED
    BY <2>1, <2>3 DEF Fresh, Tried
<1>7. ASSUME Cardinality(SelectRecoverable(items)) # MaxPerRun PROVE SelectRecoverable(items) = R
  <2> DEFINE key == [h \in R |-> NewestFailed(items, h)]
  <2>2. key \in [R -> 0..run.hi] /\ \A g, h \in R : key[g] = key[h] => g = h
    BY <1>3, <1>4, <1>5
  <2>1. IsFiniteSet(R)
    <3>1. key \in Injection(R, 0..run.hi)
      BY <2>2 DEF Injection, IsInjective
    <3>2. IsFiniteSet(0..run.hi)
      <4>1. 0 \in Int /\ run.hi \in Int
        BY <1>2
      <4> QED
        BY <4>1, FS_Interval
    <3> HIDE DEF key
    <3> QED
      BY <3>1, <3>2, FS_Injection
  <2>3. SelectRecoverable(items) = Lowest(R, key, MaxPerRun)
    <3>1. ASSUME NEW g \in R
          PROVE  {h \in Recoverable(items) : NewestFailed(items, h) < NewestFailed(items, g)} = {h \in R : key[h] < key[g]}
      OBVIOUS
    <3>2. \A g \in R : g \in SelectRecoverable(items) <=> Rank(R, key, g) < MaxPerRun
      BY <3>1 DEF SelectRecoverable, Rank
    <3>3. SelectRecoverable(items) \subseteq R
      BY DEF SelectRecoverable
    <3> HIDE DEF key
    <3> QED
      BY <3>2, <3>3 DEF Lowest
  <2> HIDE DEF key
  <2> QED
    BY <1>2, <1>7, <2>1, <2>2, <2>3, LowestAreAllOrFull, Lengths
<1>8. ASSUME NEW g \in Guids, NEW i \in items,
             Tried(g, i), log[i].at > run.from, hour <= log[i].at + MaxAge,
             \A j \in DOMAIN log : Tried(g, j) => ~log[j].ok
      PROVE  g \in R
  <2> DEFINE m == NewestFailed(items, g)
  <2>1. m \in items /\ m \in DOMAIN log /\ log[m].guid = g /\ i <= m /\ i \in DOMAIN log /\ log[i].guid = g
    BY <1>3, <1>4, <1>8 DEF Tried
  <2>2. log[i].at <= log[m].at
    BY <1>1, <2>1 DEF LogOrdered
  <2>3. log[m].at > run.from /\ Monus(run.now, log[m].at) <= MaxAge
    <3>1. PICK a, b : a = log[i].at /\ b = log[m].at /\ a \in Nat /\ b \in Nat /\ b <= hour
      BY <1>2, <2>1
    <3>2. PICK from, now : from = run.from /\ now = hour /\ from \in Nat /\ now \in Nat
      BY <1>2
    <3>3. a <= b /\ a > from /\ now <= a + MaxAge /\ b <= now
      BY <1>8, <2>2, <3>1, <3>2
    <3>4. MaxAge \in Nat
      BY Lengths
    <3>5. b > from /\ Monus(now, b) <= MaxAge
      BY <3>1, <3>2, <3>3, <3>4 DEF Monus
    <3>6. run.now = now
      BY <1>2, <3>2
    <3> QED
      BY <3>1, <3>2, <3>5, <3>6
  <2>4. \A j \in items : log[j].guid = g => ~log[j].ok
    BY <1>3, <1>8 DEF Tried
  <2>5. g \in {log[j].guid : j \in items} \ {NoRow}
    BY <2>1, Lengths
  <2> QED
    BY <2>3, <2>4, <2>5 DEF Recoverable
<1> QED
  BY <1>6, <1>7, <1>8

LEMMA MissingKeeps ==
  ASSUME DeliveryInv, MissingGuids
  PROVE  DeliveryInv'
<1>1. RecoveryTyped /\ LogOrdered /\ LostKept
  BY DEF DeliveryInv
<1>2. /\ run # NoRecovery /\ run \in Runs /\ run.at = "listed"
      /\ UNCHANGED <<hour, log, inflight, row, applied, rec, asked, scan>>
  BY <1>1, RunTyped DEF MissingGuids, NoRecovery
<1>0. PICK items, cands : items = run.lo .. run.hi /\ cands = SelectRecoverable(items)
  OBVIOUS
<1>a. run' = [run EXCEPT !.at = "missing", !.cut = @ \/ Capped(cands),
                         !.todo = {g \in cands : row[g] = NoRow}]
  BY <1>0 DEF MissingGuids
<1>3. items = run.lo .. run.hi /\ cands = SelectRecoverable(items)
  BY <1>0
<1>4. cands \subseteq Recoverable(items) /\ Recoverable(items) \subseteq Guids
  <2>1. run.lo \in Nat /\ run.hi \in Nat /\ run.lo > 0 /\ run.hi <= Len(log)
    BY <1>1, <1>2 DEF Runs, LogOrdered
  <2>2. items \subseteq DOMAIN log /\ \A i \in items : log[i].guid \in Guids \cup {NoRow}
    BY <1>1, <1>3, <2>1, LogTyped DEF Sent
  <2> QED
    BY <1>3, <2>2 DEF SelectRecoverable, Recoverable
<1>b. PICK c \in BOOLEAN : c = (run.cut \/ Capped(cands))
  BY <1>2 DEF Runs
<1>c. PICK t \in SUBSET Guids : t = {g \in cands : row[g] = NoRow}
  BY <1>4
<1>5. /\ c = (run.cut \/ Capped(cands)) /\ t = {g \in cands : row[g] = NoRow}
      /\ run' = [run EXCEPT !.at = "missing", !.cut = c, !.todo = t]
  BY <1>a, <1>b, <1>c
<1>6. /\ run' \in Runs /\ run'.at = "missing" /\ run'.cut = c /\ run'.todo = t
      /\ run'.now = run.now /\ run'.from = run.from /\ run'.hi = run.hi /\ run'.lo = run.lo
  <2>1. run' \in Runs
    BY <1>2, <1>5 DEF Runs
  <2>2. run'.at = "missing" /\ run'.cut = c /\ run'.todo = t
    BY <1>2, <1>5 DEF Runs
  <2>3. run'.now = run.now /\ run'.from = run.from /\ run'.hi = run.hi /\ run'.lo = run.lo
    BY <1>2, <1>5 DEF Runs
  <2> QED
    BY <2>1, <2>2, <2>3
<1>7. \A g \in t : Fresh(g) /\ row[g] = NoRow
  BY <1>2, <1>3, <1>4, <1>5, Candidates
<1>8. ASSUME NEW g \in Guids, Waiting(g) PROVE Follows(g)
  <2>1. SUFFICES ASSUME ~c, Listed(g)' PROVE g \in t
    BY <1>6 DEF Follows
  <2>2. Listed(g)
    BY <1>2, <1>6, <2>1 DEF Listed, Tried
  <2>3. ~run.cut
    BY <1>5, <2>1
  <2>4. PICK i \in DOMAIN log : Tried(g, i) /\ i >= run.lo /\ log[i].at > run.from /\ hour <= log[i].at + MaxAge
    BY <1>1, <1>2, <1>8, <2>2, <2>3 DEF LostKept
  <2>5. i \in items
    <3>1. i \in Nat /\ run.lo \in Nat /\ run.hi \in Nat /\ i <= run.hi
      BY <1>1, <1>2, <2>2, <2>4, LogTyped DEF Listed, Runs
    <3> QED
      BY <1>3, <2>4, <3>1
  <2>6. g \in Recoverable(items)
    <3>1. \A j \in DOMAIN log : Tried(g, j) => ~log[j].ok
      BY <1>8 DEF Waiting
    <3>2. DeliveryInv /\ run # NoRecovery /\ run.at = "listed" /\ items = run.lo .. run.hi
      BY <1>2, <1>3
    <3>3. \A h \in Guids, k \in items :
            /\ Tried(h, k) /\ log[k].at > run.from /\ hour <= log[k].at + MaxAge
            /\ \A j \in DOMAIN log : Tried(h, j) => ~log[j].ok
            => h \in Recoverable(items)
      BY <3>2, Candidates
    <3> QED
      BY <1>8, <2>4, <2>5, <3>1, <3>3
  <2>7. Cardinality(cands) # MaxPerRun
    BY <1>5, <2>1 DEF Capped
  <2>8. cands = Recoverable(items)
    BY <1>2, <1>3, <2>7, Candidates
  <2> QED
    BY <1>5, <1>8, <2>6, <2>8 DEF Waiting
<1>9. rec \in [Guids -> RecoveryRows \cup {NoRow}]
  BY <1>1 DEF RecoveryTyped
<1>10. /\ run.now = hour /\ run.from = ClampWatermark(scan.mark, hour) /\ run.lo > 0
       /\ run.hi <= Len(log) /\ \A i \in DOMAIN log : i > run.hi => log[i].at = hour
  BY <1>1, <1>2 DEF LogOrdered
<1> QED
  BY <1>2, <1>6, <1>7, <1>8, <1>9, <1>10, RunMoves

LEMMA ClaimKeeps ==
  ASSUME DeliveryInv, ClaimRecovery
  PROVE  DeliveryInv'
<1>1. RecoveryTyped /\ LogOrdered /\ DeliveryRowsKept /\ RequestsKept /\ LostKept
  BY DEF DeliveryInv
<1>2. /\ run # NoRecovery /\ run \in Runs /\ run.at = "missing" /\ run.now = hour /\ run.todo \subseteq Guids
      /\ UNCHANGED <<hour, log, inflight, row, applied, asked, scan>>
  BY <1>1, RunTyped DEF ClaimRecovery, NoRecovery, LogOrdered, Runs
<1>3. /\ rec' = [g \in Guids |-> IF g \in run.todo THEN Decided(g) ELSE rec[g]]
      /\ hour \in Nat /\ rec \in [Guids -> RecoveryRows \cup {NoRow}] /\ asked \in [Guids -> Nat]
  BY <1>1 DEF ClaimRecovery, RecoveryTyped
<1>a. PICK t \in SUBSET Guids : t = {g \in run.todo : ~Waits(g) /\ MayAsk(g)}
  BY <1>2
<1>4. t = {g \in run.todo : ~Waits(g) /\ MayAsk(g)} /\ run' = [run EXCEPT !.at = "asking", !.todo = t]
  BY <1>a DEF ClaimRecovery
<1>5. /\ run' \in Runs /\ run'.at = "asking" /\ run'.todo = t /\ run'.cut = run.cut /\ run' # NoRecovery
      /\ run'.now = run.now /\ run'.from = run.from /\ run'.hi = run.hi /\ run'.lo = run.lo
  <2>1. run' = [run EXCEPT !.at = "asking", !.todo = t]
    BY <1>4
  <2>2. run' \in Runs
    BY <1>2, <2>1 DEF Runs
  <2>3. run'.at = "asking" /\ run'.todo = t /\ run'.cut = run.cut
    BY <1>2, <2>1 DEF Runs
  <2>4. run'.now = run.now /\ run'.from = run.from /\ run'.hi = run.hi /\ run'.lo = run.lo
    BY <1>2, <2>1 DEF Runs
  <2> QED
    BY <2>2, <2>3, <2>4 DEF NoRecovery
<1>6. \A g : /\ \A i : Tried(g, i)' <=> Tried(g, i)
             /\ \A u : TriedBy(g, u)' <=> TriedBy(g, u)
             /\ Fresh(g)' <=> Fresh(g)
             /\ Old(g)' <=> Old(g)
  BY <1>2, SameLog
<1>7. \A g \in run.todo : Fresh(g) /\ TriedBy(g, hour) /\ (rec[g] = NoRow => asked[g] = 0)
                          /\ (row[g] # NoRow => row[g].at = hour)
  <2> SUFFICES ASSUME NEW g \in run.todo
               PROVE  Fresh(g) /\ TriedBy(g, hour) /\ (rec[g] = NoRow => asked[g] = 0)
                      /\ (row[g] # NoRow => row[g].at = hour)
    OBVIOUS
  <2>1. Fresh(g) /\ (row[g] # NoRow => row[g].at = hour)
    BY <1>1, <1>2 DEF DeliveryRowsKept, InHand
  <2>2. TriedBy(g, hour)
    BY <1>1, <2>1 DEF Fresh, TriedBy, LogOrdered
  <2>3. asked[g] \in Nat /\ ~Old(g)
    BY <1>2, <1>3, <2>1, OldNotFresh
  <2> QED
    BY <1>1, <1>2, <2>1, <2>2, <2>3 DEF RequestsKept
<1>8. ASSUME NEW g \in Guids
      PROVE  /\ rec'[g] \in RecoveryRows \cup {NoRow}
             /\ rec'[g] = NoRow => rec[g] = NoRow /\ g \notin run.todo
             /\ rec'[g] # NoRow => /\ rec'[g].last <= hour /\ TriedBy(g, rec'[g].last)
                                   /\ asked[g] <= rec'[g].attempts /\ rec'[g].attempts <= MaxRequests
             /\ rec[g] # NoRow /\ rec[g].last = hour => rec'[g].last = hour
             /\ g \in t => rec'[g] # NoRow /\ rec'[g].last = hour /\ rec'[g].state = "requested"
                           /\ asked[g] < rec'[g].attempts
  <2>0. rec'[g] = IF g \in run.todo THEN Decided(g) ELSE rec[g]
    BY <1>3
  <2>1. rec[g] # NoRow => /\ rec[g] \in RecoveryRows /\ rec[g].last <= hour /\ TriedBy(g, rec[g].last)
                          /\ asked[g] <= rec[g].attempts /\ rec[g].attempts <= MaxRequests
                          /\ rec[g].attempts \in Nat
    BY <1>1, <1>3 DEF RequestsKept, RecoveryRows
  <2>2. CASE g \notin run.todo \/ Waits(g)
    <3>1. rec'[g] = rec[g] /\ g \notin t /\ (g \in run.todo => rec[g] # NoRow)
      BY <1>4, <2>0, <2>2 DEF Decided, Waits
    <3> QED
      BY <1>3, <2>1, <3>1
  <2>3. CASE g \in run.todo /\ ~Waits(g) /\ ~MayAsk(g)
    <3>1. rec[g] # NoRow /\ g \notin t /\ rec'[g] = [rec[g] EXCEPT !.state = "abandoned"]
      BY <1>4, <2>0, <2>3 DEF Decided, MayAsk
    <3>2. rec'[g] \in RecoveryRows /\ rec'[g].last = rec[g].last /\ rec'[g].attempts = rec[g].attempts
      BY <2>1, <3>1 DEF RecoveryRows
    <3> QED
      BY <2>1, <2>3, <3>1, <3>2, Lengths
  <2>4. CASE g \in run.todo /\ ~Waits(g) /\ MayAsk(g)
    <3> DEFINE n == Attempt(g)
               f == IF rec[g] = NoRow THEN FALSE ELSE rec[g].refused
    <3>1. n \in Nat /\ asked[g] < n /\ asked[g] <= n /\ n <= MaxRequests
      BY <1>3, <1>7, <2>1, <2>4, Lengths DEF Attempt, MayAsk
    <3>2. f \in BOOLEAN
      BY <2>1 DEF RecoveryRows
    <3>3. rec'[g] = [state |-> "requested", attempts |-> n, last |-> hour,
                     next |-> hour + RecoveryBackoff(n), refused |-> f]
      BY <1>2, <2>0, <2>4 DEF Decided
    <3>4. hour + RecoveryBackoff(n) \in Nat
      <4> HIDE DEF n
      <4> QED
        BY <1>3, <3>1 DEF RecoveryBackoff, MinOf
    <3> HIDE DEF n, f
    <3>5. rec'[g] \in RecoveryRows /\ rec'[g].last = hour /\ rec'[g].attempts = n /\ rec'[g].state = "requested"
      BY <1>3, <3>1, <3>2, <3>3, <3>4 DEF RecoveryRows
    <3>6. rec'[g] # NoRow
      BY <3>5, Lengths
    <3>7. hour <= hour
      BY <1>3
    <3> QED
      BY <1>7, <2>4, <3>1, <3>5, <3>6, <3>7
  <2> QED
    BY <2>2, <2>3, <2>4
<1>9. RecoveryTyped'
  <2>1. rec' \in [Guids -> RecoveryRows \cup {NoRow}]
    BY <1>3, <1>8
  <2> QED
    BY <1>1, <1>2, <1>5, <2>1 DEF RecoveryTyped
<1>10. LogOrdered'
  BY <1>1, <1>2, <1>5 DEF LogOrdered, ClampWatermark, MinOf, MaxOf, Monus
<1>11. \A g \in Guids : /\ InHand(g)' => InHand(g)
                        /\ BeingAsked(g)' => g \in t
                        /\ TriedBy(g, row[g].at)' <=> TriedBy(g, row[g].at)
                        /\ TriedBy(g, rec[g].last)' <=> TriedBy(g, rec'[g].last)
  BY <1>2, <1>4, <1>5, <1>6 DEF InHand, BeingAsked, TriedBy, Tried
<1>12. DeliveryRowsKept'
  BY <1>1, <1>2, <1>6, <1>11 DEF DeliveryRowsKept
<1>13. RequestsKept'
  BY <1>1, <1>2, <1>6, <1>8, <1>11 DEF RequestsKept
<1>14. LostKept'
  <2>1. \A g \in Guids : Waiting(g)' => Waiting(g) /\ g \notin run.todo
    BY <1>2, <1>6, <1>8 DEF Waiting
  <2>2. \A g \in Guids : Listed(g)' => Listed(g)
    BY <1>2, <1>5, <1>6 DEF Listed
  <2> QED
    BY <1>1, <1>2, <1>5, <1>6, <2>1, <2>2 DEF LostKept
<1> QED
  BY <1>9, <1>10, <1>12, <1>13, <1>14 DEF DeliveryInv

LEMMA RedeliverKeeps ==
  ASSUME DeliveryInv, NEW g \in Guids, NEW ok \in BOOLEAN, Redeliver(g, ok)
  PROVE  DeliveryInv'
<1>1. RecoveryTyped /\ LogOrdered /\ DeliveryRowsKept /\ RequestsKept /\ LostKept
  BY DEF DeliveryInv
<1>2. /\ run # NoRecovery /\ run \in Runs /\ run.at = "asking" /\ g \in run.todo /\ run.todo \subseteq Guids
      /\ UNCHANGED <<hour, log, row, applied, scan>>
      /\ inflight \subseteq inflight' /\ inflight' \subseteq inflight \cup {g}
      /\ asked' = [asked EXCEPT ![g] = @ + 1]
      /\ rec' = [rec EXCEPT ![g] = IF @ = NoRow THEN @ ELSE [@ EXCEPT !.refused = ~ok]]
  BY <1>1, RunTyped DEF Redeliver, NoRecovery, Runs
<1>3. /\ hour \in Nat /\ rec \in [Guids -> RecoveryRows \cup {NoRow}] /\ asked \in [Guids -> Nat]
      /\ inflight \subseteq Guids
  BY <1>1 DEF RecoveryTyped
<1>a. PICK t \in SUBSET Guids : t = run.todo \ {g}
  BY <1>2
<1>4. /\ run' \in Runs /\ run'.at = "asking" /\ run'.todo = t /\ run'.cut = run.cut /\ run' # NoRecovery
      /\ run'.now = run.now /\ run'.from = run.from /\ run'.hi = run.hi /\ run'.lo = run.lo
  <2>1. run' = [run EXCEPT !.todo = t]
    BY <1>a DEF Redeliver
  <2>2. run' \in Runs
    BY <1>2, <2>1 DEF Runs
  <2>3. run'.at = "asking" /\ run'.todo = t /\ run'.cut = run.cut
    BY <1>2, <2>1 DEF Runs
  <2>4. run'.now = run.now /\ run'.from = run.from /\ run'.hi = run.hi /\ run'.lo = run.lo
    BY <1>2, <2>1 DEF Runs
  <2> QED
    BY <2>2, <2>3, <2>4 DEF NoRecovery
<1>5. \A h : /\ \A i : Tried(h, i)' <=> Tried(h, i)
             /\ \A u : TriedBy(h, u)' <=> TriedBy(h, u)
             /\ Fresh(h)' <=> Fresh(h)
             /\ Old(h)' <=> Old(h)
  BY <1>2, SameLog
<1>6. BeingAsked(g) /\ rec[g] # NoRow /\ rec[g] \in RecoveryRows /\ rec[g].last = hour /\ asked[g] < rec[g].attempts
  BY <1>1, <1>2, <1>3 DEF BeingAsked, RequestsKept
<1>7. /\ rec'[g] = [rec[g] EXCEPT !.refused = ~ok]
      /\ \A h \in Guids : h # g => rec'[h] = rec[h] /\ asked'[h] = asked[h]
      /\ asked'[g] = asked[g] + 1
  BY <1>2, <1>3, <1>6
<1>8. /\ rec'[g] \in RecoveryRows /\ rec'[g] # NoRow /\ rec'[g].last = hour /\ rec'[g].attempts = rec[g].attempts
      /\ rec[g].attempts \in Nat
  <2>1. PICK b \in BOOLEAN : b = ~ok
    OBVIOUS
  <2>2. rec'[g] = [rec[g] EXCEPT !.refused = b]
    BY <1>7, <2>1
  <2>3. rec'[g] \in RecoveryRows /\ rec'[g].last = rec[g].last /\ rec'[g].attempts = rec[g].attempts
        /\ rec[g].attempts \in Nat
    BY <1>6, <2>2 DEF RecoveryRows
  <2> QED
    BY <1>6, <2>3, Lengths
<1>9. RecoveryTyped'
  <2>1. rec' \in [Guids -> RecoveryRows \cup {NoRow}] /\ asked' \in [Guids -> Nat] /\ inflight' \subseteq Guids
    BY <1>2, <1>3, <1>6, <1>7, <1>8
  <2> QED
    BY <1>1, <1>2, <1>4, <2>1 DEF RecoveryTyped
<1>10. LogOrdered'
  BY <1>1, <1>2, <1>4 DEF LogOrdered, ClampWatermark, MinOf, MaxOf, Monus
<1>11. \A h \in Guids : /\ InHand(h)' => InHand(h)
                        /\ BeingAsked(h)' => BeingAsked(h) /\ h # g
                        /\ TriedBy(h, row[h].at)' <=> TriedBy(h, row[h].at)
                        /\ TriedBy(h, rec[h].last)' <=> TriedBy(h, rec'[h].last)
  BY <1>2, <1>a, <1>4, <1>5 DEF InHand, BeingAsked, TriedBy, Tried
<1>12. DeliveryRowsKept'
  BY <1>1, <1>2, <1>5, <1>11 DEF DeliveryRowsKept
<1>13. RequestsKept'
  <2> SUFFICES ASSUME NEW h \in Guids
               PROVE  /\ rec'[h] # NoRow =>
                           /\ rec'[h].last <= hour' /\ TriedBy(h, rec[h].last)'
                           /\ asked'[h] <= rec'[h].attempts /\ rec'[h].attempts <= MaxRequests
                      /\ BeingAsked(h)' => rec'[h] # NoRow /\ rec'[h].state = "requested" /\ asked'[h] < rec'[h].attempts
                      /\ BeingAsked(h)' \/ h \in inflight' => rec'[h] # NoRow /\ rec'[h].last = hour'
                      /\ rec'[h] = NoRow /\ asked'[h] > 0 => Old(h)'
                      /\ asked'[h] <= MaxRequests
    BY DEF RequestsKept
  <2>1. CASE h # g
    BY <1>1, <1>2, <1>5, <1>7, <1>11, <2>1 DEF RequestsKept
  <2>2. CASE h = g
    <3>1. TriedBy(g, rec[g].last) /\ rec[g].attempts <= MaxRequests /\ asked[g] \in Nat
      BY <1>1, <1>3, <1>6 DEF RequestsKept
    <3> QED
      BY <1>2, <1>3, <1>6, <1>7, <1>8, <1>11, <2>2, <3>1, Lengths
  <2> QED
    BY <2>1, <2>2
<1>14. LostKept'
  <2>1. \A h \in Guids : Waiting(h)' => Waiting(h)
    BY <1>2, <1>5, <1>7, <1>8 DEF Waiting
  <2>2. \A h \in Guids : Listed(h)' => Listed(h)
    BY <1>2, <1>4, <1>5 DEF Listed
  <2> QED
    BY <1>1, <1>2, <1>4, <1>5, <2>1, <2>2 DEF LostKept
<1> QED
  BY <1>9, <1>10, <1>12, <1>13, <1>14 DEF DeliveryInv

LEMMA DeliversKeep ==
  ASSUME DeliveryInv, OtherEvent \/ \E g \in Guids, how \in {"accepted", "lost", "slow"} :
                                       FirstDelivery(g, how) \/ Redelivery(g, how)
  PROVE  DeliveryInv'
<1>0. hour \in Nat
  BY DEF DeliveryInv, RecoveryTyped
<1>1. CASE OtherEvent
  <2> DEFINE e == [guid |-> NoRow, at |-> hour, ok |-> TRUE]
  <2>1. /\ log' = Append(log, e) /\ inflight' \subseteq inflight
        /\ UNCHANGED <<hour, scan, run, applied, rec, asked, row>>
    BY <1>1 DEF OtherEvent
  <2>2. e \in Sent /\ e.at = hour /\ e.guid = NoRow
    BY <1>0 DEF Sent
  <2> HIDE DEF e
  <2> QED
    BY <2>1, <2>2, TryKeeps, Lengths
<1>2. ASSUME NEW g \in Guids, NEW how \in {"accepted", "lost", "slow"}, FirstDelivery(g, how) \/ Redelivery(g, how)
      PROVE  DeliveryInv'
  <2>1. MayTry(g) /\ inflight' \subseteq inflight /\ Deliver(g, how)
    BY <1>2 DEF FirstDelivery, Redelivery, MayTry
  <2>2. PICK b \in BOOLEAN : b = (how = "accepted")
    OBVIOUS
  <2>3. PICK e : e = [guid |-> g, at |-> hour, ok |-> b]
    OBVIOUS
  <2>4. log' = Append(log, e) /\ UNCHANGED <<hour, scan, run, applied, rec, asked>>
    BY <2>1, <2>2, <2>3 DEF Deliver
  <2>5. e \in Sent /\ e.at = hour /\ e.guid = g
    BY <1>0, <2>2, <2>3 DEF Sent
  <2>6. UNCHANGED row \/ (row[g] = NoRow /\ row' = [row EXCEPT ![g] = [status |-> "pending", at |-> hour, tries |-> 0]])
    BY <2>1 DEF Deliver, RecordDelivery
  <2> QED
    BY <2>1, <2>4, <2>5, <2>6, TryKeeps
<1> QED
  BY <1>1, <1>2

LEMMA RecoveryStep == DeliveryInv /\ [RecoveryNext]_recoveryVars => DeliveryInv'
<1> SUFFICES ASSUME DeliveryInv, [RecoveryNext]_recoveryVars PROVE DeliveryInv'
  OBVIOUS
<1>1. CASE UNCHANGED recoveryVars
  <2>1. row \in [Guids -> DeliveryRows \cup {NoRow}] /\ rec \in [Guids -> RecoveryRows \cup {NoRow}]
        /\ applied \in [Guids -> Nat]
    BY DEF DeliveryInv, RecoveryTyped
  <2> QED
    BY <1>1, <2>1, RowStep DEF recoveryVars, RowMoves, RecMoves
<1>2. CASE RecoveryNext
  BY <1>2, DeliversKeep, ProcessKeeps, RetryKeeps, PurgeKeeps, BeginKeeps, ListKeeps, MissingKeeps, ClaimKeeps,
     RedeliverKeeps, FinishKeeps, StopsKeep, HourPasses DEF RecoveryNext
<1> QED
  BY <1>1, <1>2

(* The newest try of a delivery decides whether it still matters.             *)
LEMMA DeliveryInvIsSafe == DeliveryInv => DeliveriesSafe
<1> SUFFICES ASSUME DeliveryInv PROVE DeliveriesSafe
  OBVIOUS
<1>1. RecoveryTyped /\ LogOrdered /\ DeliveryRowsKept /\ RequestsKept /\ LostKept
  BY DEF DeliveryInv
<1>2. AppliedOnce /\ RequestsBounded
  BY <1>1 DEF AppliedOnce, RequestsBounded, DeliveryRowsKept, RequestsKept
<1>3. /\ hour \in Nat /\ scan.mark \in Nat /\ DOMAIN log = 1..Len(log) /\ Len(log) \in Nat
      /\ \A i \in DOMAIN log : log[i].at \in Nat
  BY <1>1, LogTyped DEF RecoveryTyped
<1>4. ASSUME NEW g \in Guids, LostFor(g), rec[g] = NoRow PROVE log[LastTry(g)].at > scan.mark
  <2> DEFINE T == {i \in DOMAIN log : log[i].guid = g}
  <2>1. T \subseteq 0..Len(log) /\ T # {}
    BY <1>3, <1>4 DEF LostFor
  <2>2. LastTry(g) \in T /\ \A i \in T : LastTry(g) >= i
    BY <1>3, <2>1, Largest DEF LastTry
  <2>3. Waiting(g)
    BY <1>4, <2>2 DEF Waiting, LostFor, Fresh, Tried
  <2>4. PICK i \in DOMAIN log : Tried(g, i) /\ log[i].at > scan.mark
    BY <1>1, <2>3 DEF LostKept
  <2>5. log[i].at <= log[LastTry(g)].at /\ LastTry(g) \in DOMAIN log
    BY <1>1, <1>3, <2>2, <2>4 DEF Tried, LogOrdered
  <2> QED
    BY <1>3, <2>4, <2>5
<1>5. NoneSkipped
  BY <1>4 DEF NoneSkipped
<1> QED
  BY <1>2, <1>5 DEF DeliveriesSafe

(* Whatever deliveries are lost, late, slow or redelivered, and wherever runs *)
(* of the recovery are cut short, a delivery is applied once, is not passed   *)
(* over while it matters, and is asked for a bounded number of times          *)
(* (webhooks.ts, recovery.ts, github.ts), for any lengths, pages and caps.    *)
THEOREM RecoveryIsSafe == RecoverySpec => []DeliveriesSafe
  BY RecoveryInitInv, RecoveryStep, DeliveryInvIsSafe, PTL DEF RecoverySpec

-----------------------------------------------------------------------------
(* The composition: each component's steps are its own or none.               *)

LEMMA StepsApart ==
  ASSUME [OperationsNext]_operationVars
  PROVE  /\ [AccountsNext]_accountVars /\ [PushNext]_pushVars /\ [JoinNext]_joinVars
         /\ [RecoveryNext]_recoveryVars /\ [CtlNext]_ctlVars /\ [SetupNext]_setupVars
         /\ [NodeInstallNext]_nodeVars
  BY DEF OperationsNext, operationVars

(* In every run of the errands together, a push delivery and a Worker's       *)
(* registration token count once (infra/git.ts, machines.ts).                 *)
THEOREM ArrivalsCountOnce == OperationsSpec => []ArrivalsOnce
<1>1. ASSUME OperationsInit PROVE PushInv /\ JoinInv
  BY <1>1, PushInitInv, JoinInitInv DEF OperationsInit
<1>2. ASSUME PushInv, JoinInv, [OperationsNext]_operationVars PROVE PushInv' /\ JoinInv'
  BY <1>2, StepsApart, PushStep, JoinStep
<1>3. PushInv /\ JoinInv => ArrivalsOnce
  BY DEF PushInv, JoinInv, PushesSafe, WorkersJoinOnce, ArrivalsOnce
<1> QED
  BY <1>1, <1>2, <1>3, PTL DEF OperationsSpec

(* In every run of the errands together, an owner stays and a deleted account *)
(* stays deleted (users.ts, importData.ts).                                   *)
THEOREM AccountsStaySafe == OperationsSpec => []AccountsSafe
<1>1. ASSUME OperationsInit PROVE AccountsInv
  BY <1>1, AccountsInitInv DEF OperationsInit
<1>2. ASSUME AccountsInv, [OperationsNext]_operationVars PROVE AccountsInv'
  BY <1>2, StepsApart, AccountsStep
<1>3. AccountsInv => AccountsSafe
  BY DEF AccountsInv, AccountsSafe
<1> QED
  BY <1>1, <1>2, <1>3, PTL DEF OperationsSpec

(* In every run of the errands together, webhook deliveries are applied once, *)
(* not passed over, and asked for a bounded number of times (webhooks.ts,     *)
(* recovery.ts, github.ts).                                                   *)
THEOREM DeliveriesStaySafe == OperationsSpec => []DeliveriesSafe
<1>1. ASSUME OperationsInit PROVE DeliveryInv
  BY <1>1, RecoveryInitInv DEF OperationsInit
<1>2. ASSUME DeliveryInv, [OperationsNext]_operationVars PROVE DeliveryInv'
  BY <1>2, StepsApart, RecoveryStep
<1> QED
  BY <1>1, <1>2, DeliveryInvIsSafe, PTL DEF OperationsSpec

(* The three install roles keep their promises in every run of the errands    *)
(* together, whatever fails, is killed or reboots (installScript.ts).         *)
THEOREM InstallsStaySafe == OperationsSpec => []InstallsSafe
<1>1. ASSUME OperationsInit PROVE SetupInv /\ NodeInv /\ CtlInv
  BY <1>1, SetupInitInv, NodeInitInv, CtlInitInv DEF OperationsInit
<1>2. ASSUME SetupInv, NodeInv, CtlInv, [OperationsNext]_operationVars PROVE SetupInv' /\ NodeInv' /\ CtlInv'
  BY <1>2, StepsApart, SetupStep, NodeStep, CtlStepKeeps
<1>3. SetupInv /\ NodeInv /\ CtlInv => InstallsSafe
  BY SetupInvIsSafe DEF NodeInv, CtlInv, InstallsSafe
<1> QED
  BY <1>1, <1>2, <1>3, PTL DEF OperationsSpec

(* No step of any errand spends a guess early, says "connected" of an old     *)
(* Agent or leaves a host in both Node modes (bootstrapPolicy.ts,             *)
(* installScript.ts).                                                         *)
THEOREM ErrandsStayRight == OperationsSpec => ErrandsRight
<1> DEFINE Inv == ThrottleInv /\ SetupInv /\ NodeInv
           Right == GuessesSpaced /\ ConnectedIsNew /\ OneMode
<1>1. ASSUME OperationsInit PROVE Inv
  BY <1>1, ThrottleInit, SetupInitInv, NodeInitInv DEF OperationsInit
<1>2. ASSUME Inv, [OperationsNext]_operationVars PROVE Inv'
  BY <1>2, StepsApart, ThrottleStep, SetupStep, NodeStep
<1>3. ASSUME Inv, [OperationsNext]_operationVars PROVE Right
  BY <1>2, <1>3, StepsApart, StepSpacesGuesses, StepConnectsNew, StepKeepsOneMode
<1>4. Inv /\ [OperationsNext]_operationVars => [Right]_operationVars
  BY <1>3
<1> HIDE DEF Inv
<1>5. OperationsSpec => [][Right]_operationVars
  BY <1>1, <1>2, <1>4, PTL DEF OperationsSpec
<1> QED
  BY <1>5 DEF ErrandsRight
=============================================================================
