----------------------------- MODULE Placement ------------------------------
(* Where work runs: Profiles as controllers register them, the readiness each *)
(* Worker's Agent measures and reports for them, and the scheduler's passes   *)
(* that place Attempts and Experiments on Workers. Every mutation of the      *)
(* control plane is one action; the Agent's refresh is a step per await.      *)
(* Memory is admitted as CPUs are, and only CPUs are kept. What happens to an *)
(* Attempt once it is claimed is AttemptLifecycle's; here it ends, or starts  *)
(* its job, at any time.                                                      *)
EXTENDS Integers, FiniteSets, FiniteSetsExt

CONSTANTS
  Boxes,          \* Workers
  BoxCpus,        \* CPUs of each
  FixedBoxes,     \* Workers whose slots an operator fixed
  CpusPerSlot,    \* CPUs the recommendation counts for a slot (4)
  Images,         \* Image Releases
  Destinations,   \* what an egress policy may allow by name
  HostLabels,     \* words an operator puts on a Worker
  ProfileNames,
  AtStart,        \* the Profiles' registrations at the start
  Registrations,  \* what a controller may register for a Profile, as active
  CpusSeen,       \* CPUs a probe container may report
  Room,           \* guests a Worker's snapshot pool may have room for
  Benchmarks,     \* what a Worker may measure of itself, in percent of good
  MaxWork,        \* Attempts and Experiments, in the order they are created
  MaxProfileEdits,  \* operators' and controllers' edits
  MaxHostFaults,  \* silences of Workers, failed checks and readiness grown stale
  NoBox, NoReport

Executors == {"docker", "firecracker", "tart", "hyperv"}
EgressModes == {"public", "audit", "allowlist"}

(* What a controller sends: the contract, the size of the warm pool, the      *)
(* egress policy, the pin and the extra labels of the scale set.              *)
ProfileSpec ==
  [active : {TRUE}, executor : Executors, image : Images, vcpus : Nat \ {0}, warm : Nat,
   egress : [mode : EgressModes, allowed : SUBSET Destinations], pin : SUBSET HostLabels,
   labels : SUBSET ProfileNames]

ASSUME PlacementAssumption ==
  /\ BoxCpus \in [Boxes -> Nat \ {0}] /\ CpusPerSlot \in Nat \ {0}
  /\ MaxWork \in Nat /\ NoBox \notin Boxes
  /\ AtStart \in [ProfileNames -> ProfileSpec] /\ Registrations \subseteq ProfileSpec
  /\ Benchmarks \subseteq [{"cpu", "memory", "disk", "network"} -> Nat \union {NoReport}]

Works == 1..MaxWork

VARIABLES
  profile,      \* profiles: what is registered, and whether it is active
  host,         \* machines: labels, maxSlots, usedSlots, fixed, benchmark, online
  readiness,    \* workerReadiness with its readinessEvidence, by Worker and Profile
  work,         \* attempts and experiments
  refresh,      \* each Agent's round: its copy of the Profiles, and the one it checks
  proved,       \* what preparations found ready: Worker, Profile, contract, egress
  edits, hostFaults

placeVars == <<profile, host, readiness, work, refresh, proved, edits, hostFaults>>

(* No round under way.                                                        *)
NoRound == [specs |-> [p \in ProfileNames |-> NoReport], at |-> NoReport, full |-> FALSE]

NoWork == [kind |-> "attempt", st |-> "none", p |-> NoReport, contract |-> NoReport,
           on |-> NoBox, retiring |-> FALSE]
Ended == [NoWork EXCEPT !.st = "done"]

(* The tables' rows.                                                          *)
ContractOf(r) == [executor |-> r.executor, image |-> r.image, vcpus |-> r.vcpus]
Known == Registrations \union {AtStart[p] : p \in ProfileNames}
Agreed == {ContractOf(r) : r \in Known}
ProfileRow == Known \union {[r EXCEPT !.active = FALSE] : r \in Known}
MachineRow ==
  [labels : SUBSET HostLabels, maxSlots : Nat \ {0}, usedSlots : Nat, fixed : BOOLEAN,
   bench : Benchmarks \union {NoReport}, online : BOOLEAN]
ReadinessRow ==
  [contract : Agreed, egress : {r.egress : r \in Known}, fresh : BOOLEAN,
   state : {"preparing", "ready", "degraded", "failed"}, prepared : BOOLEAN,
   room : Room \union {0}, target : Nat, held : Nat]
WorkRow ==
  [kind : {"attempt", "experiment"}, st : {"pending", "preparing", "running"},
   p : ProfileNames, contract : Agreed, on : Boxes \union {NoBox}, retiring : BOOLEAN]

PlacementTypeOK ==
  /\ profile \in [ProfileNames -> ProfileRow]
  /\ host \in [Boxes -> MachineRow]
  /\ readiness \in [Boxes -> [ProfileNames -> ReadinessRow \union {NoReport}]]
  /\ work \in [Works -> WorkRow \union {NoWork, Ended}]

-----------------------------------------------------------------------------
(* Profiles.                                                                  *)

(* A policy names its mode and what it allows. Public egress allows nothing   *)
(* by name, and an allowlist names something.                                 *)
parseProfileEgress(raw) ==
  /\ raw.mode \in EgressModes
  /\ raw.mode = "public" => raw.allowed = {}
  /\ raw.mode = "allowlist" => raw.allowed # {}

(* Only the microVM runtime enforces a policy per guest.                      *)
validRegistration(r) ==
  /\ parseProfileEgress(r.egress)
  /\ r.egress.mode # "public" => r.executor = "firecracker"
  /\ r.warm > 0 => r.executor = "firecracker"

missingHostLabels(pin, carried) == pin \ carried

(* Two scale sets of which one answers to the other's name.                   *)
scaleSetConflict(p, mine, q, theirs) == p # q /\ (q \in mine \/ p \in theirs)

conflictsOf(p, labels) ==
  {q \in ProfileNames : profile[q].active /\ scaleSetConflict(p, labels, q, profile[q].labels)}

introducedLabelConflicts(p, labels) ==
  conflictsOf(p, labels)
    \ (IF profile[p].active THEN conflictsOf(p, profile[p].labels) ELSE {})

(* An idle Attempt of a pinned Profile leaves a Worker without the labels: it *)
(* goes back to the queue, or is retired once its Runner may be online.       *)
OffPin(i, pin, machines) ==
  /\ work[i].kind = "attempt" /\ work[i].st \in {"pending", "preparing"}
  /\ work[i].on # NoBox
  /\ missingHostLabels(pin, machines[work[i].on].labels) # {}

releaseMachineSlot(machines, done) ==
  [b \in Boxes |-> [machines[b] EXCEPT !.usedSlots =
     Max({0, @ - Cardinality({i \in done : work[i].on = b})})]]

(* Mutant of retireIfOffPin: Attempts already on the Worker stay as they are. *)
retireNothing(off, machines) == work' = work /\ host' = machines

retireIfOffPin(off, machines) ==
  LET queued == {i \in off : work[i].st = "pending"}
  IN /\ work' = [i \in Works |->
          IF i \in queued THEN [work[i] EXCEPT !.on = NoBox]
          ELSE IF i \in off THEN [work[i] EXCEPT !.retiring = TRUE]
          ELSE work[i]]
     /\ host' = releaseMachineSlot(machines, queued)

registerProfile(p, r) ==
  /\ validRegistration(r)
  /\ introducedLabelConflicts(p, r.labels) = {}
  /\ edits < MaxProfileEdits /\ edits' = edits + 1
  /\ profile' = [profile EXCEPT ![p] = r]
  /\ IF r.pin = profile[p].pin THEN UNCHANGED <<work, host>>
     ELSE retireIfOffPin({i \in Works : work[i].p = p /\ OffPin(i, r.pin, host)}, host)
  /\ UNCHANGED <<readiness, refresh, proved, hostFaults>>

pauseProfile(p) ==
  /\ profile[p].active
  /\ edits < MaxProfileEdits /\ edits' = edits + 1
  /\ profile' = [profile EXCEPT ![p].active = FALSE]
  /\ UNCHANGED <<host, readiness, work, refresh, proved, hostFaults>>

-----------------------------------------------------------------------------
(* Workers.                                                                   *)

resourceRecommendedSlots(cpus) == Max({1, cpus \div CpusPerSlot})

(* Scores, of 100. What was not measured is neutral.                          *)
normalizeBenchmark(report) ==
  [d \in DOMAIN report |-> IF report[d] = NoReport THEN 50 ELSE Max({0, Min({100, report[d]})})]

(* The weakest measured dimension takes a Worker down to a quarter of its     *)
(* slots. Its distance from GitHub says nothing of what it can carry.         *)
benchmarkRecommendedSlots(slots, report) ==
  LET measured == {d \in {"cpu", "memory", "disk"} : report[d] # NoReport}
      weakest == Min({normalizeBenchmark(report)[d] : d \in measured})
  IN IF report = NoReport \/ measured = {} THEN slots
     ELSE Max({1, Min({slots, (slots * (100 + 3 * weakest)) \div 400})})

setLabels(b, labels) ==
  /\ labels # host[b].labels
  /\ edits < MaxProfileEdits /\ edits' = edits + 1
  /\ LET machines == [host EXCEPT ![b].labels = labels]
     IN retireIfOffPin({i \in Works : /\ work[i].on = b
                                      /\ OffPin(i, profile[work[i].p].pin, machines)}, machines)
  /\ UNCHANGED <<profile, readiness, refresh, proved, hostFaults>>

(* A lower recommendation drains: what is on the Worker stays.                *)
Recommend(b, report, kept) ==
  host' = [host EXCEPT ![b].bench = kept,
                     ![b].maxSlots =
    IF host[b].fixed THEN @
    ELSE benchmarkRecommendedSlots(resourceRecommendedSlots(BoxCpus[b]), report)]

reportBenchmark(b, report) ==
  /\ edits < MaxProfileEdits /\ edits' = edits + 1
  /\ Recommend(b, report, report)
  /\ UNCHANGED <<profile, readiness, work, refresh, proved, hostFaults>>

(* An Agent that starts reports its host; a benchmark a week old is ignored.  *)
(* (Before the first benchmark nothing changes.)                              *)
reportHostFacts(b, stale) ==
  /\ host[b].bench # NoReport
  /\ Recommend(b, IF stale THEN NoReport ELSE host[b].bench, host[b].bench)
  /\ UNCHANGED <<profile, readiness, work, refresh, proved, edits, hostFaults>>

Silent(b) ==
  /\ host[b].online /\ hostFaults < MaxHostFaults /\ hostFaults' = hostFaults + 1
  /\ host' = [host EXCEPT ![b].online = FALSE]
  /\ UNCHANGED <<profile, readiness, work, refresh, proved, edits>>

hostHeartbeat(b) ==
  /\ ~host[b].online
  /\ host' = [host EXCEPT ![b].online = TRUE]
  /\ UNCHANGED <<profile, readiness, work, refresh, proved, edits, hostFaults>>

(* Twelve hours without a report.                                             *)
Stale(b, p) ==
  /\ readiness[b][p] # NoReport /\ readiness[b][p].fresh
  /\ hostFaults < MaxHostFaults /\ hostFaults' = hostFaults + 1
  /\ readiness' = [readiness EXCEPT ![b][p].fresh = FALSE]
  /\ UNCHANGED <<profile, host, work, refresh, proved, edits>>

-----------------------------------------------------------------------------
(* Readiness.                                                                 *)

(* A paused Profile, and a pinned one to a Worker without its labels, is      *)
(* invisible.                                                                 *)
Discovers(b, p) ==
  profile[p].active /\ missingHostLabels(profile[p].pin, host[b].labels) = {}

(* Warm guests of all Profiles must fit the Worker.                           *)
warmPoolCapacityError(b, visible) ==
  LET warm == {p \in visible : profile[p].warm > 0}
  IN \/ MapThenSumSet(LAMBDA p : profile[p].warm, warm) > host[b].maxSlots
     \/ MapThenSumSet(LAMBDA p : profile[p].warm * profile[p].vcpus, warm)
          > Max({1, (BoxCpus[b] * 9) \div 10})

(* A round reads the Profiles once and works on that copy, however long it    *)
(* takes. Another follows when they changed meanwhile, and in any case when   *)
(* the timer fires.                                                           *)
refreshProfiles(b) ==
  LET visible == {p \in ProfileNames : Discovers(b, p)}
  IN /\ refresh[b] = NoRound /\ visible # {}
     /\ refresh' = [refresh EXCEPT ![b] =
          [specs |-> [p \in ProfileNames |-> IF p \in visible THEN profile[p] ELSE NoReport],
           at |-> NoReport, full |-> warmPoolCapacityError(b, visible)]]
     /\ UNCHANGED <<profile, host, readiness, work, proved, edits, hostFaults>>

(* Why a ready report, or a row that says ready, is no proof of the policy:   *)
(* only a microVM's evidence is asked for, and it must name the policy.       *)
readinessAdmissionError(contract, egress, policy) ==
  contract.executor = "firecracker" /\ egress # policy

(* A report for a contract the Profile no longer has is refused; so is one    *)
(* of a pool of another size, and a ready one that proves another policy.     *)
ReportRefused(b, p, spec, st, held) ==
  \/ ~profile[p].active
  \/ ContractOf(profile[p]) # ContractOf(spec)
  \/ held # NoReport /\ spec.warm # profile[p].warm
  \/ missingHostLabels(profile[p].pin, host[b].labels) # {}
  \/ st = "ready" /\ readinessAdmissionError(ContractOf(spec), spec.egress, profile[p].egress)

sameContract(old, p) ==
  /\ old # NoReport
  /\ old.contract = ContractOf(profile[p]) /\ old.target = profile[p].warm

(* The row and its evidence are written together. What a report does not say  *)
(* of the warm pool, the row keeps while the contract is the same. Degraded   *)
(* is a contract that was ready once and is not now.                          *)
reportReadiness(b, p, spec, st, held, room) ==
  LET old == readiness[b][p]
      same == sameContract(old, p)
      prepared == st = "ready" \/ (same /\ old.prepared)
  IN readiness' = [readiness EXCEPT ![b][p] =
       [contract |-> ContractOf(spec), egress |-> spec.egress, fresh |-> TRUE,
        state |-> IF st = "failed" /\ prepared THEN "degraded" ELSE st,
        prepared |-> prepared, room |-> room,
        target |-> IF held # NoReport THEN spec.warm ELSE IF same THEN old.target ELSE 0,
        held |-> IF held # NoReport THEN held ELSE IF same THEN old.held ELSE 0]]

(* An error ends the round; the timer starts another.                         *)
EndRound(b) == refresh' = [refresh EXCEPT ![b] = NoRound]

ReportPreparing(b, p) ==
  LET spec == refresh[b].specs[p] IN
  /\ refresh[b].at = NoReport /\ spec # NoReport
  /\ IF ReportRefused(b, p, spec, "preparing", NoReport) THEN EndRound(b) /\ UNCHANGED readiness
     ELSE /\ reportReadiness(b, p, spec, "preparing", NoReport, 0)
          /\ refresh' = [refresh EXCEPT ![b].at = p]
  /\ UNCHANGED <<profile, host, work, proved, edits, hostFaults>>

(* What the checks of a host find; "sound" is whether its daemon, its runtime *)
(* and the image are. The runtime says how many warm guests it holds, unless  *)
(* its preflight failed first.                                                *)
Found(ready, held) == [st |-> IF ready THEN "ready" ELSE "failed", held |-> held]

(* A probe container must see the CPUs it was given, not the host's.          *)
jobResourceVisibility(spec, seen) == seen = spec.vcpus

(* A container wider than the Worker can never be given its cores.            *)
prepareDocker(b, spec, sound, seen) ==
  {Found(spec.vcpus <= BoxCpus[b] /\ sound /\ jobResourceVisibility(spec, seen), NoReport)}

prepareFirecracker(spec, sound) ==
  IF sound THEN {Found(TRUE, spec.warm)}
  ELSE {Found(FALSE, held) : held \in {NoReport} \union (0..spec.warm)}

prepareHyperV(sound) == {Found(sound, NoReport)}

prepareProfile(b, spec, sound, seen) ==
  CASE spec.executor = "docker" -> prepareDocker(b, spec, sound, seen)
    [] spec.executor = "firecracker" -> prepareFirecracker(spec, sound)
    [] OTHER -> prepareHyperV(sound)

(* The report of what was found. Pools the Worker cannot hold are not filled. *)
ReportPrepared(b, sound, seen, room) ==
  LET p == refresh[b].at
      spec == refresh[b].specs[p]
      fit == sound /\ (spec.executor = "docker" => seen = spec.vcpus)
      blocked == refresh[b].full /\ spec.warm > 0
      left == [refresh[b] EXCEPT !.specs[p] = NoReport, !.at = NoReport]
  IN /\ p # NoReport
     /\ spec.executor # "docker" => seen = Min(CpusSeen)  \* no probe: one value will do
     /\ IF fit THEN UNCHANGED hostFaults
        ELSE hostFaults < MaxHostFaults /\ hostFaults' = hostFaults + 1
     /\ \E found \in IF blocked THEN {Found(FALSE, NoReport)}
                      ELSE prepareProfile(b, spec, sound, seen) :
          IF ReportRefused(b, p, spec, found.st, found.held) THEN EndRound(b) /\ UNCHANGED readiness
          ELSE /\ reportReadiness(b, p, spec, found.st, found.held, room)
               /\ refresh' = [refresh EXCEPT ![b] =
                    IF \A q \in ProfileNames : left.specs[q] = NoReport THEN NoRound ELSE left]
     /\ proved' = proved \union
          (IF fit /\ ~blocked THEN {<<b, p, ContractOf(spec), spec.egress>>} ELSE {})
     /\ UNCHANGED <<profile, host, work, edits>>

(* A call to the control plane, or to the runtime, that throws.               *)
RefreshFails(b) ==
  /\ refresh[b] # NoRound
  /\ hostFaults < MaxHostFaults /\ hostFaults' = hostFaults + 1
  /\ EndRound(b)
  /\ UNCHANGED <<profile, host, readiness, work, proved, edits>>

-----------------------------------------------------------------------------
(* Scheduling.                                                                *)

LiveWork(i) == work[i].st \in {"pending", "preparing", "running"}
PlacedNow == [i \in Works |-> work[i].on]
OnBox(b, on) == {i \in Works : LiveWork(i) /\ on[i] = b}

(* Mutant of isSchedulableReadiness: what was ready stays ready, whatever the *)
(* Profile's policy has become.                                               *)
schedulableUnderAnyPolicy(b, i) ==
  LET r == readiness[b][work[i].p] IN
  /\ r # NoReport
  /\ r.state = "ready" /\ r.fresh /\ host[b].online
  /\ missingHostLabels(profile[work[i].p].pin, host[b].labels) = {}
  /\ r.contract = work[i].contract

isSchedulableReadiness(b, i) ==
  LET r == readiness[b][work[i].p] IN
  /\ r # NoReport
  /\ r.state = "ready" /\ r.fresh /\ host[b].online
  /\ missingHostLabels(profile[work[i].p].pin, host[b].labels) = {}
  /\ r.contract = work[i].contract
  /\ ~readinessAdmissionError(r.contract, r.egress, profile[work[i].p].egress)

(* A tenth of a Worker is kept back, unless one guest takes all of it.        *)
usable(cpus, vcpus) == IF cpus <= vcpus THEN cpus ELSE (cpus * 9) \div 10

(* Warm guests of a Profile that no work of it uses yet.                      *)
idleWarm(b, p, on) ==
  LET r == readiness[b][p] IN
  IF /\ r # NoReport /\ host[b].online /\ profile[p].active
     /\ sameContract(r, p)
  THEN Max({0, r.held - Cardinality({i \in OnBox(b, on) : work[i].p = p})})
  ELSE 0

(* What is reserved on a Worker when work is placed as "on" says.             *)
reservedCpus(b, on) ==
  MapThenSumSet(LAMBDA i : work[i].contract.vcpus, OnBox(b, on))
    + MapThenSumSet(LAMBDA p : idleWarm(b, p, on) * profile[p].vcpus, ProfileNames)

reservedGuests(b, on) ==
  Cardinality(OnBox(b, on)) + MapThenSumSet(LAMBDA p : idleWarm(b, p, on), ProfileNames)

occupiedGuests(b, on) ==
  Max({reservedGuests(b, on), host[b].usedSlots + Cardinality(OnBox(b, on) \ OnBox(b, PlacedNow))})

hasSnapshotHeadroomForGuests(b, p, guests) ==
  readiness[b][p].contract.executor = "firecracker" => guests <= readiness[b][p].room

(* A warm guest already has its reservation.                                  *)
Admits(b, i, on) ==
  LET fresh == IF idleWarm(b, work[i].p, on) > 0 THEN 0 ELSE 1
      guests == occupiedGuests(b, on) + fresh
  IN /\ guests <= host[b].maxSlots
     /\ reservedCpus(b, on) + fresh * work[i].contract.vcpus
          <= usable(BoxCpus[b], work[i].contract.vcpus)
     /\ hasSnapshotHeadroomForGuests(b, work[i].p, guests)

(* Work spreads: c is under less pressure than b, as fractions compare.       *)
Lighter(c, b, i, on) ==
  LET pressure(h) == {<<reservedCpus(h, on), usable(BoxCpus[h], work[i].contract.vcpus)>>,
                      <<occupiedGuests(h, on), host[h].maxSlots>>}
  IN \E x \in pressure(b) : \A y \in pressure(c) : y[1] * x[2] < x[1] * y[2]

matchesActiveProfile(i) ==
  profile[work[i].p].active /\ ContractOf(profile[work[i].p]) = work[i].contract

unassignedQueue ==
  {i \in Works : work[i].st = "pending" /\ work[i].on = NoBox /\ matchesActiveProfile(i)}

(* Oldest first, each seeing where the earlier ones went. The benchmark and   *)
(* the name only order Workers under the same pressure.                       *)
placeInOrder(f) ==
  \A i \in unassignedQueue :
    LET on == [j \in Works |->
                 IF j \notin unassignedQueue THEN work[j].on
                 ELSE IF j < i THEN f[j] ELSE NoBox]
        candidates == {b \in Boxes : isSchedulableReadiness(b, i) /\ Admits(b, i, on)}
    IN IF candidates = {} THEN f[i] = NoBox
       ELSE f[i] \in candidates /\ \A c \in candidates : ~Lighter(c, f[i], i, on)

tryAssign ==
  /\ \E f \in [unassignedQueue -> Boxes \union {NoBox}] :
       /\ placeInOrder(f)
       /\ \E i \in unassignedQueue : f[i] # NoBox
       /\ work' = [i \in Works |->
            IF i \in unassignedQueue THEN [work[i] EXCEPT !.on = f[i]] ELSE work[i]]
       /\ host' = [b \in Boxes |-> [host[b] EXCEPT !.usedSlots =
            @ + Cardinality({i \in unassignedQueue : f[i] = b})]]
  /\ UNCHANGED <<profile, readiness, refresh, proved, edits, hostFaults>>

-----------------------------------------------------------------------------
(* Work.                                                                      *)

Restful == UNCHANGED <<profile, readiness, refresh, proved, edits, hostFaults>>

(* A controller asks for an Attempt, or an operator for an Experiment, which  *)
(* takes a microVM.                                                           *)
create(p, kind) ==
  /\ profile[p].active
  /\ kind = "experiment" => profile[p].executor = "firecracker"
  /\ \E i \in Works :
       /\ work[i].st = "none" /\ \A j \in Works : j < i => work[j].st # "none"
       /\ work' = [work EXCEPT ![i] =
            [kind |-> kind, st |-> "pending", p |-> p, contract |-> ContractOf(profile[p]),
             on |-> NoBox, retiring |-> FALSE]]
  /\ UNCHANGED host /\ Restful

claimWork(i) ==
  /\ work[i].st = "pending" /\ work[i].on # NoBox
  /\ work' = [work EXCEPT ![i].st = "preparing"]
  /\ UNCHANGED host /\ Restful

(* A job that reaches a retiring Runner first keeps it.                       *)
markRunning(i) ==
  /\ work[i].st = "preparing"
  /\ work' = [work EXCEPT ![i].st = "running", ![i].retiring = FALSE]
  /\ UNCHANGED host /\ Restful

(* Whoever ends live work first gives the slot back.                          *)
EndWork(i) ==
  /\ work' = [work EXCEPT ![i] = Ended]
  /\ host' = releaseMachineSlot(host, {i})
  /\ Restful

reportExperiment(i) ==
  /\ work[i].kind = "experiment" /\ work[i].st \in {"preparing", "running"}
  /\ EndWork(i)

cancelExperiment(i) == work[i].kind = "experiment" /\ LiveWork(i) /\ EndWork(i)

(* The end of an Attempt, whatever ends it.                                   *)
AttemptEnds(i) == work[i].kind = "attempt" /\ LiveWork(i) /\ EndWork(i)

(* One pass of the reconciler over pending work and Experiments; "late" are   *)
(* those past a deadline. At its end it counts the slots again.               *)
Gone(i, late) ==
  \/ i \in late /\ work[i].on = NoBox /\ work[i].st = "pending"
  \/ /\ work[i].kind = "experiment" /\ work[i].on # NoBox
     /\ \/ work[i].st = "preparing" /\ (i \in late \/ ~host[work[i].on].online)
        \/ work[i].st = "running" /\ i \in late

Lost(i) == work[i].st = "pending" /\ work[i].on # NoBox /\ ~host[work[i].on].online

recount(w) ==
  [b \in Boxes |-> [host[b] EXCEPT !.usedSlots =
     Cardinality({i \in Works : w[i].st \in {"pending", "preparing", "running"} /\ w[i].on = b})]]

reconcileWork(late) ==
  LET after == [i \in Works |->
        IF Gone(i, late) THEN Ended
        ELSE IF Lost(i) THEN [work[i] EXCEPT !.on = NoBox]
        ELSE work[i]]
  IN /\ work' = after /\ work' # work
     /\ host' = recount(after)
     /\ Restful

-----------------------------------------------------------------------------
(* The fleet starts with its first Profiles registered and no report.         *)
PlacementInit ==
  /\ profile = AtStart
  /\ \A p, q \in ProfileNames :
       /\ validRegistration(profile[p])
       /\ ~scaleSetConflict(p, profile[p].labels, q, profile[q].labels)
  /\ host = [b \in Boxes |->
       [labels |-> HostLabels, maxSlots |-> resourceRecommendedSlots(BoxCpus[b]),
        usedSlots |-> 0, bench |-> NoReport, fixed |-> b \in FixedBoxes, online |-> TRUE]]
  /\ readiness = [b \in Boxes |-> [p \in ProfileNames |-> NoReport]]
  /\ work = [i \in Works |-> NoWork]
  /\ refresh = [b \in Boxes |-> NoRound]
  /\ proved = {} /\ edits = 0 /\ hostFaults = 0

AgentRefreshes(b) ==
  \/ refreshProfiles(b)
  \/ \E p \in ProfileNames : ReportPreparing(b, p)
  \/ \E sound \in BOOLEAN, seen \in CpusSeen, room \in Room :
       ReportPrepared(b, sound, seen, room)

PlacementNext ==
  \/ \E p \in ProfileNames, r \in Registrations : registerProfile(p, r)
  \/ \E p \in ProfileNames : pauseProfile(p)
  \/ \E b \in Boxes, labels \in SUBSET HostLabels : setLabels(b, labels)
  \/ \E b \in Boxes, report \in Benchmarks : reportBenchmark(b, report)
  \/ \E b \in Boxes, stale \in BOOLEAN : reportHostFacts(b, stale)
  \/ \E b \in Boxes : Silent(b) \/ hostHeartbeat(b) \/ RefreshFails(b) \/ AgentRefreshes(b)
  \/ \E b \in Boxes, p \in ProfileNames : Stale(b, p)
  \/ tryAssign
  \/ \E p \in ProfileNames, kind \in {"attempt", "experiment"} : create(p, kind)
  \/ \E i \in Works : \/ claimWork(i) \/ markRunning(i)
                      \/ reportExperiment(i) \/ cancelExperiment(i) \/ AttemptEnds(i)
  \/ \E late \in SUBSET Works : reconcileWork(late)

PlacementSpec == PlacementInit /\ [][PlacementNext]_placeVars

-----------------------------------------------------------------------------
(* Work holds its slot exactly while it is live on a Worker, whoever ends it. *)
SlotsCounted == \A b \in Boxes : host[b].usedSlots = Cardinality(OnBox(b, PlacedNow))

(* An Attempt that GitHub could still hand a job, and that is not retiring,   *)
(* is on a Worker that carries the labels its Profile is pinned to.           *)
PinKept ==
  \A i \in Works :
    /\ work[i].kind = "attempt" /\ work[i].st \in {"pending", "preparing"}
    /\ work[i].on # NoBox /\ ~work[i].retiring
    => missingHostLabels(profile[work[i].p].pin, host[work[i].on].labels) = {}

(* No two active Profiles' scale sets answer for each other.                  *)
LabelsApart ==
  \A p, q \in ProfileNames :
    profile[p].active /\ profile[q].active
    => ~scaleSetConflict(p, profile[p].labels, q, profile[q].labels)

PlacementSound == PlacementTypeOK /\ SlotsCounted /\ PinKept /\ LabelsApart

(* What a pass places, it places on a Worker that has proved the work's       *)
(* contract under the egress its Profile has now.                             *)
GoesTo(i, b) == LiveWork(i) /\ work[i].on = NoBox /\ work'[i].on = b
PlacedProven ==
  \A i \in Works, b \in Boxes :
    GoesTo(i, b)
    => <<b, work[i].p, work[i].contract, profile[work[i].p].egress>> \in proved

(* A pass places work on a Worker that has proved the work's contract under   *)
(* the egress its Profile has now, and leaves it within its slots and its     *)
(* share of CPUs, warm guests included.                                       *)
PlacedWithin ==
  [][/\ PlacedProven
     /\ \A i \in Works, b \in Boxes :
          GoesTo(i, b)
          => /\ occupiedGuests(b, PlacedNow)' <= host[b].maxSlots
             /\ reservedCpus(b, PlacedNow)' <= usable(BoxCpus[b], work[i].contract.vcpus)]_placeVars
=============================================================================
