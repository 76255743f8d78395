----------------------------- MODULE WorkerCores -----------------------------
(* The CPUs of one Worker: the Agent's CoreAllocator hands them out in        *)
(* disjoint ranges, withCores reserves and releases them around every piece   *)
(* of work, and reconcileDockerReservations accounts for the containers an    *)
(* earlier Agent left running (cpuset.ts, and its callers in index.ts).       *)
(*                                                                            *)
(* The allocator is synchronous, so a method is part of one action. A pass of *)
(* the reconciler awaits Docker twice, and whatever runs between is another   *)
(* action: containers exit, work ends, other work reserves.                   *)
EXTENDS Naturals, FiniteSets

CONSTANTS
  Work,    \* Attempts, Experiments and readiness probes that come to the Worker
  Docker,  \* those that run in a container, which is named after them
  Vcpus,   \* what each asks for
  Cores,   \* the Worker's CPU ids
  Faults   \* what may go wrong: see the actions that name a fault

ASSUME CoreConstants ==
  /\ IsFiniteSet(Work) /\ Docker \subseteq Work
  /\ Cores \subseteq Nat /\ IsFiniteSet(Cores)
  /\ Vcpus \in [Work -> Nat \ {0}]
  /\ Faults \subseteq {"ps", "inspect", "teardown", "unlisted"}

VARIABLES
  agent,      \* "down", "starting" until the first reconcile is over, "accepting"
  phase,      \* per Work: whether the Agent is inside its withCores
  free,       \* the allocator's free cores
  mine,       \* per Work: the cores reserved for it by this Agent
  adopted,    \* per Work: the cores held for its container, started by an earlier Agent
  container,  \* per Work: what the Docker daemon runs
  cpuset,     \* per Work: HostConfig.CpusetCpus of its container
  pass,       \* where the reconcile in progress is
  seen,       \* the containers it has read
  timer       \* "set" when another pass is scheduled

vars == <<agent, phase, free, mine, adopted, container, cpuset, pass, seen, timer>>

TypeOK ==
  /\ agent \in {"down", "starting", "accepting"}
  /\ phase \in [Work -> {"queued", "running", "ended"}]
  /\ free \subseteq Cores
  /\ mine \in [Work -> SUBSET Cores]
  /\ adopted \in [Work -> SUBSET Cores]
  /\ container \in [Work -> {"none", "up", "gone"}]
  /\ cpuset \in [Work -> SUBSET Cores]
  /\ pass \in {"idle", "listed", "inspected"}
  /\ seen \subseteq Docker
  /\ timer \in {"unset", "set"}

Nothing == [w \in Work |-> {}]

Init ==
  /\ agent = "down"
  /\ phase = [w \in Work |-> "queued"]
  /\ free = Cores
  /\ mine = Nothing
  /\ adopted = Nothing
  /\ container = [w \in Work |-> "none"]
  /\ cpuset = Nothing
  /\ pass = "idle"
  /\ seen = {}
  /\ timer = "unset"

Up == {w \in Docker : container[w] = "up"}

-----------------------------------------------------------------------------
(* CoreAllocator and withCores                                               *)

\* The lowest free cores that cover n.
Lowest(n) ==
  {S \in SUBSET free : Cardinality(S) = n /\ \A c \in S, d \in free \ S : c < d}

\* withCores reserves before it runs the body.
reserve(w) ==
  /\ agent = "accepting" /\ phase[w] = "queued"
  /\ \E S \in Lowest(Vcpus[w]) :
       /\ mine' = [mine EXCEPT ![w] = S]
       /\ free' = free \ S
  /\ phase' = [phase EXCEPT ![w] = "running"]
  /\ UNCHANGED <<agent, adopted, container, cpuset, pass, seen, timer>>

\* CoreExhaustedError: the claimed work fails. The Agent saw a free core when it
\* claimed the work, before it knew how many were needed.
CoreExhausted(w) ==
  /\ agent = "accepting" /\ phase[w] = "queued"
  /\ Vcpus[w] > Cardinality(free)
  /\ phase' = [phase EXCEPT ![w] = "ended"]
  /\ UNCHANGED <<agent, free, mine, adopted, container, cpuset, pass, seen, timer>>

\* The provisioner starts the container on the cores reserved for it.
ContainerStarts(w) ==
  /\ w \in Docker /\ phase[w] = "running" /\ container[w] = "none"
  /\ container' = [container EXCEPT ![w] = "up"]
  /\ cpuset' = [cpuset EXCEPT ![w] = mine[w]]
  /\ UNCHANGED <<agent, phase, free, mine, adopted, pass, seen, timer>>

ContainerExits(w) ==
  /\ container[w] = "up"
  /\ container' = [container EXCEPT ![w] = "gone"]
  /\ UNCHANGED <<agent, phase, free, mine, adopted, cpuset, pass, seen, timer>>

\* withCores releases on the way out of the body. The provisioner has removed the
\* container before it exits, unless `docker rm` failed or it was killed ("teardown").
release(w) ==
  /\ phase[w] = "running"
  /\ container[w] # "up" \/ "teardown" \in Faults
  /\ phase' = [phase EXCEPT ![w] = "ended"]
  /\ free' = free \cup mine[w]
  /\ mine' = [mine EXCEPT ![w] = {}]
  /\ UNCHANGED <<agent, adopted, container, cpuset, pass, seen, timer>>

-----------------------------------------------------------------------------
(* The Agent process                                                         *)

\* Killed outright: reservations are gone, containers run on.
AgentDies ==
  /\ agent # "down"
  /\ agent' = "down"
  /\ phase' = [w \in Work |-> IF phase[w] = "running" THEN "ended" ELSE phase[w]]
  /\ free' = Cores
  /\ mine' = Nothing
  /\ adopted' = Nothing
  /\ pass' = "idle"
  /\ seen' = {}
  /\ timer' = "unset"
  /\ UNCHANGED <<container, cpuset>>

\* Mutant of AgentStarts: work is accepted before the first reconcile.
AcceptsAtOnce ==
  /\ agent = "down"
  /\ agent' = "accepting"
  /\ timer' = "set"
  /\ UNCHANGED <<phase, free, mine, adopted, container, cpuset, pass, seen>>

\* The first reconcile is skipped when no Docker Profile is offered ("unlisted").
AgentStarts ==
  /\ agent = "down"
  /\ agent' \in {"starting"} \cup (IF "unlisted" \in Faults THEN {"accepting"} ELSE {})
  /\ UNCHANGED <<phase, free, mine, adopted, container, cpuset, pass, seen, timer>>

-----------------------------------------------------------------------------
(* reconcileDockerReservations                                               *)

PassDue == pass = "idle" /\ (agent = "starting" \/ (agent = "accepting" /\ timer = "set"))

\* docker ps
listContainers ==
  /\ PassDue
  /\ pass' = "listed"
  /\ seen' = Up
  /\ timer' = "unset"
  /\ UNCHANGED <<agent, phase, free, mine, adopted, container, cpuset>>

\* Mutant of listFails: only a pass that left something adopted schedules another.
ListFailsForGood ==
  /\ PassDue /\ "ps" \in Faults
  /\ timer' = "unset"
  /\ agent' = "accepting"
  /\ UNCHANGED <<phase, free, mine, adopted, container, cpuset, pass, seen>>

\* docker ps fails ("ps"): nothing changes, another pass is scheduled, and the Agent
\* goes on to accept work even when this was its first.
listFails ==
  /\ PassDue /\ "ps" \in Faults
  /\ timer' = "set"
  /\ agent' = "accepting"
  /\ UNCHANGED <<phase, free, mine, adopted, container, cpuset, pass, seen>>

\* docker inspect of the listed names prints those that still run. It may print fewer
\* when it fails or times out ("inspect"): its exit code is not consulted.
inspectContainers ==
  /\ pass = "listed"
  /\ pass' = "inspected"
  /\ seen' \in {seen \cap Up} \cup (IF "inspect" \in Faults THEN SUBSET (seen \cap Up) ELSE {})
  /\ UNCHANGED <<agent, phase, free, mine, adopted, container, cpuset, timer>>

\* The adopted containers that were not read have exited.
Released == {w \in Work : adopted[w] # {} /\ w \notin seen}

\* Containers that were read and that no reservation names.
Unaccounted == {w \in seen : mine[w] = {} /\ adopted[w] = {}}

\* hold refuses a range that is not entirely free; the containers are tried in some order.
Adoptable(avail) ==
  {A \in SUBSET Unaccounted :
     /\ \A w \in A : cpuset[w] # {} /\ cpuset[w] \subseteq avail
     /\ \A v, w \in A : v # w => cpuset[v] \cap cpuset[w] = {}
     /\ \A w \in Unaccounted \ A :
          cpuset[w] = {} \/ ~(cpuset[w] \subseteq avail \ UNION {cpuset[v] : v \in A})}

\* Mutant of applyPass: holds the range of every container that was read.
ApplyPassHoldsAll ==
  LET avail == free \cup UNION {adopted[w] : w \in Released} IN
  /\ pass = "inspected"
  /\ adopted' = [w \in Work |-> IF w \in Unaccounted THEN cpuset[w]
                                ELSE IF w \in Released THEN {} ELSE adopted[w]]
  /\ free' = avail \ UNION {cpuset[w] : w \in Unaccounted}
  /\ timer' = IF adopted' # Nothing THEN "set" ELSE "unset"
  /\ agent' = "accepting"
  /\ pass' = "idle"
  /\ seen' = {}
  /\ UNCHANGED <<phase, mine, container, cpuset>>

\* The rest of the pass has no await: release what has exited, adopt what is left, and
\* schedule another pass while anything is adopted.
applyPass ==
  LET avail == free \cup UNION {adopted[w] : w \in Released} IN
  /\ pass = "inspected"
  /\ \E A \in Adoptable(avail) :
       /\ adopted' = [w \in Work |-> IF w \in A THEN cpuset[w]
                                     ELSE IF w \in Released THEN {} ELSE adopted[w]]
       /\ free' = avail \ UNION {cpuset[w] : w \in A}
  /\ timer' = IF adopted' # Nothing THEN "set" ELSE "unset"
  /\ agent' = "accepting"
  /\ pass' = "idle"
  /\ seen' = {}
  /\ UNCHANGED <<phase, mine, container, cpuset>>

-----------------------------------------------------------------------------

Next ==
  \/ \E w \in Work : \/ reserve(w) \/ CoreExhausted(w) \/ release(w)
                     \/ ContainerStarts(w) \/ ContainerExits(w)
  \/ AgentDies \/ AgentStarts
  \/ listContainers \/ listFails \/ inspectContainers \/ applyPass

Spec == Init /\ [][Next]_vars

\* Docker's commands end (they have a timeout), and docker ps does not fail for ever.
CoresFairness ==
  /\ SF_vars(listContainers) /\ WF_vars(inspectContainers) /\ WF_vars(applyPass)
-----------------------------------------------------------------------------
(* What the allocator promises                                               *)

\* Every core is free or belongs to exactly one reservation, whatever Docker answers and
\* whatever ends between the two commands of a pass: none is double-booked in the
\* allocator's books and none is lost to them.
CoresPartitioned ==
  /\ \A c \in Cores : c \in free <=> \A w \in Work : c \notin mine[w] \cup adopted[w]
  /\ \A v, w \in Work : mine[v] \cap adopted[w] = {}
  /\ \A v, w \in Work : v # w => mine[v] \cap mine[w] = {} /\ adopted[v] \cap adopted[w] = {}

\* "disjoint from every other Attempt and Experiment running on that Worker": no two
\* containers that run, those of a dead Agent included, are pinned to the same core.
PinnedApart ==
  \A v, w \in Up : v # w => cpuset[v] \cap cpuset[w] = {}

\* "the cores come back when the orphan finally exits", also when Docker fails for a while:
\* no core stays held for a container that is gone.
CoresSettled == \A w \in Work : ~(adopted[w] # {} /\ container[w] = "gone")
=============================================================================
