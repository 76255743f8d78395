-------------------------- MODULE WorkerCoresProofs --------------------------
(* The allocator's books balance whatever fails, and when nothing fails no two *)
(* running containers share a core.                                           *)
EXTENDS WorkerCores, FiniteSetTheorems, TLAPS

\* What the books and a pass say of each piece of work.
WorkCoherent(w) ==
  /\ phase[w] # "running" => mine[w] = {}
  /\ phase[w] = "queued" => container[w] = "none"
  /\ container[w] # "none" => w \in Docker
  /\ adopted[w] # {} \/ w \in seen => container[w] # "none"
  /\ agent # "accepting" => phase[w] # "running" /\ adopted[w] = {}

Coherent == TypeOK /\ CoresPartitioned /\ (\A w \in Work : WorkCoherent(w))

LEMMA InitCoherent == Init => Coherent
  BY CoreConstants DEF Init, Coherent, TypeOK, CoresPartitioned, WorkCoherent, Nothing

LEMMA WorkStepCoherent ==
  ASSUME Coherent, NEW w \in Work,
         reserve(w) \/ CoreExhausted(w) \/ release(w) \/ ContainerStarts(w) \/ ContainerExits(w)
  PROVE  Coherent'
<1> USE CoreConstants DEF Coherent, TypeOK, CoresPartitioned, WorkCoherent
<1>1. CASE reserve(w)
  <2>1. PICK S \in SUBSET free : mine' = [mine EXCEPT ![w] = S] /\ free' = free \ S
    BY <1>1 DEF reserve, Lowest
  <2>2. mine[w] = {}
    BY <1>1 DEF reserve
  <2>3. /\ mine'[w] = S /\ \A v \in Work : v # w => mine'[v] = mine[v]
        /\ adopted' = adopted
    BY <1>1, <2>1 DEF reserve
  <2>4. \A c \in S : c \in Cores /\ \A v \in Work : c \notin mine[v] /\ c \notin adopted[v]
    BY <2>1
  <2>5. \A c \in Cores : c \in free' <=> \A v \in Work : c \notin mine'[v] \cup adopted'[v]
    BY <2>1, <2>2, <2>3
  <2>6. \A u, v \in Work : mine'[u] \cap adopted'[v] = {}
    BY <2>3, <2>4
  <2>7. \A u, v \in Work :
          u # v => mine'[u] \cap mine'[v] = {} /\ adopted'[u] \cap adopted'[v] = {}
    <3>1. ASSUME NEW v \in Work PROVE S \cap mine[v] = {}
      BY <2>4
    <3>2. \A u, v \in Work : u # v => mine[u] \cap mine[v] = {} /\ adopted[u] \cap adopted[v] = {}
      OBVIOUS
    <3> SUFFICES ASSUME NEW u \in Work, NEW v \in Work, u # v
                 PROVE  mine'[u] \cap mine'[v] = {} /\ adopted'[u] \cap adopted'[v] = {}
      OBVIOUS
    <3>3. CASE u = w
      BY <2>3, <3>1, <3>2, <3>3
    <3>4. CASE v = w
      BY <2>3, <3>1, <3>2, <3>4
    <3>5. CASE u # w /\ v # w
      BY <2>3, <3>2, <3>5
    <3> QED BY <3>3, <3>4, <3>5
  <2>8. TypeOK'
    BY <1>1, <2>1 DEF reserve
  <2>9. ASSUME NEW v \in Work PROVE WorkCoherent(v)'
    BY <1>1, <2>3 DEF reserve
  <2> QED BY <2>5, <2>6, <2>7, <2>8, <2>9
<1>2. CASE CoreExhausted(w)
  BY <1>2 DEF CoreExhausted
<1>3. CASE release(w)
  <2>1. /\ mine'[w] = {} /\ \A v \in Work : v # w => mine'[v] = mine[v]
        /\ adopted' = adopted /\ free' = free \cup mine[w]
    BY <1>3 DEF release
  <2>2. CoresPartitioned'
    BY <2>1
  <2>3. TypeOK'
    BY <1>3 DEF release
  <2>4. ASSUME NEW v \in Work PROVE WorkCoherent(v)'
    BY <1>3, <2>1 DEF release
  <2> QED BY <2>2, <2>3, <2>4
<1>4. CASE ContainerStarts(w)
  BY <1>4 DEF ContainerStarts
<1>5. CASE ContainerExits(w)
  BY <1>5 DEF ContainerExits
<1> QED BY <1>1, <1>2, <1>3, <1>4, <1>5

LEMMA AgentStepCoherent ==
  ASSUME Coherent,
         AgentDies \/ AgentStarts \/ listContainers \/ listFails \/ inspectContainers
  PROVE  Coherent'
<1> USE CoreConstants DEF Coherent, TypeOK, CoresPartitioned, WorkCoherent
<1>1. CASE AgentDies
  BY <1>1 DEF AgentDies, Nothing
<1>2. CASE AgentStarts
  BY <1>2 DEF AgentStarts
<1>3. CASE listContainers
  BY <1>3 DEF listContainers, Up
<1>4. CASE listFails
  BY <1>4 DEF listFails
<1>5. CASE inspectContainers
  <2>1. seen' \subseteq seen
    BY <1>5 DEF inspectContainers
  <2> QED BY <1>5, <2>1 DEF inspectContainers
<1> QED BY <1>1, <1>2, <1>3, <1>4, <1>5

LEMMA applyPassCoherent ==
  ASSUME Coherent, applyPass
  PROVE  Coherent'
<1> USE CoreConstants DEF Coherent, TypeOK
<1> DEFINE avail == free \cup UNION {adopted[w] : w \in Released}
<1>1. PICK A \in Adoptable(avail) :
        /\ adopted' = [w \in Work |-> IF w \in A THEN cpuset[w]
                                      ELSE IF w \in Released THEN {} ELSE adopted[w]]
        /\ free' = avail \ UNION {cpuset[w] : w \in A}
  BY DEF applyPass
<1>2. /\ A \subseteq seen /\ A \subseteq Work
      /\ \A w \in A : mine[w] = {} /\ adopted[w] = {} /\ cpuset[w] \subseteq avail
      /\ \A v, w \in A : v # w => cpuset[v] \cap cpuset[w] = {}
  BY DEF Adoptable, Unaccounted
<1>3. \A w \in Work : adopted'[w] = IF w \in A THEN cpuset[w]
                                    ELSE IF w \in Released THEN {} ELSE adopted[w]
  BY <1>1
<1>4. \A c \in Cores : c \in avail <=> (c \in free \/ \E w \in Released : c \in adopted[w])
  OBVIOUS
<1>5. \A c \in Cores : c \in free' <=> (c \in avail /\ \A w \in A : c \notin cpuset[w])
  BY <1>1
<1>6. mine' = mine /\ phase' = phase /\ container' = container /\ cpuset' = cpuset
      /\ agent' = "accepting" /\ seen' = {} /\ pass' = "idle"
  BY DEF applyPass
<1>7. TypeOK'
  <2>1. Released \subseteq Work /\ \A w \in Work : adopted[w] \subseteq Cores
    BY DEF Released
  <2>2. avail \subseteq Cores
    BY <2>1
  <2>3. \A w \in Work : cpuset[w] \subseteq Cores
    OBVIOUS
  <2> HIDE DEF avail
  <2>4. free' \subseteq Cores
    BY <1>1, <2>2
  <2>5. adopted' \in [Work -> SUBSET Cores]
    BY <1>1, <2>1, <2>3
  <2> QED BY <1>6, <2>4, <2>5 DEF applyPass
<1>8. CoresPartitioned'
  <2> HIDE DEF avail
  <2>0. Released \subseteq Work
    BY DEF Released
  <2>1. ASSUME NEW v \in Work, NEW w \in Work PROVE mine[v] \cap adopted'[w] = {}
    <3>1. CASE w \in A
      <4>1. ASSUME NEW c, c \in mine[v] PROVE c \notin avail
        BY <1>4, <2>0, <4>1 DEF CoresPartitioned
      <4> QED BY <1>2, <1>3, <3>1, <4>1
    <3>2. CASE w \notin A
      BY <1>3, <3>2 DEF CoresPartitioned
    <3> QED BY <3>1, <3>2
  <2>2. ASSUME NEW v \in Work, NEW w \in Work, v # w PROVE adopted'[v] \cap adopted'[w] = {}
    <3>1. CASE v \in A /\ w \in A
      BY <1>2, <1>3, <2>2, <3>1
    <3>2. CASE v \notin A /\ w \notin A
      <4>1. adopted'[v] \subseteq adopted[v] /\ adopted'[w] \subseteq adopted[w]
        BY <1>3, <3>2
      <4>2. adopted[v] \cap adopted[w] = {}
        BY <2>2 DEF CoresPartitioned
      <4> QED BY <4>1, <4>2
    <3>3. ASSUME NEW x \in A, NEW y \in Work \ A, x # y PROVE cpuset[x] \cap adopted'[y] = {}
      <4>1. CASE y \in Released
        BY <1>2, <1>3, <3>3, <4>1
      <4>2. CASE y \notin Released
        <5>1. adopted'[y] = adopted[y]
          BY <1>3, <3>3, <4>2
        <5>2. ASSUME NEW c, c \in adopted[y] PROVE c \notin avail
          BY <1>4, <2>0, <3>3, <4>2, <5>2 DEF CoresPartitioned
        <5> QED BY <1>2, <5>1, <5>2
      <4> QED BY <4>1, <4>2
    <3> QED BY <1>2, <1>3, <2>2, <3>1, <3>2, <3>3
  <2>3. ASSUME NEW c \in Cores
        PROVE  c \in free' <=> \A w \in Work : c \notin mine[w] \cup adopted'[w]
    BY <1>2, <1>3, <1>4, <1>5, <2>0 DEF CoresPartitioned
  <2>4. \A v, w \in Work : v # w => mine[v] \cap mine[w] = {}
    BY DEF CoresPartitioned
  <2> QED BY <1>6, <2>1, <2>2, <2>3, <2>4 DEF CoresPartitioned
<1>9. ASSUME NEW w \in Work PROVE WorkCoherent(w)'
  BY <1>2, <1>3, <1>6 DEF WorkCoherent
<1> QED BY <1>7, <1>8, <1>9

LEMMA NextCoherent == Coherent /\ [Next]_vars => Coherent'
<1> SUFFICES ASSUME Coherent, [Next]_vars PROVE Coherent'
  OBVIOUS
<1>1. CASE UNCHANGED vars
  BY <1>1 DEF vars, Coherent, TypeOK, CoresPartitioned, WorkCoherent
<1> QED BY <1>1, WorkStepCoherent, AgentStepCoherent, applyPassCoherent DEF Next

LEMMA CoresCoherent == Spec => []Coherent
  BY InitCoherent, NextCoherent, PTL DEF Spec

\* Whatever fails and whatever ends during a pass, every core is free or in exactly one
\* reservation.
THEOREM BooksBalance == Spec => []CoresPartitioned
<1>1. Coherent => CoresPartitioned
  BY DEF Coherent
<1> QED BY <1>1, CoresCoherent, PTL

-----------------------------------------------------------------------------
(* Running containers are pinned apart when nothing fails                    *)

\* A core that is set aside: for work that runs, and for a container that is known.
SetAside(w) ==
  /\ phase[w] = "running" => mine[w] # {}
  /\ container[w] # "none" => cpuset[w] # {}
  /\ w \in Up /\ agent = "accepting" => cpuset[w] = mine[w] \/ cpuset[w] = adopted[w]

\* What a pass has read covers what the books must keep.
PassCovers ==
  /\ agent = "down" => pass = "idle"
  /\ pass # "idle" => \A w \in Up : adopted[w] # {} => w \in seen
  /\ pass # "idle" /\ agent = "starting" =>
       Up \subseteq seen /\ \A v, w \in seen : v # w => cpuset[v] \cap cpuset[w] = {}

Accounted == PinnedApart /\ PassCovers /\ (\A w \in Work : SetAside(w))

LEMMA InitAccounted == Init => Accounted
  BY CoreConstants DEF Init, Accounted, PinnedApart, PassCovers, SetAside, Up

LEMMA WorkStepAccounted ==
  ASSUME Coherent, Accounted, Faults = {}, NEW w \in Work,
         reserve(w) \/ CoreExhausted(w) \/ release(w) \/ ContainerStarts(w) \/ ContainerExits(w)
  PROVE  Accounted'
<1> USE CoreConstants DEF Coherent, TypeOK, Accounted
<1>1. CASE reserve(w)
  <2>1. PICK S \in SUBSET free : mine' = [mine EXCEPT ![w] = S] /\ Cardinality(S) = Vcpus[w]
    BY <1>1 DEF reserve, Lowest
  <2>2. S # {}
    BY <2>1, FS_EmptySet
  <2>3. w \notin Up
    BY <1>1 DEF reserve, WorkCoherent, Up
  <2>4. ASSUME NEW v \in Work PROVE SetAside(v)'
    BY <1>1, <2>1, <2>2, <2>3 DEF reserve, SetAside, Up
  <2>5. PinnedApart' /\ PassCovers'
    BY <1>1 DEF reserve, PinnedApart, PassCovers, Up
  <2> QED BY <2>4, <2>5
<1>2. CASE CoreExhausted(w)
  BY <1>2 DEF CoreExhausted, PinnedApart, PassCovers, SetAside, Up
<1>3. CASE release(w)
  BY <1>3 DEF release, PinnedApart, PassCovers, SetAside, Up
<1>4. CASE ContainerStarts(w)
  <2>1. /\ w \in Docker /\ agent = "accepting" /\ w \notin Up /\ Up' = Up \cup {w}
        /\ cpuset'[w] = mine[w] /\ mine[w] # {}
        /\ \A v \in Work : v # w => cpuset'[v] = cpuset[v]
    BY <1>4 DEF ContainerStarts, WorkCoherent, SetAside, Up
  <2>2. ASSUME NEW v \in Up PROVE mine[w] \cap cpuset[v] = {}
    <3>1. v \in Work /\ v # w /\ (cpuset[v] = mine[v] \/ cpuset[v] = adopted[v])
      BY <2>1 DEF SetAside, Up
    <3> QED BY <3>1 DEF CoresPartitioned
  <2>3. PinnedApart'
    <3> SUFFICES ASSUME NEW u \in Up', NEW v \in Up', u # v
                 PROVE  cpuset'[u] \cap cpuset'[v] = {}
      BY DEF PinnedApart
    <3>1. CASE u = w
      BY <2>1, <2>2, <3>1 DEF Up
    <3>2. CASE v = w
      BY <2>1, <2>2, <3>2 DEF Up
    <3>3. CASE u # w /\ v # w
      BY <2>1, <3>3 DEF PinnedApart, Up
    <3> QED BY <3>1, <3>2, <3>3
  <2>4. PassCovers'
    BY <1>4, <2>1 DEF ContainerStarts, PassCovers, WorkCoherent
  <2>5. ASSUME NEW v \in Work PROVE SetAside(v)'
    BY <1>4, <2>1 DEF ContainerStarts, SetAside
  <2> QED BY <2>3, <2>4, <2>5
<1>5. CASE ContainerExits(w)
  <2>1. Up' = Up \ {w}
    BY <1>5 DEF ContainerExits, Up
  <2> QED BY <1>5, <2>1 DEF ContainerExits, PinnedApart, PassCovers, SetAside
<1> QED BY <1>1, <1>2, <1>3, <1>4, <1>5

LEMMA AgentStepAccounted ==
  ASSUME Coherent, Accounted, Faults = {},
         AgentDies \/ AgentStarts \/ listContainers \/ listFails \/ inspectContainers
  PROVE  Accounted'
<1> USE CoreConstants DEF Coherent, TypeOK, Accounted
<1>1. CASE AgentDies
  BY <1>1 DEF AgentDies, Nothing, PinnedApart, PassCovers, SetAside, Up
<1>2. CASE AgentStarts
  BY <1>2 DEF AgentStarts, PinnedApart, PassCovers, SetAside, Up
<1>3. CASE listContainers
  <2>1. seen' = Up /\ Up' = Up
    BY <1>3 DEF listContainers, Up
  <2>2. PassCovers'
    BY <1>3, <2>1 DEF listContainers, PassCovers, PinnedApart, PassDue
  <2> QED BY <1>3, <2>1, <2>2 DEF listContainers, PinnedApart, SetAside
<1>4. CASE listFails
  BY <1>4 DEF listFails
<1>5. CASE inspectContainers
  <2>1. seen' = seen \cap Up /\ Up' = Up
    BY <1>5 DEF inspectContainers, Up
  <2>2. PassCovers'
    BY <1>5, <2>1 DEF inspectContainers, PassCovers
  <2> QED BY <1>5, <2>1, <2>2 DEF inspectContainers, PinnedApart, SetAside
<1> QED BY <1>1, <1>2, <1>3, <1>4, <1>5

LEMMA applyPassAccounted ==
  ASSUME Coherent, Accounted, applyPass
  PROVE  Accounted'
<1> USE CoreConstants DEF Coherent, TypeOK, Accounted
<1> DEFINE avail == free \cup UNION {adopted[w] : w \in Released}
<1>1. PICK A \in Adoptable(avail) :
        adopted' = [w \in Work |-> IF w \in A THEN cpuset[w]
                                   ELSE IF w \in Released THEN {} ELSE adopted[w]]
  BY DEF applyPass
<1>2. mine' = mine /\ phase' = phase /\ container' = container /\ cpuset' = cpuset
      /\ agent' = "accepting" /\ pass' = "idle" /\ Up' = Up
  BY DEF applyPass, Up
<1>3. ASSUME NEW w \in Up PROVE cpuset[w] = mine[w] \/ cpuset[w] = adopted'[w]
  <2>0. w \in Work /\ w \in Docker /\ container[w] # "none" /\ cpuset[w] # {}
    BY <1>3 DEF Up, SetAside
  <2>1. CASE agent = "accepting"
    <3>1. CASE cpuset[w] = mine[w]
      BY <3>1
    <3>2. CASE cpuset[w] = adopted[w]
      <4>1. w \in seen
        BY <1>3, <2>0, <3>2 DEF PassCovers, applyPass
      <4>2. w \notin Released /\ w \notin A
        BY <2>0, <3>2, <4>1 DEF Released, Adoptable, Unaccounted
      <4> QED BY <1>1, <2>0, <3>2, <4>2
    <3> QED BY <1>3, <2>0, <2>1, <3>1, <3>2 DEF SetAside
  <2>2. CASE agent = "starting"
    <3>1. \A v \in Work : mine[v] = {} /\ adopted[v] = {}
      BY <2>2 DEF WorkCoherent
    <3>2. Cores \subseteq avail
      BY <3>1 DEF CoresPartitioned
    <3>3. Unaccounted = seen
      BY <3>1 DEF Unaccounted
    <3>4. w \in seen /\ \A v \in seen : v # w => cpuset[v] \cap cpuset[w] = {}
      BY <1>3, <2>2 DEF PassCovers, applyPass
    <3>5. w \in A
      <4> SUFFICES ASSUME w \notin A PROVE FALSE
        OBVIOUS
      <4>1. A \subseteq seen
        BY <3>3 DEF Adoptable
      <4>2. cpuset[w] \subseteq Cores /\ \A v \in A : cpuset[v] \cap cpuset[w] = {}
        BY <2>0, <3>4, <4>1
      <4>3. cpuset[w] \subseteq avail \ UNION {cpuset[v] : v \in A}
        <5> HIDE DEF avail
        <5> QED BY <3>2, <4>2
      <4>4. ~(cpuset[w] \subseteq avail \ UNION {cpuset[v] : v \in A})
        <5> HIDE DEF avail
        <5> QED BY <2>0, <3>3, <3>4 DEF Adoptable
      <4> QED BY <4>3, <4>4
    <3> QED BY <1>1, <2>0, <3>5
  <2> QED BY <2>1, <2>2 DEF PassCovers, applyPass
<1>4. PinnedApart' /\ PassCovers'
  BY <1>2 DEF PinnedApart, PassCovers
<1>5. ASSUME NEW w \in Work PROVE SetAside(w)'
  BY <1>2, <1>3 DEF SetAside
<1> QED BY <1>4, <1>5

LEMMA NextAccounted ==
  ASSUME Faults = {}
  PROVE  Coherent /\ Accounted /\ [Next]_vars => Accounted'
<1> SUFFICES ASSUME Coherent, Accounted, [Next]_vars PROVE Accounted'
  OBVIOUS
<1>1. CASE UNCHANGED vars
  BY <1>1 DEF vars, Accounted, PinnedApart, PassCovers, SetAside, Up
<1> QED BY <1>1, WorkStepAccounted, AgentStepAccounted, applyPassAccounted DEF Next

\* When Docker answers and every container is removed with its work, no two containers that
\* run share a core, those an earlier Agent left behind included.
THEOREM PinnedNeverShare ==
  ASSUME Faults = {}
  PROVE  Spec => []PinnedApart
<1>1. Coherent /\ Accounted /\ [Next]_vars => Accounted'
  BY NextAccounted
<1>2. Accounted => PinnedApart
  BY DEF Accounted
<1> QED BY <1>1, <1>2, InitAccounted, CoresCoherent, PTL DEF Spec
=============================================================================
