------------------------------- MODULE HubProofs -------------------------------
(* Proofs about the Hub. Of its data plane: whatever sockets are replaced,     *)
(* reaped and closed late, the requests that wait for a Node are among the     *)
(* ids of its entry, which the limit bounds, and an entry that goes takes its  *)
(* requests with it. Of its mesh passes: the order of their rounds keeps a     *)
(* link from listening before it is granted and from being recorded as mesh    *)
(* while dumbpipe holds its port, whatever is lost and whoever leaves. Of its  *)
(* Apps: what a deploy or a failover has done so far is still there when it is *)
(* recorded, and a removal nobody crossed takes the routes it broke with it.   *)
EXTENDS HubData, HubDeploy, HubMesh, FiniteSetTheorems, TLAPS

Registered ==
  \A n \in Sites : byId[n] # NoSocket => byId[n] \in idOf /\ SiteOf[byId[n]] = n

Counted ==
  \A n \in Sites : /\ IsFiniteSet(inflight[n])
                   /\ Cardinality(inflight[n]) <= MaxInflight

WaitingCounted ==
  \A r \in Requests : request[r] = "waiting" => r \in inflight[AppSite[r]] /\ isConnected(AppSite[r])

DataTypes ==
  /\ idOf \subseteq Sockets
  /\ byId \in [Sites -> Sockets \cup {NoSocket}]
  /\ inflight \in [Sites -> SUBSET Requests]
  /\ quiet \subseteq {n \in Sites : isConnected(n)}
  /\ request \in [Requests -> {"new", "waiting", "answered", "failed", "shed", "offline", "lost"}]

DataInv == DataTypes /\ Registered /\ Counted /\ WaitingCounted

(* The invariant holds with no socket.                                         *)
LEMMA InitDataInv == DataInit => DataInv
<1> SUFFICES ASSUME DataInit PROVE DataInv
  OBVIOUS
<1> USE DataAssumption DEF DataInit
<1>1. DataTypes /\ Registered /\ WaitingCounted
  BY DEF DataTypes, Registered, WaitingCounted
<1>2. Counted
  BY FS_EmptySet DEF Counted
<1> QED BY <1>1, <1>2 DEF DataInv

(* Failing requests leaves the rest as it was.                                 *)
LEMMA FailedType ==
  ASSUME DataTypes, NEW rs \in SUBSET Requests
  PROVE  /\ Failed(rs, "failed") \in [Requests -> {"new", "waiting", "answered", "failed", "shed",
                                                   "offline", "lost"}]
         /\ \A r \in Requests : Failed(rs, "failed")[r] = "waiting" => r \notin rs /\ request[r] = "waiting"
BY DEF DataTypes, Failed

(* A request that the socket's end leaves waiting belongs to another site.     *)
LEMMA RejectsOwn ==
  ASSUME NEW s \in idOf, NEW r \in Requests, request[r] = "waiting", r \notin rejectSocket(s)
  PROVE  AppSite[r] # SiteOf[s]
BY DEF rejectSocket, Pending

(* A close or a reaping: the entry goes only with the socket registered for    *)
(* its Node, and then the requests counted in it are rejected.                 *)
LEMMA ForgottenKeeps ==
  ASSUME DataInv, NEW s \in Sockets, Forgotten(s)
  PROVE  DataInv'
<1> USE DataAssumption DEF DataInv
<1>0. DataTypes /\ rejectSocket(s) \subseteq Requests
  BY DEF rejectSocket, Pending
<1>1. /\ request' = Failed(rejectSocket(s), "failed") /\ idOf' = idOf \ {s}
  BY DEF Forgotten
<1>2. /\ request' \in [Requests -> {"new", "waiting", "answered", "failed", "shed", "offline", "lost"}]
      /\ \A r \in Requests : request'[r] = "waiting" => r \notin rejectSocket(s) /\ request[r] = "waiting"
  BY <1>0, <1>1, FailedType
<1>3. CASE s \in idOf /\ byId[SiteOf[s]] = s
  <2>1. /\ byId' = [byId EXCEPT ![SiteOf[s]] = NoSocket]
        /\ inflight' = [inflight EXCEPT ![SiteOf[s]] = {}]
        /\ quiet' = quiet \ {SiteOf[s]}
    BY <1>3 DEF Forgotten
  <2>2. DataTypes'
    BY <1>1, <1>2, <2>1 DEF DataTypes, isConnected
  <2>3. Registered'
    BY <1>1, <1>3, <2>1 DEF DataTypes, Registered
  <2>4. Counted'
    <3>1. IsFiniteSet({}) /\ Cardinality({}) = 0
      BY FS_EmptySet
    <3> QED BY <2>1, <3>1 DEF Counted, DataTypes
  <2>5. WaitingCounted'
    <3>1. \A r \in Requests : request'[r] = "waiting" => AppSite[r] # SiteOf[s]
      BY <1>2, <1>3, RejectsOwn
    <3> QED BY <1>2, <2>1, <3>1 DEF WaitingCounted, DataTypes, isConnected
  <2> QED BY <2>2, <2>3, <2>4, <2>5
<1>4. CASE ~(s \in idOf /\ byId[SiteOf[s]] = s)
  <2>1. UNCHANGED <<byId, inflight, quiet>>
    BY <1>4 DEF Forgotten
  <2>2. DataTypes' /\ Counted' /\ WaitingCounted'
    BY <1>1, <1>2, <2>1 DEF DataTypes, Counted, WaitingCounted, isConnected
  <2>3. Registered'
    BY <1>1, <1>4, <2>1 DEF Registered
  <2> QED BY <2>2, <2>3
<1> QED BY <1>3, <1>4

(* The invariant of the data plane is inductive.                               *)
LEMMA NextDataInv == DataInv /\ [DataNext]_dataVars => DataInv'
<1> SUFFICES ASSUME DataInv, [DataNext]_dataVars PROVE DataInv'
  OBVIOUS
<1> USE DataAssumption DEF DataInv
<1>1. ASSUME NEW s \in Sockets, dial(s) \/ ping(s) PROVE DataInv'
  BY <1>1 DEF dial, ping, touch, DataTypes, Registered, Counted, WaitingCounted, isConnected
<1>2. ASSUME NEW s \in Sockets, dataHello(s) PROVE DataInv'
  <2> DEFINE n == SiteOf[s]
  <2>0. n \in Sites
    OBVIOUS
  <2>1. /\ byId' = [byId EXCEPT ![n] = s] /\ idOf' = idOf \cup {s}
        /\ inflight' = [inflight EXCEPT ![n] = {}] /\ quiet' = quiet \ {n}
    BY <1>2 DEF dataHello
  <2>2. /\ request' \in [Requests -> {"new", "waiting", "answered", "failed", "shed", "offline", "lost"}]
        /\ \A r \in Requests : request'[r] = "waiting" => request[r] = "waiting" /\ AppSite[r] # n
    <3>1. CASE byId[n] = NoSocket
      <4>1. request' = request
        BY <1>2, <3>1 DEF dataHello
      <4> QED BY <3>1, <4>1 DEF DataTypes, WaitingCounted, isConnected
    <3>2. CASE byId[n] # NoSocket
      <4>1. request' = Failed(rejectSocket(byId[n]), "failed") /\ rejectSocket(byId[n]) \subseteq Requests
        BY <1>2, <3>2 DEF dataHello, rejectSocket, Pending
      <4>2. byId[n] \in idOf /\ SiteOf[byId[n]] = n
        BY <2>0, <3>2 DEF Registered
      <4>3. /\ request' \in [Requests -> {"new", "waiting", "answered", "failed", "shed", "offline", "lost"}]
            /\ \A r \in Requests : request'[r] = "waiting"
                                     => r \notin rejectSocket(byId[n]) /\ request[r] = "waiting"
        BY <4>1, FailedType
      <4>4. \A r \in Requests : request'[r] = "waiting" => AppSite[r] # n
        BY <4>2, <4>3, RejectsOwn
      <4> QED BY <4>3, <4>4
    <3> QED BY <3>1, <3>2
  <2>3. DataTypes'
    BY <2>0, <2>1, <2>2 DEF DataTypes, isConnected
  <2>4. Registered'
    BY <2>0, <2>1 DEF DataTypes, Registered
  <2>5. Counted'
    <3>1. IsFiniteSet({}) /\ Cardinality({}) = 0
      BY FS_EmptySet
    <3> QED BY <2>0, <2>1, <3>1 DEF Counted, DataTypes
  <2>6. WaitingCounted'
    BY <2>0, <2>1, <2>2 DEF WaitingCounted, DataTypes, isConnected
  <2> QED BY <2>3, <2>4, <2>5, <2>6
<1>3. ASSUME NEW s \in Sockets, onClose(s) PROVE DataInv'
  BY <1>3, ForgottenKeeps DEF onClose
<1>4. ASSUME NEW n \in Sites, silence(n) PROVE DataInv'
  BY <1>4 DEF silence, DataTypes, Registered, Counted, WaitingCounted, isConnected
<1>5. ASSUME NEW n \in Sites, reapStale(n) PROVE DataInv'
  <2>1. byId[n] \in Sockets
    BY <1>5 DEF reapStale, DataTypes, isConnected
  <2>2. Forgotten(byId[n])
    BY <1>5 DEF reapStale
  <2>3. PICK s \in Sockets : s = byId[n]
    BY <2>1
  <2>4. Forgotten(s)
    BY <2>2, <2>3 DEF Forgotten
  <2> QED BY <2>4, ForgottenKeeps
<1>6. ASSUME NEW r \in Requests, proxy(r) PROVE DataInv'
  <2> DEFINE n == AppSite[r]
  <2>0. n \in Sites /\ UNCHANGED <<idOf, byId, quiet>>
    BY <1>6 DEF proxy
  <2>1. CASE request' = [request EXCEPT ![r] = "offline"] /\ UNCHANGED inflight
    BY <2>0, <2>1 DEF DataTypes, Registered, Counted, WaitingCounted, isConnected
  <2>2. CASE request' = [request EXCEPT ![r] = "shed"] /\ UNCHANGED inflight
    BY <2>0, <2>2 DEF DataTypes, Registered, Counted, WaitingCounted, isConnected
  <2>3. CASE /\ isConnected(n) /\ Cardinality(inflight[n]) < MaxInflight
             /\ request' = [request EXCEPT ![r] = "waiting"]
             /\ inflight' = [inflight EXCEPT ![n] = @ \cup {r}]
    <3>1. DataTypes' /\ Registered'
      BY <2>0, <2>3 DEF DataTypes, Registered, isConnected
    <3>2. IsFiniteSet(inflight[n]) /\ Cardinality(inflight[n]) \in Nat
      BY <2>0, FS_CardinalityType DEF Counted
    <3>3. /\ IsFiniteSet(inflight[n] \cup {r})
          /\ Cardinality(inflight[n] \cup {r}) \in {Cardinality(inflight[n]), Cardinality(inflight[n]) + 1}
      BY <3>2, FS_AddElement
    <3>4. Cardinality(inflight[n] \cup {r}) <= MaxInflight
      BY <2>3, <3>2, <3>3
    <3>5. Counted'
      BY <2>0, <2>3, <3>3, <3>4 DEF Counted, DataTypes
    <3>6. WaitingCounted'
      BY <2>0, <2>3 DEF WaitingCounted, DataTypes, isConnected
    <3> QED BY <3>1, <3>5, <3>6
  <2> QED BY <1>6, <2>1, <2>2, <2>3 DEF proxy
<1>7. ASSUME NEW r \in Requests, NEW how \in {"answered", "lost"},
             request' = [request EXCEPT ![r] = how],
             inflight' = [inflight EXCEPT ![AppSite[r]] = @ \ {r}],
             UNCHANGED <<idOf, byId>>, quiet' \subseteq quiet
      PROVE  DataInv'
  <2>1. DataTypes' /\ Registered' /\ WaitingCounted'
    BY <1>7 DEF DataTypes, Registered, WaitingCounted, isConnected
  <2>2. /\ IsFiniteSet(inflight[AppSite[r]] \ {r})
        /\ Cardinality(inflight[AppSite[r]] \ {r}) <= Cardinality(inflight[AppSite[r]])
        /\ Cardinality(inflight[AppSite[r]] \ {r}) \in Nat /\ Cardinality(inflight[AppSite[r]]) \in Nat
    BY FS_Subset, FS_CardinalityType DEF Counted
  <2>3. Cardinality(inflight[AppSite[r]] \ {r}) <= MaxInflight
    BY <2>2 DEF Counted
  <2>4. Counted'
    BY <1>7, <2>2, <2>3 DEF Counted, DataTypes
  <2> QED BY <2>1, <2>4
<1>8. ASSUME NEW r \in Requests, timeout(r) PROVE DataInv'
  BY <1>7, <1>8 DEF timeout
<1>9. ASSUME NEW r \in Requests, NEW s \in Sockets, reply(s, r) PROVE DataInv'
  <2>1. quiet' \subseteq quiet /\ UNCHANGED <<idOf, byId>>
    BY <1>9 DEF reply, touch
  <2>2. CASE r \in Pending
    BY <1>7, <1>9, <2>1, <2>2 DEF reply
  <2>3. CASE r \notin Pending
    BY <1>9, <2>1, <2>3 DEF reply, DataTypes, Registered, Counted, WaitingCounted, isConnected
  <2> QED BY <2>2, <2>3
<1>10. CASE UNCHANGED dataVars
  BY <1>10 DEF dataVars, DataTypes, Registered, Counted, WaitingCounted, isConnected
<1> QED BY <1>1, <1>2, <1>3, <1>4, <1>5, <1>6, <1>8, <1>9, <1>10 DEF DataNext

(* For any number of Nodes, sockets and requests, and any order of hellos,     *)
(* answers, timeouts, reapings and late close events, a Node never has more    *)
(* requests waiting than MAX_INFLIGHT_PER_NODE and none waits on a Node that   *)
(* is away (dataplane.ts).                                                     *)
THEOREM RequestsStayWithinLimit == DataSpec => []WaitingWithinLimit
<1>1. DataInv => WaitingWithinLimit
  <2> SUFFICES ASSUME DataInv, NEW n \in Sites
               PROVE  LET waiting == {r \in Pending : AppSite[r] = n} IN
                      /\ Cardinality(waiting) <= MaxInflight
                      /\ waiting # {} => isConnected(n)
    BY DEF WaitingWithinLimit
  <2> DEFINE waiting == {r \in Pending : AppSite[r] = n}
  <2>1. waiting \subseteq inflight[n] /\ (waiting # {} => isConnected(n))
    BY DEF DataInv, WaitingCounted, Pending
  <2>2. IsFiniteSet(inflight[n]) /\ Cardinality(inflight[n]) <= MaxInflight
    BY DEF DataInv, Counted
  <2> HIDE DEF waiting
  <2>3. IsFiniteSet(waiting) /\ Cardinality(waiting) <= Cardinality(inflight[n])
    BY <2>1, <2>2, FS_Subset
  <2>4. Cardinality(waiting) \in Nat /\ Cardinality(inflight[n]) \in Nat /\ MaxInflight \in Nat
    BY <2>2, <2>3, FS_CardinalityType, DataAssumption
  <2>5. Cardinality(waiting) <= MaxInflight
    BY <2>2, <2>3, <2>4
  <2> QED BY <2>1, <2>5 DEF waiting
<1> QED BY <1>1, InitDataInv, NextDataInv, PTL DEF DataSpec

-----------------------------------------------------------------------------
(* The mesh passes.                                                            *)
Rounds == {"idle", "status", "authorize", "links", "verify", "legacy"}

Passes == [at : Rounds, links : SUBSET Links, extra : SUBSET Links, seen : SUBSET Peers,
           capable : SUBSET Peers, todo : SUBSET (Peers \cup Links), endpoints : SUBSET Peers,
           authorized : SUBSET Peers, after : SUBSET Peers, ok : SUBSET Links]

MeshTypes ==
  /\ transport \in [Links -> {"none", "legacy", "mesh"}]
  /\ stored \subseteq Links /\ connected \subseteq Peers /\ capable \subseteq Peers
  /\ pass \in Passes

(* Who a round still has to ask, and who the rounds before it heard from.      *)
RoundsNest ==
  /\ pass.authorized \subseteq pass.endpoints /\ pass.after \subseteq pass.authorized
  /\ pass.at = "status" => pass.authorized = {}
  /\ pass.at = "authorize" => pass.todo \subseteq pass.endpoints \ pass.authorized
  /\ pass.at \in {"status", "authorize"} => pass.after = {}
  /\ pass.at = "links" => pass.todo \subseteq pass.authorized
  /\ pass.at = "verify" => pass.todo \subseteq OnMesh
  /\ pass.at = "legacy" => pass.todo \subseteq OnLegacy

(* A provider that was authorized admits the consumers that answered, ...      *)
GrantedFirst ==
  pass.at \in {"authorize", "links"} =>
    \A l \in OnMesh : Provider[l] \in pass.authorized /\ Consumer[l] \in pass.endpoints
                        => l \in granted

(* ... and a consumer whose listeners opened has no dumbpipe on their ports.   *)
FreedFirst ==
  pass.at \in {"links", "verify"} =>
    \A l \in OnMesh : Consumer[l] \in pass.after /\ Ends(l) \subseteq pass.authorized
                        => l \notin piped

MeshInv == MeshTypes /\ RoundsNest /\ GrantedFirst /\ FreedFirst /\ PortsFreed

(* The invariant holds with no link.                                           *)
LEMMA InitMeshInv == MeshInit => MeshInv
BY DEF MeshInit, MeshInv, NoPass, MeshTypes, Passes, Rounds, RoundsNest, GrantedFirst, FreedFirst, PortsFreed

(* Every drop of a dumbpipe pair only takes listeners away.                    *)
LEMMA DroppedShrinks ==
  ASSUME NEW ends, Dropped(ends)
  PROVE  piped' \subseteq piped
BY DEF Dropped

(* Steps that are no part of the pass leave what it relies on alone.           *)
LEMMA OutsideKeeps ==
  ASSUME MeshInv, UNCHANGED <<pass, transport, granted>>, piped' \subseteq piped,
         stored' \subseteq Links, connected' \subseteq Peers, capable' \subseteq Peers
  PROVE  MeshInv'
<1>1. MeshTypes'
  BY DEF MeshInv, MeshTypes
<1>2. RoundsNest'
  BY DEF MeshInv, RoundsNest, OnMesh, OnLegacy, BothCapable
<1>3. GrantedFirst' /\ FreedFirst' /\ PortsFreed'
  BY DEF MeshInv, GrantedFirst, FreedFirst, PortsFreed, OnMesh, BothCapable
<1> QED BY <1>1, <1>2, <1>3 DEF MeshInv

(* A pass that ends, or never began, relies on nothing.                        *)
LEMMA NoPassKeeps ==
  ASSUME MeshInv, pass' = NoPass, transport' \in [Links -> {"none", "legacy", "mesh"}],
         \A l \in Links : transport'[l] = "mesh" => transport[l] = "mesh",
         piped' \subseteq piped, stored' \subseteq Links, connected' \subseteq Peers,
         capable' \subseteq Peers
  PROVE  MeshInv'
BY DEF MeshInv, NoPass, MeshTypes, Passes, Rounds, RoundsNest, GrantedFirst, FreedFirst, PortsFreed

(* The invariant of the mesh is inductive: every step, case by case.           *)
LEMMA NextMeshInv == MeshInv /\ [MeshNext]_meshVars => MeshInv'
<1> SUFFICES ASSUME MeshInv, [MeshNext]_meshVars PROVE MeshInv'
  OBVIOUS
<1> USE MeshAssumption DEF Passes
<1>t. /\ transport \in [Links -> {"none", "legacy", "mesh"}] /\ stored \subseteq Links
      /\ connected \subseteq Peers /\ capable \subseteq Peers
  BY DEF MeshInv, MeshTypes
<1>p. pass \in Passes
  BY DEF MeshInv, MeshTypes
<1>1. ASSUME NEW n \in Peers, NEW withMesh \in BOOLEAN, NEW restarted \in BOOLEAN,
             meshHello(n, withMesh, restarted)
      PROVE  MeshInv'
  <2>1. /\ UNCHANGED <<pass, transport, granted, stored>> /\ piped' \subseteq piped
        /\ connected' \subseteq Peers /\ capable' \subseteq Peers
    BY <1>1, <1>t DEF meshHello, sidecars
  <2> QED BY <1>t, <2>1, OutsideKeeps
<1>2. ASSUME NEW n \in Peers, goodbye(n) PROVE MeshInv'
  <2>1. /\ UNCHANGED <<pass, transport, granted, stored, piped>>
        /\ connected' \subseteq Peers /\ capable' \subseteq Peers
    BY <1>2, <1>t DEF goodbye, sidecars, pipes
  <2> QED BY <1>t, <2>1, OutsideKeeps
<1>3. ASSUME NEW l \in Links, unlink(l) PROVE MeshInv'
  <2>1. UNCHANGED <<pass, transport, granted, piped, connected, capable>> /\ stored' \subseteq stored
    BY <1>3 DEF unlink, sidecars, pipes, presence
  <2> QED BY <1>t, <2>1, OutsideKeeps
<1>4. ASSUME NEW e \in drops, meshDrop(e) PROVE MeshInv'
  <2>1. UNCHANGED <<pass, transport, granted, stored, connected, capable>> /\ Dropped({e})
    BY <1>4 DEF meshDrop, sidecars, presence
  <2>2. piped' \subseteq piped
    BY <2>1, DroppedShrinks
  <2> QED BY <1>t, <2>1, <2>2, OutsideKeeps
<1>5. CASE boot
  <2>1. UNCHANGED <<transport, stored, piped>> /\ pass' = NoPass /\ connected' = {} /\ capable' = {}
    BY <1>5 DEF boot, pipes
  <2> QED BY <1>t, <2>1, NoPassKeeps
<1>6. ASSUME NEW extra \in SUBSET Links, begin(extra),
             UNCHANGED <<stored, transport, connected, capable, granted, piped>>
      PROVE  MeshInv'
  <2>1. /\ pass'.at = "status" /\ pass'.authorized = {} /\ pass'.after = {} /\ pass'.endpoints = {}
    BY <1>6 DEF begin, NoPass
  <2>2. pass' \in Passes
    BY <1>6, <1>t DEF begin, NoPass, Rounds
  <2>3. MeshTypes' /\ PortsFreed'
    BY <1>6, <1>t, <2>2 DEF MeshInv, MeshTypes, PortsFreed
  <2> QED BY <2>1, <2>3 DEF MeshInv, RoundsNest, GrantedFirst, FreedFirst
<1>7. CASE sweep \/ \E l \in Links : establishLink(l)
  <2>1. \E extra \in SUBSET Links : begin(extra)
    BY <1>7 DEF sweep, establishLink
  <2>2. UNCHANGED <<stored, transport, connected, capable, granted, piped>>
    BY <1>7 DEF sweep, establishLink, presence, sidecars, pipes
  <2> QED BY <1>6, <2>1, <2>2
<1>8. ASSUME NEW n \in Peers, meshStatus(n) PROVE MeshInv'
  <2>0. UNCHANGED <<stored, transport, connected, capable, granted, piped>>
    BY <1>8 DEF meshStatus, presence, sidecars, pipes
  <2>1. CASE pass' = NoPass
    BY <1>t, <2>0, <2>1, NoPassKeeps
  <2>2. ASSUME NEW more \in SUBSET Peers,
               pass' = [pass EXCEPT !.todo = @ \ {n}, !.endpoints = @ \cup more], At("status")
        PROVE  MeshInv'
    <3>1. /\ pass'.at = "status" /\ pass'.authorized = pass.authorized /\ pass'.after = pass.after
          /\ pass'.endpoints = pass.endpoints \cup more
      BY <1>p, <2>2 DEF At
    <3>2. pass' \in Passes
      BY <1>p, <2>2
    <3>3. MeshTypes' /\ PortsFreed'
      BY <1>t, <2>0, <3>2 DEF MeshInv, MeshTypes, PortsFreed
    <3>4. pass.at = "status"
      BY <2>2 DEF At
    <3> QED BY <3>1, <3>3, <3>4 DEF MeshInv, RoundsNest, GrantedFirst, FreedFirst
  <2>3. CASE pass' = [pass EXCEPT !.todo = @ \ {n}, !.endpoints = @ \cup {n}]
    <3>1. At("status") /\ {n} \in SUBSET Peers
      BY <1>8 DEF meshStatus
    <3> QED BY <2>2, <2>3, <3>1, Zenon
  <2>4. CASE pass' = [pass EXCEPT !.todo = @ \ {n}]
    <3>1. pass' = [pass EXCEPT !.todo = @ \ {n}, !.endpoints = @ \cup {}]
      BY <1>p, <2>4
    <3>2. At("status") /\ {} \in SUBSET Peers
      BY <1>8 DEF meshStatus
    <3> QED BY <2>2, <3>1, <3>2, Zenon
  <2> QED BY <1>8, <2>1, <2>3, <2>4 DEF meshStatus
<1>9. ASSUME NEW phase \in Rounds, NEW todo \in SUBSET (Peers \cup Links), Goto(phase, todo)
      PROVE  /\ pass'.at = phase /\ pass'.todo = todo /\ pass'.links = pass.links
             /\ pass'.capable = pass.capable /\ pass'.endpoints = pass.endpoints
             /\ pass'.authorized = pass.authorized /\ pass'.after = pass.after
             /\ pass' \in Passes
  BY <1>9, <1>p DEF Goto
<1>10. CASE authorizeAll
  <2>1. /\ Goto("authorize", pass.endpoints) /\ pass.at = "status"
        /\ UNCHANGED <<stored, transport, connected, capable, granted, piped>>
    BY <1>10 DEF authorizeAll, At, presence, sidecars, pipes
  <2>2. pass.endpoints \in SUBSET (Peers \cup Links) /\ "authorize" \in Rounds
    BY <1>p DEF Rounds
  <2>3. MeshTypes' /\ PortsFreed'
    BY <1>t, <1>9, <2>1, <2>2 DEF MeshInv, MeshTypes, PortsFreed
  <2>4. /\ pass'.at = "authorize" /\ pass'.todo = pass.endpoints /\ pass'.endpoints = pass.endpoints
        /\ pass'.authorized = pass.authorized /\ pass'.after = pass.after
    BY <1>9, <2>1, <2>2
  <2>5. pass.authorized = {} /\ pass.after = {}
    BY <2>1 DEF MeshInv, RoundsNest
  <2> QED BY <2>3, <2>4, <2>5 DEF MeshInv, RoundsNest, GrantedFirst, FreedFirst
<1>11. ASSUME NEW n \in Peers, authorize(n) PROVE MeshInv'
  <2>0. /\ UNCHANGED <<stored, transport, connected, capable, piped>>
        /\ pass.at = "authorize" /\ n \in pass.todo
    BY <1>11 DEF authorize, At, presence, pipes
  <2>1. /\ pass'.at = "authorize" /\ pass'.todo = pass.todo \ {n} /\ pass'.endpoints = pass.endpoints
        /\ pass'.authorized \in {pass.authorized, pass.authorized \cup {n}} /\ pass'.after = pass.after
        /\ pass'.links = pass.links /\ pass'.capable = pass.capable
        /\ pass' \in Passes
    <3>1. \/ pass' = [pass EXCEPT !.todo = @ \ {n}, !.authorized = @ \cup {n}]
          \/ pass' = [pass EXCEPT !.todo = @ \ {n}]
      BY <1>11 DEF authorize
    <3>2. CASE pass' = [pass EXCEPT !.todo = @ \ {n}, !.authorized = @ \cup {n}]
      BY <1>p, <2>0, <3>2
    <3>3. CASE pass' = [pass EXCEPT !.todo = @ \ {n}]
      BY <1>p, <2>0, <3>3
    <3> QED BY <3>1, <3>2, <3>3
  <2>2. MeshTypes' /\ PortsFreed'
    BY <1>t, <2>0, <2>1 DEF MeshInv, MeshTypes, PortsFreed
  <2>3. RoundsNest' /\ FreedFirst'
    BY <2>0, <2>1 DEF MeshInv, RoundsNest, FreedFirst
  <2>4. n \notin pass.authorized
    BY <2>0 DEF MeshInv, RoundsNest
  <2>5. OnMesh' = OnMesh
    BY <2>0, <2>1 DEF OnMesh, BothCapable
  <2>6. \A l \in Links : l \in granted /\ Provider[l] # n => l \in granted'
    BY <1>11 DEF authorize, Authorized, Revoked, sidecars
  <2>7. pass'.authorized = pass.authorized \/ granted' = {l \in granted : Provider[l] # n} \cup Exposures(n, OnMesh)
    BY <1>p, <1>11 DEF authorize, Authorized
  <2>8. OnMesh \subseteq Links
    BY <1>p DEF OnMesh
  <2>9. \A l \in OnMesh : Provider[l] \in pass.authorized /\ Consumer[l] \in pass.endpoints => l \in granted
    BY <2>0 DEF MeshInv, GrantedFirst
  <2>10. ASSUME NEW l \in OnMesh, Provider[l] \in pass'.authorized, Consumer[l] \in pass.endpoints
         PROVE  l \in granted'
    <3>1. CASE Provider[l] = n
      BY <2>4, <2>7, <2>10, <3>1 DEF Exposures
    <3>2. CASE Provider[l] # n
      BY <2>1, <2>6, <2>8, <2>9, <2>10, <3>2
    <3> QED BY <3>1, <3>2
  <2>11. GrantedFirst'
    BY <2>1, <2>5, <2>10 DEF GrantedFirst
  <2> QED BY <2>2, <2>3, <2>11 DEF MeshInv
<1>12. CASE freePorts
  <2>1. /\ Goto("links", pass.authorized) /\ pass.at = "authorize"
        /\ UNCHANGED <<stored, transport, connected, capable, granted>>
    BY <1>12 DEF freePorts, At, presence, sidecars
  <2>2. pass.authorized \in SUBSET (Peers \cup Links) /\ "links" \in Rounds
    BY <1>p DEF Rounds
  <2>3. piped' \subseteq piped
    BY <1>12, DroppedShrinks DEF freePorts
  <2>4. MeshTypes' /\ PortsFreed'
    BY <1>t, <1>9, <2>1, <2>2, <2>3 DEF MeshInv, MeshTypes, PortsFreed
  <2>5. /\ pass'.at = "links" /\ pass'.todo = pass.authorized /\ pass'.endpoints = pass.endpoints
        /\ pass'.authorized = pass.authorized /\ pass'.after = pass.after
        /\ pass'.links = pass.links /\ pass'.capable = pass.capable
    BY <1>9, <2>1, <2>2
  <2>6. OnMesh' = OnMesh
    BY <2>1, <2>5 DEF OnMesh, BothCapable
  <2>7. pass.after = {}
    BY <2>1 DEF MeshInv, RoundsNest
  <2> QED BY <2>1, <2>4, <2>5, <2>6, <2>7 DEF MeshInv, RoundsNest, GrantedFirst, FreedFirst
<1>13. ASSUME NEW n \in Peers, openListeners(n) PROVE MeshInv'
  <2>0. /\ UNCHANGED <<stored, transport, connected, capable, granted, piped>>
        /\ pass.at = "links" /\ n \in pass.todo
    BY <1>13 DEF openListeners, At, presence, pipes
  <2>1. /\ pass'.at = "links" /\ pass'.todo = pass.todo \ {n} /\ pass'.endpoints = pass.endpoints
        /\ pass'.authorized = pass.authorized /\ pass'.after \in {pass.after, pass.after \cup {n}}
        /\ pass'.links = pass.links /\ pass'.capable = pass.capable
        /\ pass' \in Passes
    <3>1. \/ pass' = [pass EXCEPT !.todo = @ \ {n}, !.after = @ \cup {n}]
          \/ pass' = [pass EXCEPT !.todo = @ \ {n}]
      BY <1>13 DEF openListeners
    <3>2. CASE pass' = [pass EXCEPT !.todo = @ \ {n}, !.after = @ \cup {n}]
      BY <1>p, <2>0, <3>2
    <3>3. CASE pass' = [pass EXCEPT !.todo = @ \ {n}]
      BY <1>p, <2>0, <3>3
    <3> QED BY <3>1, <3>2, <3>3
  <2>2. MeshTypes' /\ PortsFreed'
    BY <1>t, <2>0, <2>1 DEF MeshInv, MeshTypes, PortsFreed
  <2>3. RoundsNest'
    BY <2>0, <2>1 DEF MeshInv, RoundsNest
  <2>4. OnMesh' = OnMesh /\ OnMesh \subseteq Links
    BY <1>p, <2>0, <2>1 DEF OnMesh, BothCapable
  <2>5. GrantedFirst'
    BY <2>0, <2>1, <2>4 DEF MeshInv, GrantedFirst
  <2>6. pass'.after = pass.after \/ Listeners(n, OnMesh \ HeldBack) \cap piped = {}
    BY <1>p, <1>13 DEF openListeners
  <2>7. ASSUME NEW l \in OnMesh, Consumer[l] \in pass'.after, Ends(l) \subseteq pass.authorized
        PROVE  l \notin piped
    <3>1. CASE Consumer[l] \in pass.after
      BY <2>0, <2>7, <3>1 DEF MeshInv, FreedFirst
    <3>2. CASE Consumer[l] \notin pass.after
      <4>1. Consumer[l] = n /\ Listeners(n, OnMesh \ HeldBack) \cap piped = {}
        BY <2>1, <2>6, <2>7, <3>2
      <4>2. l \notin HeldBack
        BY <2>7 DEF HeldBack
      <4>3. Provider[l] \in pass.endpoints
        BY <2>7 DEF Ends, MeshInv, RoundsNest
      <4> QED BY <2>7, <4>1, <4>2, <4>3 DEF Listeners
    <3> QED BY <3>1, <3>2
  <2>8. FreedFirst'
    BY <2>0, <2>1, <2>4, <2>7 DEF FreedFirst
  <2> QED BY <2>2, <2>3, <2>5, <2>8 DEF MeshInv
<1>14. CASE verifyAll
  <2>1. /\ Goto("verify", OnMesh) /\ pass.at = "links"
        /\ UNCHANGED <<stored, transport, connected, capable, granted, piped>>
    BY <1>14 DEF verifyAll, At, presence, sidecars, pipes
  <2>2. OnMesh \in SUBSET (Peers \cup Links) /\ "verify" \in Rounds
    BY <1>p DEF Rounds, OnMesh
  <2>3. MeshTypes' /\ PortsFreed'
    BY <1>t, <1>9, <2>1, <2>2 DEF MeshInv, MeshTypes, PortsFreed
  <2>4. /\ pass'.at = "verify" /\ pass'.todo = OnMesh /\ pass'.endpoints = pass.endpoints
        /\ pass'.authorized = pass.authorized /\ pass'.after = pass.after
        /\ pass'.links = pass.links /\ pass'.capable = pass.capable
    BY <1>9, <2>1, <2>2
  <2>5. OnMesh' = OnMesh
    BY <2>1, <2>4 DEF OnMesh, BothCapable
  <2> QED BY <2>1, <2>3, <2>4, <2>5 DEF MeshInv, RoundsNest, GrantedFirst, FreedFirst
<1>15. ASSUME NEW l \in Links, verify(l) PROVE MeshInv'
  <2>0. /\ UNCHANGED <<stored, connected, capable, granted>>
        /\ pass.at = "verify" /\ l \in pass.todo
    BY <1>15 DEF verify, At, presence, sidecars
  <2>1. /\ pass'.at = "verify" /\ pass'.todo = pass.todo \ {l} /\ pass'.endpoints = pass.endpoints
        /\ pass'.authorized = pass.authorized /\ pass'.after = pass.after
        /\ pass'.links = pass.links /\ pass'.capable = pass.capable
        /\ pass' \in Passes
    BY <1>p, <1>15, <2>0 DEF verify
  <2>2. piped' \subseteq piped
    BY <1>15, DroppedShrinks DEF verify, pipes
  <2>3. transport' = transport \/ (transport' = [transport EXCEPT ![l] = "mesh"] /\ meshLinkVerified(l))
    BY <1>15 DEF verify
  <2>4. l \in OnMesh
    BY <2>0 DEF MeshInv, RoundsNest
  <2>5. OnMesh' = OnMesh
    BY <1>t, <2>1, <2>3, <2>4 DEF OnMesh, BothCapable
  <2>6. meshLinkVerified(l) => l \notin piped
    BY <2>0, <2>4 DEF meshLinkVerified, MeshInv, FreedFirst, Ends, RoundsNest
  <2>7. MeshTypes' /\ PortsFreed'
    BY <1>t, <2>0, <2>1, <2>2, <2>3, <2>6 DEF MeshInv, MeshTypes, PortsFreed
  <2>8. RoundsNest'
    BY <2>0, <2>1, <2>5 DEF MeshInv, RoundsNest
  <2>9. GrantedFirst' /\ FreedFirst'
    BY <2>0, <2>1, <2>2, <2>5 DEF MeshInv, GrantedFirst, FreedFirst
  <2> QED BY <2>7, <2>8, <2>9 DEF MeshInv
<1>16. CASE legacyAll
  <2>1. /\ Goto("legacy", OnLegacy) /\ pass.at = "verify"
        /\ UNCHANGED <<stored, transport, connected, capable, granted, piped>>
    BY <1>16 DEF legacyAll, At, presence, sidecars, pipes
  <2>2. OnLegacy \in SUBSET (Peers \cup Links) /\ "legacy" \in Rounds
    BY <1>p DEF Rounds, OnLegacy
  <2>3. MeshTypes' /\ PortsFreed'
    BY <1>t, <1>9, <2>1, <2>2 DEF MeshInv, MeshTypes, PortsFreed
  <2>4. /\ pass'.at = "legacy" /\ pass'.todo = OnLegacy /\ pass'.endpoints = pass.endpoints
        /\ pass'.authorized = pass.authorized /\ pass'.after = pass.after
        /\ pass'.links = pass.links /\ pass'.capable = pass.capable
    BY <1>9, <2>1, <2>2
  <2>5. OnLegacy' = OnLegacy
    BY <2>1, <2>4 DEF OnLegacy, OnMesh, BothCapable
  <2> QED BY <2>1, <2>3, <2>4, <2>5 DEF MeshInv, RoundsNest, GrantedFirst, FreedFirst
<1>17. ASSUME NEW l \in Links, legacy(l) PROVE MeshInv'
  <2>0. /\ UNCHANGED <<stored, connected, capable, granted>>
        /\ pass.at = "legacy" /\ l \in pass.todo
    BY <1>17 DEF legacy, At, presence, sidecars
  <2>1. /\ pass'.at = "legacy" /\ pass'.todo = pass.todo \ {l} /\ pass'.endpoints = pass.endpoints
        /\ pass'.authorized = pass.authorized /\ pass'.after = pass.after
        /\ pass'.links = pass.links /\ pass'.capable = pass.capable
        /\ pass' \in Passes
    <3>1. \/ pass' = [pass EXCEPT !.todo = @ \ {l}]
          \/ pass' = [pass EXCEPT !.todo = @ \ {l}, !.ok = @ \cup {l}]
          \/ pass' = [pass EXCEPT !.todo = @ \ {l},
                                  !.ok = IF Ends(l) \subseteq pass.seen THEN @ \cup {l} ELSE @]
      BY <1>17 DEF legacy
    <3>2. CASE pass' = [pass EXCEPT !.todo = @ \ {l}]
      BY <1>p, <2>0, <3>2
    <3>3. CASE pass' = [pass EXCEPT !.todo = @ \ {l}, !.ok = @ \cup {l}]
      BY <1>p, <2>0, <3>3
    <3>4. CASE pass' = [pass EXCEPT !.todo = @ \ {l},
                                      !.ok = IF Ends(l) \subseteq pass.seen THEN @ \cup {l} ELSE @]
      BY <1>p, <2>0, <3>4
    <3> QED BY <3>1, <3>2, <3>3, <3>4
  <2>2. piped' \subseteq piped \cup {l}
    BY <1>17, DroppedShrinks DEF legacy, pipes
  <2>3. transport' = transport \/ transport' = transportSet(l, "legacy")
    BY <1>17 DEF legacy
  <2>4. l \in OnLegacy /\ transport[l] # "mesh"
    BY <2>0 DEF MeshInv, RoundsNest, OnLegacy, OnMesh
  <2>5. /\ transport' \in [Links -> {"none", "legacy", "mesh"}]
        /\ \A k \in Links : transport'[k] = "mesh" <=> transport[k] = "mesh"
    BY <1>t, <2>3, <2>4 DEF transportSet
  <2>6. OnLegacy' = OnLegacy
    BY <1>p, <2>1, <2>5 DEF OnLegacy, OnMesh, BothCapable
  <2>7. MeshTypes' /\ PortsFreed'
    BY <1>t, <2>0, <2>1, <2>2, <2>4, <2>5 DEF MeshInv, MeshTypes, PortsFreed
  <2> QED BY <2>0, <2>1, <2>6, <2>7 DEF MeshInv, RoundsNest, GrantedFirst, FreedFirst
<1>18. CASE finish
  <2>1. /\ pass' = NoPass /\ UNCHANGED <<connected, capable>>
        /\ transport' = [l \in Links |-> IF l \in pass.links THEN transport[l] ELSE "none"]
        /\ stored' = stored \cup (pass.extra \cap pass.ok)
    BY <1>18 DEF finish, presence
  <2>2. piped' \subseteq piped
    BY <1>18, DroppedShrinks DEF finish
  <2>3. stored' \subseteq Links
    BY <1>p, <1>t, <2>1
  <2>4. /\ transport' \in [Links -> {"none", "legacy", "mesh"}]
        /\ \A l \in Links : transport'[l] = "mesh" => transport[l] = "mesh"
    BY <1>t, <2>1
  <2> QED BY <1>t, <2>1, <2>2, <2>3, <2>4, NoPassKeeps
<1>19. CASE UNCHANGED meshVars
  BY <1>t, <1>19, OutsideKeeps DEF meshVars
<1> QED BY <1>1, <1>2, <1>3, <1>4, <1>5, <1>7, <1>8, <1>10, <1>11, <1>12, <1>13, <1>14, <1>15, <1>16,
           <1>17, <1>18, <1>19 DEF MeshNext, PassStep

(* For any links, Nodes, lost commands, reconnections and restarts of the Hub, *)
(* a link recorded as mesh has no dumbpipe listener on its consumer            *)
(* (meshControl.ts, reconcileOnce).                                            *)
THEOREM PortsAreFreed == MeshSpec => []PortsFreed
<1>1. MeshInv => PortsFreed
  BY DEF MeshInv
<1> QED BY <1>1, InitMeshInv, NextMeshInv, PTL DEF MeshSpec

(* Only the second stage opens listeners, and only of links whose provider     *)
(* answered the first.                                                         *)
LEMMA NextListens ==
  ASSUME MeshInv, MeshNext, NEW l \in Links, l \in listening', l \notin listening,
         transport[l] # "mesh"
  PROVE  l \in granted
<1>1. CASE \E n \in Peers : openListeners(n)
  <2>1. PICK n \in Peers : openListeners(n)
    BY <1>1
  <2>2. l \in Listeners(n, OnMesh \ HeldBack) /\ pass.at = "links"
    BY <2>1 DEF openListeners, At
  <2>3. l \in OnMesh /\ Ends(l) \subseteq pass.authorized
    BY <2>2 DEF Listeners, HeldBack
  <2>4. Provider[l] \in pass.authorized /\ Consumer[l] \in pass.endpoints
    BY <2>3 DEF Ends, MeshInv, RoundsNest
  <2> QED BY <2>2, <2>3, <2>4 DEF MeshInv, GrantedFirst
<1>2. CASE ~\E n \in Peers : openListeners(n)
  <2>1. listening' \subseteq listening
    <3>1. ASSUME NEW n \in Peers, authorize(n) PROVE listening' \subseteq listening
      BY <3>1 DEF authorize, Authorized, Revoked, sidecars
    <3> QED BY <1>2, <3>1 DEF MeshNext, PassStep, meshHello, goodbye, unlink, establishLink, meshDrop,
              sweep, boot, meshStatus, verify, legacy, authorizeAll, freePorts, verifyAll, legacyAll,
              finish, sidecars
  <2> QED BY <2>1
<1> QED BY <1>1, <1>2

(* "Every provider's grants are in place before any consumer listens", for     *)
(* every link that moves to the mesh and whatever fails (meshControl.ts).      *)
THEOREM GrantsComeFirst == MeshSpec => ListensAfterGrant
<1>1. MeshInv /\ [MeshNext]_meshVars =>
        [\A l \in Links : l \in listening' \ listening /\ transport[l] # "mesh" => l \in granted]_meshVars
  BY NextListens
<1> QED BY <1>1, InitMeshInv, NextMeshInv, PTL DEF MeshSpec, ListensAfterGrant
-----------------------------------------------------------------------------
(* The Apps.                                                                   *)
AppRecords == [node : Boxes \cup {"none"}, at : [Services -> Boxes \cup {"none"}]]
DeployRecords ==
  [at : {"idle", "preparing", "deploying", "linking"}, home : Boxes \cup {"none"},
   todo : SUBSET Boxes, to : Boxes \cup {"none"}, ran : BOOLEAN, ok : BOOLEAN]
FailoverRecords ==
  [at : {"idle", "armed", "moving"}, lost : Boxes \cup {"none"}, healthy : SUBSET Boxes,
   group : AppRecords, todo : SUBSET SUBSET Services, svcs : SUBSET Services,
   to : Boxes \cup {"none"}, ran : BOOLEAN]
RemovalRecords ==
  [at : {"idle", "removing"}, group : AppRecords, todo : SUBSET (Boxes \cup {"none"}),
   to : {"none"}, ran : {FALSE}]

AppsTypes ==
  /\ online \subseteq Boxes
  /\ running \in [Boxes -> SUBSET Services]
  /\ registry \in [Boxes -> SUBSET Routed]
  /\ app \in AppRecords
  /\ route \in [Routed -> Boxes \cup {"none"}]
  /\ deploy \in [Deploys -> DeployRecords]
  /\ removal \in RemovalRecords
  /\ failover \in [Losses -> FailoverRecords]
  /\ losses \in Nat

(* Every recorded App, also the one a failover or a removal works from, places *)
(* all its services; a flow has a Node to work on while it sends commands.     *)
Whole(g) == g = NoApp \/ \A s \in Services : g.at[s] # "none"
FlowsOK ==
  /\ Whole(app)
  /\ \A d \in Deploys : /\ deploy[d].at \in {"preparing", "deploying"} => deploy[d].home \in Boxes
                        /\ deploy[d].to # "none" => deploy[d].at = "deploying"
  /\ \A i \in Losses : /\ Whole(failover[i].group)
                       /\ failover[i].to # "none" => failover[i].at = "moving"
                       /\ failover[i].at = "armed" => failover[i].lost \in Boxes

(* The services of a deploy whose command is over, or has had its effect.      *)
DoneOf(f) == {s \in Services : /\ NodeOf(s, f.home) \notin f.todo
                               /\ f.to = NodeOf(s, f.home) => f.ran}

(* What a deploy or a failover has done so far is there to be recorded: the    *)
(* containers, unless a removal crossed it, ...                                *)
ContainersUp ==
  "removal" \notin crossed =>
    /\ \A d \in Deploys : deploy[d].at = "deploying" /\ deploy[d].ok =>
         \A s \in DoneOf(deploy[d]) : s \in running[NodeOf(s, deploy[d].home)]
    /\ \A i \in Losses : failover[i].to # "none" /\ failover[i].ran =>
         failover[i].svcs \subseteq running[failover[i].to]

(* ... and the ports, unless an agent restarted meanwhile.                     *)
PortsKnown ==
  "restart" \notin crossed =>
    /\ \A d \in Deploys : deploy[d].at = "deploying" /\ deploy[d].ok =>
         \A s \in DoneOf(deploy[d]) \cap Routed : s \in registry[NodeOf(s, deploy[d].home)]
    /\ \A i \in Losses : failover[i].to # "none" /\ failover[i].ran =>
         failover[i].svcs \cap Routed \subseteq registry[failover[i].to]

(* A removal that nothing crossed has the App to itself, and will take every   *)
(* route whose container it may have removed.                                  *)
RemovalAlone ==
  "removal" \notin crossed =>
    /\ removal.at # "idle" => ~Changing
    /\ \A s \in Routed : route[s] # "none" =>
         s \in running[route[s]] \/ (removal.at # "idle" /\ removal.group.at[s] # "none")

AppsInv == AppsTypes /\ FlowsOK /\ ContainersUp /\ PortsKnown /\ RemovalAlone /\ RoutedServedApart

(* The invariant holds with no App.                                            *)
LEMMA InitAppsInv == AppsInit => AppsInv
<1> SUFFICES ASSUME AppsInit PROVE AppsInv
  OBVIOUS
<1> USE AppsAssumption DEF AppsInit
<1>0. NoApp \in AppRecords
  BY DEF NoApp, AppRecords
<1>1. NoDeploy \in DeployRecords /\ NoRemoval \in RemovalRecords /\ NoFailover \in FailoverRecords
  BY <1>0 DEF NoDeploy, DeployRecords, NoRemoval, RemovalRecords, NoFailover, FailoverRecords
<1>2. AppsTypes
  BY <1>0, <1>1 DEF AppsTypes
<1>3. FlowsOK /\ ContainersUp /\ PortsKnown
  BY DEF FlowsOK, Whole, ContainersUp, PortsKnown, NoDeploy, NoFailover
<1>4. RemovalAlone /\ RoutedServedApart
  BY DEF RemovalAlone, RoutedServedApart, NoRemoval
<1> QED BY <1>2, <1>3, <1>4 DEF AppsInv

(* The records of what is not under way are well typed.                        *)
LEMMA NothingRecords ==
  /\ NoApp \in AppRecords /\ NoDeploy \in DeployRecords
  /\ NoRemoval \in RemovalRecords /\ NoFailover \in FailoverRecords
<1>0. NoApp \in AppRecords
  BY DEF NoApp, AppRecords
<1> QED BY <1>0 DEF NoDeploy, DeployRecords, NoRemoval, RemovalRecords, NoFailover, FailoverRecords

(* A service is placed on a Node.                                              *)
LEMMA NodeOfType == ASSUME NEW s \in Services, NEW home \in Boxes PROVE NodeOf(s, home) \in Boxes
BY AppsAssumption DEF NodeOf

(* A step of one deploy that removes nothing: what it adds to is there, and    *)
(* what it claims done is so.                                                  *)
LEMMA DeployMoves ==
  ASSUME AppsInv, NEW d \in Deploys, NEW f \in DeployRecords,
         deploy' = [deploy EXCEPT ![d] = f],
         UNCHANGED <<online, app, route, failover, removal, losses>>,
         crossed \subseteq crossed',
         removal.at # "idle" /\ f.at # "idle" => "removal" \in crossed',
         running' \in [Boxes -> SUBSET Services], registry' \in [Boxes -> SUBSET Routed],
         \A n \in Boxes : running[n] \subseteq running'[n] /\ registry[n] \subseteq registry'[n],
         f.at \in {"preparing", "deploying"} => f.home \in Boxes,
         f.to # "none" => f.at = "deploying",
         "removal" \notin crossed' /\ f.at = "deploying" /\ f.ok =>
           \A s \in DoneOf(f) : s \in running'[NodeOf(s, f.home)],
         "restart" \notin crossed' /\ f.at = "deploying" /\ f.ok =>
           \A s \in DoneOf(f) \cap Routed : s \in registry'[NodeOf(s, f.home)]
  PROVE  AppsInv'
<1> USE AppsAssumption
<1>0. deploy'[d] = f /\ \A e \in Deploys : e # d => deploy'[e] = deploy[e]
  BY DEF AppsInv, AppsTypes
<1>1. AppsTypes'
  BY DEF AppsInv, AppsTypes
<1>2. FlowsOK'
  <2>1. \A e \in Deploys : /\ deploy'[e].at \in {"preparing", "deploying"} => deploy'[e].home \in Boxes
                           /\ deploy'[e].to # "none" => deploy'[e].at = "deploying"
    BY <1>0 DEF AppsInv, FlowsOK
  <2> QED BY <2>1 DEF AppsInv, FlowsOK, Whole
<1>3. ContainersUp'
  <2> SUFFICES ASSUME "removal" \notin crossed' PROVE ContainersUp'
    BY DEF ContainersUp
  <2>0. "removal" \notin crossed
    OBVIOUS
  <2>1. ASSUME NEW e \in Deploys, deploy'[e].at = "deploying", deploy'[e].ok,
               NEW s \in DoneOf(deploy'[e])
        PROVE  s \in running'[NodeOf(s, deploy'[e].home)]
    <3>1. CASE e = d
      BY <1>0, <2>1, <3>1
    <3>2. CASE e # d
      <4>1. deploy'[e] = deploy[e]
        BY <1>0, <3>2
      <4>2. s \in running[NodeOf(s, deploy[e].home)] /\ deploy[e].home \in Boxes /\ s \in Services
        BY <2>0, <2>1, <4>1 DEF AppsInv, ContainersUp, FlowsOK, DoneOf
      <4> QED BY <4>1, <4>2, NodeOfType
    <3> QED BY <3>1, <3>2
  <2>2. ASSUME NEW i \in Losses, failover'[i].to # "none", failover'[i].ran
        PROVE  failover'[i].svcs \subseteq running'[failover'[i].to]
    <3>1. failover[i].svcs \subseteq running[failover[i].to] /\ failover[i].to \in Boxes
      BY <2>0, <2>2 DEF AppsInv, ContainersUp, AppsTypes, FailoverRecords
    <3> QED BY <3>1
  <2> QED BY <2>1, <2>2 DEF ContainersUp
<1>4. PortsKnown'
  <2> SUFFICES ASSUME "restart" \notin crossed' PROVE PortsKnown'
    BY DEF PortsKnown
  <2>0. "restart" \notin crossed
    OBVIOUS
  <2>1. ASSUME NEW e \in Deploys, deploy'[e].at = "deploying", deploy'[e].ok,
               NEW s \in DoneOf(deploy'[e]) \cap Routed
        PROVE  s \in registry'[NodeOf(s, deploy'[e].home)]
    <3>1. CASE e = d
      BY <1>0, <2>1, <3>1
    <3>2. CASE e # d
      <4>1. deploy'[e] = deploy[e]
        BY <1>0, <3>2
      <4>2. s \in registry[NodeOf(s, deploy[e].home)] /\ deploy[e].home \in Boxes /\ s \in Services
        BY <2>0, <2>1, <4>1 DEF AppsInv, PortsKnown, FlowsOK, DoneOf
      <4> QED BY <4>1, <4>2, NodeOfType
    <3> QED BY <3>1, <3>2
  <2>2. ASSUME NEW i \in Losses, failover'[i].to # "none", failover'[i].ran
        PROVE  failover'[i].svcs \cap Routed \subseteq registry'[failover'[i].to]
    <3>1. failover[i].svcs \cap Routed \subseteq registry[failover[i].to] /\ failover[i].to \in Boxes
      BY <2>0, <2>2 DEF AppsInv, PortsKnown, AppsTypes, FailoverRecords
    <3> QED BY <3>1
  <2> QED BY <2>1, <2>2 DEF PortsKnown
<1>5. RemovalAlone'
  <2> SUFFICES ASSUME "removal" \notin crossed' PROVE RemovalAlone'
    BY DEF RemovalAlone
  <2>0. "removal" \notin crossed
    OBVIOUS
  <2>1. removal.at # "idle" => ~Changing'
    <3> SUFFICES ASSUME removal.at # "idle" PROVE ~Changing'
      OBVIOUS
    <3>1. f.at = "idle" /\ ~Changing
      BY <2>0 DEF AppsInv, RemovalAlone
    <3> QED BY <1>0, <3>1 DEF Changing
  <2>2. \A s \in Routed : route[s] # "none" =>
          s \in running'[route[s]] \/ (removal.at # "idle" /\ removal.group.at[s] # "none")
    BY <2>0 DEF AppsInv, RemovalAlone, AppsTypes
  <2> QED BY <2>1, <2>2 DEF RemovalAlone
<1>6. RoutedServedApart'
  BY DEF AppsInv, RoutedServedApart, AppsTypes
<1> QED BY <1>1, <1>2, <1>3, <1>4, <1>5, <1>6 DEF AppsInv

(* The same for a step of one failover.                                        *)
LEMMA FailoverMoves ==
  ASSUME AppsInv, NEW i \in Losses, NEW f \in FailoverRecords,
         failover' = [failover EXCEPT ![i] = f],
         UNCHANGED <<online, app, route, deploy, removal, losses>>,
         crossed \subseteq crossed',
         removal.at # "idle" /\ f.at = "moving" => "removal" \in crossed',
         running' \in [Boxes -> SUBSET Services], registry' \in [Boxes -> SUBSET Routed],
         \A n \in Boxes : running[n] \subseteq running'[n] /\ registry[n] \subseteq registry'[n],
         Whole(f.group), f.to # "none" => f.at = "moving", f.at = "armed" => f.lost \in Boxes,
         "removal" \notin crossed' /\ f.to # "none" /\ f.ran => f.svcs \subseteq running'[f.to],
         "restart" \notin crossed' /\ f.to # "none" /\ f.ran => f.svcs \cap Routed \subseteq registry'[f.to]
  PROVE  AppsInv'
<1> USE AppsAssumption
<1>0. failover'[i] = f /\ \A j \in Losses : j # i => failover'[j] = failover[j]
  BY DEF AppsInv, AppsTypes
<1>1. AppsTypes'
  BY DEF AppsInv, AppsTypes
<1>2. FlowsOK'
  <2>1. \A j \in Losses : /\ Whole(failover'[j].group)
                          /\ failover'[j].to # "none" => failover'[j].at = "moving"
                          /\ failover'[j].at = "armed" => failover'[j].lost \in Boxes
    BY <1>0 DEF AppsInv, FlowsOK
  <2> QED BY <2>1 DEF AppsInv, FlowsOK, Whole
<1>3. ContainersUp'
  <2> SUFFICES ASSUME "removal" \notin crossed' PROVE ContainersUp'
    BY DEF ContainersUp
  <2>0. "removal" \notin crossed
    OBVIOUS
  <2>1. ASSUME NEW e \in Deploys, deploy'[e].at = "deploying", deploy'[e].ok,
               NEW s \in DoneOf(deploy'[e])
        PROVE  s \in running'[NodeOf(s, deploy'[e].home)]
    <3>1. s \in running[NodeOf(s, deploy[e].home)] /\ deploy[e].home \in Boxes /\ s \in Services
      BY <2>0, <2>1 DEF AppsInv, ContainersUp, FlowsOK, DoneOf
    <3> QED BY <3>1, NodeOfType
  <2>2. ASSUME NEW j \in Losses, failover'[j].to # "none", failover'[j].ran
        PROVE  failover'[j].svcs \subseteq running'[failover'[j].to]
    <3>1. CASE j = i
      BY <1>0, <2>2, <3>1
    <3>2. CASE j # i
      <4>1. failover[j].svcs \subseteq running[failover[j].to] /\ failover[j].to \in Boxes
        BY <1>0, <2>0, <2>2, <3>2 DEF AppsInv, ContainersUp, AppsTypes, FailoverRecords
      <4> QED BY <1>0, <3>2, <4>1
    <3> QED BY <3>1, <3>2
  <2> QED BY <2>1, <2>2 DEF ContainersUp
<1>4. PortsKnown'
  <2> SUFFICES ASSUME "restart" \notin crossed' PROVE PortsKnown'
    BY DEF PortsKnown
  <2>0. "restart" \notin crossed
    OBVIOUS
  <2>1. ASSUME NEW e \in Deploys, deploy'[e].at = "deploying", deploy'[e].ok,
               NEW s \in DoneOf(deploy'[e]) \cap Routed
        PROVE  s \in registry'[NodeOf(s, deploy'[e].home)]
    <3>1. s \in registry[NodeOf(s, deploy[e].home)] /\ deploy[e].home \in Boxes /\ s \in Services
      BY <2>0, <2>1 DEF AppsInv, PortsKnown, FlowsOK, DoneOf
    <3> QED BY <3>1, NodeOfType
  <2>2. ASSUME NEW j \in Losses, failover'[j].to # "none", failover'[j].ran
        PROVE  failover'[j].svcs \cap Routed \subseteq registry'[failover'[j].to]
    <3>1. CASE j = i
      BY <1>0, <2>2, <3>1
    <3>2. CASE j # i
      <4>1. failover[j].svcs \cap Routed \subseteq registry[failover[j].to] /\ failover[j].to \in Boxes
        BY <1>0, <2>0, <2>2, <3>2 DEF AppsInv, PortsKnown, AppsTypes, FailoverRecords
      <4> QED BY <1>0, <3>2, <4>1
    <3> QED BY <3>1, <3>2
  <2> QED BY <2>1, <2>2 DEF PortsKnown
<1>5. RemovalAlone'
  <2> SUFFICES ASSUME "removal" \notin crossed' PROVE RemovalAlone'
    BY DEF RemovalAlone
  <2>0. "removal" \notin crossed
    OBVIOUS
  <2>1. removal.at # "idle" => ~Changing'
    <3> SUFFICES ASSUME removal.at # "idle" PROVE ~Changing'
      OBVIOUS
    <3>1. f.at # "moving" /\ ~Changing
      BY <2>0 DEF AppsInv, RemovalAlone
    <3> QED BY <1>0, <3>1 DEF Changing
  <2>2. \A s \in Routed : route[s] # "none" =>
          s \in running'[route[s]] \/ (removal.at # "idle" /\ removal.group.at[s] # "none")
    BY <2>0 DEF AppsInv, RemovalAlone, AppsTypes
  <2> QED BY <2>1, <2>2 DEF RemovalAlone
<1>6. RoutedServedApart'
  BY DEF AppsInv, RoutedServedApart, AppsTypes
<1> QED BY <1>1, <1>2, <1>3, <1>4, <1>5, <1>6 DEF AppsInv

(* The flows that wait for a command of Node n lose it; nobody's results do.   *)
LEMMA CutKeeps ==
  ASSUME AppsInv, NEW n \in Boxes, NEW restarted \in BOOLEAN, rejectPending(n, restarted),
         NEW i \in Losses, NEW g \in FailoverRecords, g.to = "none", g.at # "moving",
         Whole(g.group), g.at = "armed" => g.lost \in Boxes,
         failover' = CutMoves(n) \/ failover' = [CutMoves(n) EXCEPT ![i] = g],
         UNCHANGED <<running, app, route, removal>>,
         \/ online' = online \ {n} /\ registry' = [registry EXCEPT ![n] = Kept(n, restarted)]
         \/ online' = online /\ registry' = [registry EXCEPT ![n] = Kept(n, restarted) \cup rehydrated(n)]
  PROVE  AppsInv'
<1> USE AppsAssumption
<1>t. AppsTypes
  BY DEF AppsInv
<1>0. /\ deploy' = Cut(n) /\ crossed \subseteq crossed' /\ losses' = losses + 1
      /\ crossed' \subseteq crossed \cup {"restart"}
      /\ restarted /\ Changing => "restart" \in crossed'
  BY DEF rejectPending
<1>1. \A d \in Deploys : deploy'[d] = deploy[d] \/ deploy'[d] = NoDeploy
  BY <1>0 DEF Cut
<1>2. \A j \in Losses : \/ failover'[j] = failover[j]
                        \/ failover'[j] = [failover[j] EXCEPT !.to = "none"]
                        \/ failover'[j] = g
  BY DEF CutMoves
<1>3. \A j \in Losses : \/ failover'[j] = failover[j]
                        \/ /\ failover'[j].to = "none" /\ failover'[j] \in FailoverRecords
                           /\ Whole(failover'[j].group)
                           /\ failover'[j].at = "armed" => failover'[j].lost \in Boxes
                           /\ failover'[j].at = "moving" => failover[j].at = "moving"
  <2> SUFFICES ASSUME NEW j \in Losses, failover'[j] = [failover[j] EXCEPT !.to = "none"]
               PROVE  /\ failover'[j].to = "none" /\ failover'[j] \in FailoverRecords
                      /\ Whole(failover'[j].group)
                      /\ failover'[j].at = "armed" => failover'[j].lost \in Boxes
                      /\ failover'[j].at = "moving" => failover[j].at = "moving"
    BY <1>2
  <2>1. failover[j] \in FailoverRecords
    BY <1>t DEF AppsTypes
  <2>2. /\ failover'[j].to = "none" /\ failover'[j].group = failover[j].group
        /\ failover'[j].at = failover[j].at /\ failover'[j].lost = failover[j].lost
        /\ failover'[j] \in FailoverRecords
    BY <2>1 DEF FailoverRecords
  <2> QED BY <2>2 DEF AppsInv, FlowsOK
<1>4. registry' \in [Boxes -> SUBSET Routed]
  BY <1>t DEF AppsTypes, Kept, rehydrated
<1>5. \A m \in Boxes : registry[m] \subseteq registry'[m] \/ (m = n /\ restarted)
  BY <1>t DEF AppsTypes, Kept
<1>6. AppsTypes'
  <2>1. deploy' \in [Deploys -> DeployRecords]
    BY <1>0, <1>t, NothingRecords DEF Cut, AppsTypes
  <2>2. failover' \in [Losses -> FailoverRecords]
    <3>1. CutMoves(n) \in [Losses -> FailoverRecords]
      BY <1>t DEF CutMoves, AppsTypes, FailoverRecords
    <3> QED BY <3>1
  <2>3. losses' \in Nat /\ online' \subseteq Boxes
    BY <1>0, <1>t DEF AppsTypes
  <2> QED BY <1>t, <1>4, <2>1, <2>2, <2>3 DEF AppsTypes
<1>7. FlowsOK'
  <2>1. \A d \in Deploys : /\ deploy'[d].at \in {"preparing", "deploying"} => deploy'[d].home \in Boxes
                           /\ deploy'[d].to # "none" => deploy'[d].at = "deploying"
    BY <1>1 DEF AppsInv, FlowsOK, NoDeploy
  <2>2. \A j \in Losses : /\ Whole(failover'[j].group)
                          /\ failover'[j].to # "none" => failover'[j].at = "moving"
                          /\ failover'[j].at = "armed" => failover'[j].lost \in Boxes
    BY <1>3 DEF AppsInv, FlowsOK
  <2> QED BY <2>1, <2>2 DEF AppsInv, FlowsOK, Whole
<1>8. ContainersUp'
  <2> SUFFICES ASSUME "removal" \notin crossed PROVE ContainersUp'
    BY <1>0 DEF ContainersUp
  <2>1. \A d \in Deploys : deploy'[d].at = "deploying" => deploy'[d] = deploy[d]
    BY <1>1 DEF NoDeploy
  <2>2. \A j \in Losses : failover'[j].to # "none" => failover'[j] = failover[j]
    BY <1>3
  <2> QED BY <2>1, <2>2 DEF AppsInv, ContainersUp
<1>9. PortsKnown'
  <2> SUFFICES ASSUME "restart" \notin crossed' PROVE PortsKnown'
    BY DEF PortsKnown
  <2>0. "restart" \notin crossed /\ ~(restarted /\ Changing)
    BY <1>0
  <2>1. ASSUME NEW d \in Deploys, deploy'[d].at = "deploying", deploy'[d].ok,
               NEW s \in DoneOf(deploy'[d]) \cap Routed
        PROVE  s \in registry'[NodeOf(s, deploy'[d].home)]
    <3>1. deploy'[d] = deploy[d] /\ Changing
      BY <1>1, <2>1 DEF NoDeploy, Changing
    <3>2. s \in registry[NodeOf(s, deploy[d].home)] /\ deploy[d].home \in Boxes /\ s \in Services
      BY <2>0, <2>1, <3>1 DEF AppsInv, PortsKnown, FlowsOK, DoneOf
    <3> QED BY <1>5, <2>0, <3>1, <3>2, NodeOfType
  <2>2. ASSUME NEW j \in Losses, failover'[j].to # "none", failover'[j].ran
        PROVE  failover'[j].svcs \cap Routed \subseteq registry'[failover'[j].to]
    <3>1. failover'[j] = failover[j]
      BY <1>3, <2>2
    <3>2. failover[j].at = "moving" /\ failover[j].to \in Boxes
      BY <1>t, <2>2, <3>1 DEF AppsInv, FlowsOK, AppsTypes, FailoverRecords
    <3>3. failover[j].svcs \cap Routed \subseteq registry[failover[j].to]
      BY <2>0, <2>2, <3>1 DEF AppsInv, PortsKnown
    <3> QED BY <1>5, <2>0, <3>1, <3>2, <3>3 DEF Changing
  <2> QED BY <2>1, <2>2 DEF PortsKnown
<1>10. RemovalAlone'
  <2> SUFFICES ASSUME "removal" \notin crossed PROVE RemovalAlone'
    BY <1>0 DEF RemovalAlone
  <2>1. Changing' => Changing
    BY <1>1, <1>3 DEF Changing, NoDeploy
  <2> QED BY <2>1 DEF AppsInv, RemovalAlone
<1>11. RoutedServedApart'
  <2> SUFFICES ASSUME "restart" \notin crossed', NEW s \in Routed, route[s] \in online'
               PROVE  s \in registry'[route[s]]
    BY DEF RoutedServedApart
  <2>1. s \in registry[route[s]] /\ route[s] \in Boxes
    BY <1>0, <1>t DEF AppsInv, RoutedServedApart, AppsTypes
  <2>2. CASE route[s] = n
    BY <1>t, <2>2 DEF rehydrated, AppsTypes
  <2>3. CASE route[s] # n
    BY <1>5, <2>1, <2>3
  <2> QED BY <2>2, <2>3
<1> QED BY <1>6, <1>7, <1>8, <1>9, <1>10, <1>11 DEF AppsInv

(* Every step of a deploy keeps the invariant.                                 *)
LEMMA DeployKeeps ==
  ASSUME AppsInv, NEW d \in Deploys, start(d) \/ DeployStep(d)
  PROVE  AppsInv'
<1> USE AppsAssumption
<1>t. AppsTypes /\ deploy[d] \in DeployRecords
  BY DEF AppsInv, AppsTypes
<1>n. NoDeploy \in DeployRecords
  BY NothingRecords
<1>a. deploy[d].at # "idle" => (removal.at # "idle" => "removal" \in crossed)
  BY DEF AppsInv, RemovalAlone, Changing
<1>e. ASSUME Ended(d, "done") \/ Ended(d, "failed") \/ Ended(d, "used"),
             UNCHANGED <<online, app, route, failover, removal, losses, running, registry>>,
             crossed' = crossed
      PROVE  AppsInv'
  <2>1. deploy' = [deploy EXCEPT ![d] = NoDeploy]
    BY <1>e DEF Ended
  <2>2. NoDeploy.at = "idle" /\ NoDeploy.to = "none"
    BY DEF NoDeploy
  <2> QED BY <1>e, <1>t, <1>n, <2>1, <2>2, DeployMoves DEF AppsTypes
<1>f. ASSUME NEW f \in DeployRecords, deploy' = [deploy EXCEPT ![d] = f], deploy[d].at # "idle",
             f.at = "preparing" => deploy[d].home \in Boxes,
             f.home = deploy[d].home, f.at = "deploying" => deploy[d].at \in {"preparing", "deploying"},
             f.to # "none" => f.at = "deploying",
             UNCHANGED <<online, app, route, failover, removal, losses, running, registry, crossed>>,
             f.at = "deploying" /\ f.ok =>
               \/ /\ deploy[d].ok /\ deploy[d].at = "deploying"
                  /\ DoneOf(f) \subseteq DoneOf(deploy[d])
               \/ DoneOf(f) = {}
      PROVE  AppsInv'
  <2>1. f.at \in {"preparing", "deploying"} => f.home \in Boxes
    BY <1>f DEF AppsInv, FlowsOK
  <2>2. "removal" \notin crossed' /\ f.at = "deploying" /\ f.ok =>
           \A s \in DoneOf(f) : s \in running'[NodeOf(s, f.home)]
    BY <1>f DEF AppsInv, ContainersUp
  <2>3. "restart" \notin crossed' /\ f.at = "deploying" /\ f.ok =>
           \A s \in DoneOf(f) \cap Routed : s \in registry'[NodeOf(s, f.home)]
    BY <1>f DEF AppsInv, PortsKnown
  <2>4. \A n \in Boxes : running[n] \subseteq running'[n] /\ registry[n] \subseteq registry'[n]
    BY <1>f
  <2>5. running' \in [Boxes -> SUBSET Services] /\ registry' \in [Boxes -> SUBSET Routed]
    BY <1>f, <1>t DEF AppsTypes
  <2> QED BY <1>a, <1>f, <2>1, <2>2, <2>3, <2>4, <2>5, DeployMoves
<1>1. CASE start(d)
  <2>0. UNCHANGED <<online, app, route, failover, removal, losses, running, registry>>
    BY <1>1 DEF start, Unmoved
  <2>1. ASSUME NEW home \in online,
               deploy' = [deploy EXCEPT ![d] = [NoDeploy EXCEPT !.at = "preparing", !.home = home]],
               crossed' = IF removal.at # "idle" THEN crossed \cup {"removal"} ELSE crossed
        PROVE  AppsInv'
    <3> DEFINE f == [NoDeploy EXCEPT !.at = "preparing", !.home = home]
    <3>1. f \in DeployRecords /\ f.at = "preparing" /\ f.home = home /\ f.to = "none" /\ home \in Boxes
      BY <1>t, <2>1 DEF NoDeploy, DeployRecords, AppsTypes
    <3>2. deploy' = [deploy EXCEPT ![d] = f]
      BY <2>1
    <3> HIDE DEF f
    <3>3. crossed \subseteq crossed' /\ (removal.at # "idle" => "removal" \in crossed')
      BY <2>1
    <3>4. running' \in [Boxes -> SUBSET Services] /\ registry' \in [Boxes -> SUBSET Routed]
      BY <1>t, <2>0 DEF AppsTypes
    <3> QED BY <2>0, <3>1, <3>2, <3>3, <3>4, DeployMoves
  <2>2. CASE Ended(d, "failed") /\ crossed' = crossed
    BY <1>e, <2>0, <2>2
  <2>3. CASE deploy' = deploy /\ crossed' = crossed \cup {"upload"}
    <3>1. /\ "removal" \in crossed' <=> "removal" \in crossed
          /\ "restart" \in crossed' <=> "restart" \in crossed
      BY <2>3
    <3>2. AppsTypes' /\ FlowsOK'
      BY <2>0, <2>3 DEF AppsInv, AppsTypes, FlowsOK, Whole
    <3>3. ContainersUp' /\ PortsKnown'
      BY <2>0, <2>3, <3>1 DEF AppsInv, ContainersUp, PortsKnown
    <3>4. RemovalAlone' /\ RoutedServedApart'
      BY <2>0, <2>3, <3>1 DEF AppsInv, RemovalAlone, RoutedServedApart, Changing
    <3> QED BY <3>2, <3>3, <3>4 DEF AppsInv
  <2> QED BY <1>1, <2>1, <2>2, <2>3 DEF start
<1>2. CASE prepare(d)
  <2>0. UNCHANGED <<online, app, route, failover, removal, losses, running, registry, crossed>>
    BY <1>2 DEF prepare, Unmoved
  <2>1. CASE Ended(d, "failed")
    BY <1>e, <2>0, <2>1
  <2>2. CASE deploy' = [deploy EXCEPT ![d].at = "deploying", ![d].todo = Placed(deploy[d].home)]
    <3> DEFINE f == [deploy[d] EXCEPT !.at = "deploying", !.todo = Placed(deploy[d].home)]
    <3>0. deploy[d].at = "preparing" /\ deploy[d].home \in Boxes
      BY <1>2 DEF prepare, AppsInv, FlowsOK
    <3>1. Placed(deploy[d].home) \in SUBSET Boxes
      BY <3>0, NodeOfType DEF Placed
    <3>2. /\ f \in DeployRecords /\ f.at = "deploying" /\ f.home = deploy[d].home
          /\ f.todo = Placed(deploy[d].home)
      BY <1>t, <3>1 DEF DeployRecords
    <3>3. deploy' = [deploy EXCEPT ![d] = f]
      BY <1>t, <2>2 DEF AppsTypes, DeployRecords
    <3> HIDE DEF f
    <3>4. DoneOf(f) = {}
      BY <3>2 DEF DoneOf, Placed
    <3> QED BY <1>f, <2>0, <3>0, <3>2, <3>3, <3>4
  <2> QED BY <1>2, <2>1, <2>2 DEF prepare
<1>3. ASSUME NEW n \in Boxes, sendGroup(d, n) PROVE AppsInv'
  <2>0. UNCHANGED <<online, app, route, failover, removal, losses, running, registry, crossed>>
    BY <1>3 DEF sendGroup, Unmoved
  <2>1. CASE Ended(d, "failed")
    BY <1>e, <2>0, <2>1
  <2>2. CASE deploy' = [deploy EXCEPT ![d].to = n, ![d].ran = FALSE, ![d].todo = @ \ {n}]
    <3> DEFINE f == [deploy[d] EXCEPT !.to = n, !.ran = FALSE, !.todo = @ \ {n}]
    <3>0. deploy[d].at = "deploying" /\ deploy[d].to = "none"
      BY <1>3 DEF sendGroup
    <3>1. /\ f \in DeployRecords /\ f.at = "deploying" /\ f.home = deploy[d].home
          /\ f.todo = deploy[d].todo \ {n} /\ f.to = n /\ f.ran = FALSE /\ f.ok = deploy[d].ok
      BY <1>t, <3>0 DEF DeployRecords
    <3>3. deploy' = [deploy EXCEPT ![d] = f]
      BY <1>t, <2>2 DEF AppsTypes, DeployRecords
    <3> HIDE DEF f
    <3>4. DoneOf(f) \subseteq DoneOf(deploy[d])
      <4>1. deploy[d].home \in Boxes
        BY <3>0 DEF AppsInv, FlowsOK
      <4>2. \A s \in Services : NodeOf(s, deploy[d].home) # "none"
        BY <4>1, NodeOfType
      <4> QED BY <3>0, <3>1, <4>2 DEF DoneOf
    <3> QED BY <1>f, <2>0, <3>0, <3>1, <3>3, <3>4
  <2> QED BY <1>3, <2>1, <2>2 DEF sendGroup
<1>4. CASE runGroup(d)
  <2> DEFINE f == [deploy[d] EXCEPT !.ran = TRUE]
             m == deploy[d].to
             grp == Group(deploy[d].to, deploy[d].home)
  <2>0. UNCHANGED <<online, app, route, failover, removal, losses, crossed>>
    BY <1>4 DEF runGroup, Unmoved
  <2>1. m \in Boxes /\ deploy[d].at = "deploying" /\ deploy[d].home \in Boxes
    BY <1>4, <1>t DEF runGroup, AppsInv, FlowsOK, DeployRecords
  <2>2. /\ running' = [running EXCEPT ![m] = @ \cup grp]
        /\ registry' = [registry EXCEPT ![m] = @ \cup (grp \cap Routed)]
        /\ grp \subseteq Services
    BY <1>4 DEF runGroup, Group
  <2>3. /\ f \in DeployRecords /\ f.at = "deploying" /\ f.home = deploy[d].home
        /\ f.todo = deploy[d].todo /\ f.to = m /\ f.ran = TRUE /\ f.ok = deploy[d].ok
    BY <1>t, <2>1 DEF DeployRecords
  <2>4. deploy' = [deploy EXCEPT ![d] = f]
    BY <1>t, <1>4 DEF AppsTypes, DeployRecords, runGroup
  <2>5. /\ running' \in [Boxes -> SUBSET Services] /\ registry' \in [Boxes -> SUBSET Routed]
        /\ \A n \in Boxes : running[n] \subseteq running'[n] /\ registry[n] \subseteq registry'[n]
    BY <1>t, <2>1, <2>2 DEF AppsTypes
  <2>6. \A s \in DoneOf(f) : s \in DoneOf(deploy[d]) \/ s \in grp
    BY <2>1, <2>3, NodeOfType DEF DoneOf, Group
  <2>7. \A s \in grp : s \in running'[m] /\ (s \in Routed => s \in registry'[m]) /\ NodeOf(s, deploy[d].home) = m
    BY <1>t, <2>1, <2>2 DEF AppsTypes, Group
  <2> HIDE DEF f, m, grp
  <2>8. "removal" \notin crossed' /\ f.at = "deploying" /\ f.ok =>
           \A s \in DoneOf(f) : s \in running'[NodeOf(s, f.home)]
    <3> SUFFICES ASSUME "removal" \notin crossed, f.ok, NEW s \in DoneOf(f)
                 PROVE  s \in running'[NodeOf(s, f.home)]
      BY <2>0
    <3>1. CASE s \in grp
      BY <2>3, <2>7, <3>1
    <3>2. CASE s \in DoneOf(deploy[d])
      <4>1. s \in running[NodeOf(s, deploy[d].home)] /\ s \in Services
        BY <2>1, <2>3, <3>2 DEF AppsInv, ContainersUp, DoneOf
      <4> QED BY <2>1, <2>3, <2>5, <4>1, NodeOfType
    <3> QED BY <2>6, <3>1, <3>2
  <2>9. "restart" \notin crossed' /\ f.at = "deploying" /\ f.ok =>
           \A s \in DoneOf(f) \cap Routed : s \in registry'[NodeOf(s, f.home)]
    <3> SUFFICES ASSUME "restart" \notin crossed, f.ok, NEW s \in DoneOf(f) \cap Routed
                 PROVE  s \in registry'[NodeOf(s, f.home)]
      BY <2>0
    <3>1. CASE s \in grp
      BY <2>3, <2>7, <3>1
    <3>2. CASE s \in DoneOf(deploy[d])
      <4>1. s \in registry[NodeOf(s, deploy[d].home)] /\ s \in Services
        BY <2>1, <2>3, <3>2 DEF AppsInv, PortsKnown, DoneOf
      <4> QED BY <2>1, <2>3, <2>5, <4>1, NodeOfType
    <3> QED BY <2>6, <3>1, <3>2
  <2> QED BY <1>a, <2>0, <2>1, <2>3, <2>4, <2>5, <2>8, <2>9, DeployMoves
<1>5. CASE answerGroup(d)
  <2>0. UNCHANGED <<online, app, route, failover, removal, losses, running, registry, crossed>>
    BY <1>5 DEF answerGroup, Unmoved
  <2>a. deploy[d].at = "deploying"
    BY <1>5 DEF answerGroup, AppsInv, FlowsOK
  <2>1. CASE Ended(d, "failed")
    BY <1>e, <2>0, <2>1
  <2>2. CASE deploy[d].ran /\ deploy' = [deploy EXCEPT ![d].to = "none"]
    <3> DEFINE f == [deploy[d] EXCEPT !.to = "none"]
    <3>1. /\ f \in DeployRecords /\ f.at = "deploying" /\ f.home = deploy[d].home
          /\ f.todo = deploy[d].todo /\ f.to = "none" /\ f.ok = deploy[d].ok
      BY <1>t, <2>a DEF DeployRecords
    <3>3. deploy' = [deploy EXCEPT ![d] = f]
      BY <1>t, <2>2 DEF AppsTypes, DeployRecords
    <3> HIDE DEF f
    <3>4. DoneOf(f) \subseteq DoneOf(deploy[d])
      BY <2>2, <3>1 DEF DoneOf
    <3> QED BY <1>f, <2>0, <2>a, <3>1, <3>3, <3>4
  <2>3. CASE deploy' = [deploy EXCEPT ![d].to = "none", ![d].ok = FALSE]
    <3> DEFINE f == [deploy[d] EXCEPT !.to = "none", !.ok = FALSE]
    <3>1. /\ f \in DeployRecords /\ f.at = "deploying" /\ f.home = deploy[d].home
          /\ f.to = "none" /\ ~f.ok
      BY <1>t, <2>a DEF DeployRecords
    <3>3. deploy' = [deploy EXCEPT ![d] = f]
      BY <1>t, <2>3 DEF AppsTypes, DeployRecords
    <3> HIDE DEF f
    <3> QED BY <1>f, <2>0, <2>a, <3>1, <3>3
  <2> QED BY <1>5, <2>1, <2>2, <2>3 DEF answerGroup
<1>6. CASE link(d)
  BY <1>e, <1>6 DEF link, Unmoved
<1>7. CASE record(d)
  <2> DEFINE f == IF d \in Pipelines THEN [deploy[d] EXCEPT !.at = "linking"] ELSE NoDeploy
  <2>0. /\ UNCHANGED <<online, failover, removal, losses, running, registry, crossed>>
        /\ deploy[d].at = "deploying" /\ deploy[d].to = "none" /\ deploy[d].todo = {}
        /\ deploy[d].home \in Boxes
    BY <1>7 DEF record, ReadyToRecord, AppsInv, FlowsOK
  <2>1. f \in DeployRecords /\ f.at \notin {"preparing", "deploying"} /\ f.to = "none"
    BY <1>t, <1>n, <2>0 DEF DeployRecords, NoDeploy
  <2>2. deploy' = [deploy EXCEPT ![d] = f]
    BY <1>t, <1>7 DEF AppsTypes, DeployRecords, record, Ended
  <2> HIDE DEF f
  <2>3. CASE ~deploy[d].ok
    <3>1. UNCHANGED <<app, route>>
      BY <1>7, <2>3 DEF record
    <3> QED BY <1>a, <1>t, <2>0, <2>1, <2>2, <3>1, DeployMoves DEF AppsTypes
  <2>4. CASE deploy[d].ok
    <3>1. /\ app' = [node |-> deploy[d].home, at |-> [s \in Services |-> NodeOf(s, deploy[d].home)]]
          /\ route' = [s \in Routed |-> NodeOf(s, deploy[d].home)]
      BY <1>7, <2>4 DEF record, Recorded
    <3>2. deploy'[d] = f /\ \A e \in Deploys : e # d => deploy'[e] = deploy[e]
      BY <1>t, <2>2 DEF AppsTypes
    <3>3. app' \in AppRecords /\ Whole(app') /\ route' \in [Routed -> Boxes \cup {"none"}]
      BY <2>0, <3>1, NodeOfType DEF AppRecords, Whole
    <3>4. AppsTypes'
      BY <1>t, <2>0, <2>1, <2>2, <3>3 DEF AppsTypes
    <3>5. FlowsOK'
      <4>1. \A e \in Deploys : /\ deploy'[e].at \in {"preparing", "deploying"} => deploy'[e].home \in Boxes
                               /\ deploy'[e].to # "none" => deploy'[e].at = "deploying"
        BY <2>1, <3>2 DEF AppsInv, FlowsOK
      <4> QED BY <2>0, <3>3, <4>1 DEF AppsInv, FlowsOK, Whole
    <3>6. ContainersUp'
      <4>1. \A e \in Deploys : deploy'[e].at = "deploying" => deploy'[e] = deploy[e]
        BY <2>1, <3>2
      <4> QED BY <2>0, <4>1 DEF AppsInv, ContainersUp
    <3>7. PortsKnown'
      <4>1. \A e \in Deploys : deploy'[e].at = "deploying" => deploy'[e] = deploy[e]
        BY <2>1, <3>2
      <4> QED BY <2>0, <4>1 DEF AppsInv, PortsKnown
    <3>8. DoneOf(deploy[d]) = Services
      BY <2>0, NodeOfType DEF DoneOf
    <3>9. RemovalAlone'
      <4> SUFFICES ASSUME "removal" \notin crossed PROVE RemovalAlone'
        BY <2>0 DEF RemovalAlone
      <4>1. removal.at = "idle"
        BY <1>a, <2>0
      <4>2. \A s \in Routed : s \in running[NodeOf(s, deploy[d].home)]
        BY <2>0, <2>4, <3>8 DEF AppsInv, ContainersUp
      <4> QED BY <2>0, <3>1, <4>1, <4>2 DEF RemovalAlone
    <3>10. RoutedServedApart'
      <4> SUFFICES ASSUME "restart" \notin crossed PROVE RoutedServedApart'
        BY <2>0 DEF RoutedServedApart
      <4>2. \A s \in Routed : s \in registry[NodeOf(s, deploy[d].home)]
        BY <2>0, <2>4, <3>8 DEF AppsInv, PortsKnown
      <4> QED BY <2>0, <3>1, <4>2 DEF RoutedServedApart
    <3> QED BY <3>4, <3>5, <3>6, <3>7, <3>9, <3>10 DEF AppsInv
  <2> QED BY <2>3, <2>4
<1> QED BY <1>1, <1>2, <1>3, <1>4, <1>5, <1>6, <1>7 DEF DeployStep

(* Every step of a failover keeps the invariant.                               *)
LEMMA FailoverKeeps ==
  ASSUME AppsInv, NEW i \in Losses, FailoverStep(i)
  PROVE  AppsInv'
<1> USE AppsAssumption
<1>t. AppsTypes /\ failover[i] \in FailoverRecords
  BY DEF AppsInv, AppsTypes
<1>n. /\ NoFailover \in FailoverRecords /\ NoFailover.at = "idle" /\ NoFailover.to = "none"
      /\ NoFailover.group = NoApp
  BY NothingRecords DEF NoFailover
<1>a. failover[i].at = "moving" => (removal.at # "idle" => "removal" \in crossed)
  BY DEF AppsInv, RemovalAlone, Changing
<1>f. ASSUME NEW f \in FailoverRecords, failover' = [failover EXCEPT ![i] = f],
             UNCHANGED <<online, app, route, deploy, removal, losses, running, registry>>,
             crossed \subseteq crossed',
             removal.at # "idle" /\ f.at = "moving" => "removal" \in crossed',
             Whole(f.group), f.at # "armed", f.to = "none" \/ (f.at = "moving" /\ ~f.ran)
      PROVE  AppsInv'
  <2>1. running' \in [Boxes -> SUBSET Services] /\ registry' \in [Boxes -> SUBSET Routed]
    BY <1>f, <1>t DEF AppsTypes
  <2>2. \A n \in Boxes : running[n] \subseteq running'[n] /\ registry[n] \subseteq registry'[n]
    BY <1>f
  <2>3. f.to # "none" => f.at = "moving" /\ ~f.ran
    BY <1>f
  <2> QED BY <1>f, <2>1, <2>2, <2>3, FailoverMoves
<1>1. CASE failoverNode(i)
  <2> DEFINE n == failover[i].lost
             f == IF n \notin online /\ Stranded(n) # {} /\ online # {}
                    THEN [failover[i] EXCEPT !.at = "moving", !.healthy = online, !.todo = Parts(n),
                                             !.group = IF app.node = n THEN app ELSE NoApp]
                    ELSE NoFailover
  <2>0. UNCHANGED <<online, app, route, deploy, removal, losses, running, registry>>
    BY <1>1 DEF failoverNode
  <2>1. failover' = [failover EXCEPT ![i] = f]
    BY <1>1 DEF failoverNode
  <2>2. failover[i].at = "armed" /\ failover[i].to = "none"
    BY <1>1 DEF failoverNode, AppsInv, FlowsOK
  <2>3. Parts(n) \in SUBSET SUBSET Services
    BY DEF Parts, Stranded
  <2>4. (IF app.node = n THEN app ELSE NoApp) \in AppRecords /\ Whole(IF app.node = n THEN app ELSE NoApp)
    BY <1>t, NothingRecords DEF AppsInv, AppsTypes, FlowsOK, Whole
  <2>5. /\ f \in FailoverRecords /\ f.at \in {"moving", "idle"} /\ f.to = "none" /\ Whole(f.group)
    <3>1. CASE f = NoFailover
      BY <1>n, <3>1 DEF Whole
    <3>2. CASE f # NoFailover
      <4>0. f = [failover[i] EXCEPT !.at = "moving", !.healthy = online, !.todo = Parts(n),
                                    !.group = IF app.node = n THEN app ELSE NoApp]
        BY <3>2
      <4>1. PICK g \in AppRecords : g = (IF app.node = n THEN app ELSE NoApp) /\ Whole(g)
        BY <2>4
      <4>2. PICK p \in SUBSET SUBSET Services : p = Parts(n)
        BY <2>3
      <4>3. f = [failover[i] EXCEPT !.at = "moving", !.healthy = online, !.todo = p, !.group = g]
        BY <4>0, <4>1, <4>2
      <4>4. online \in SUBSET Boxes
        BY <1>t DEF AppsTypes
      <4> HIDE DEF f
      <4>5. f \in FailoverRecords
        BY <1>t, <4>3, <4>4 DEF FailoverRecords
      <4>6. f.at = "moving" /\ f.to = failover[i].to /\ f.group = g
        BY <1>t, <4>3 DEF FailoverRecords
      <4> QED BY <2>2, <4>1, <4>5, <4>6
    <3> QED BY <3>1, <3>2
  <2>6. crossed \subseteq crossed' /\ (removal.at # "idle" /\ f.at = "moving" => "removal" \in crossed')
    BY <1>1, <1>n DEF failoverNode
  <2> HIDE DEF f
  <2> QED BY <1>f, <2>0, <2>1, <2>5, <2>6
<1>2. ASSUME NEW part \in SUBSET Services, NEW to \in Boxes, moveTo(i, part, to) PROVE AppsInv'
  <2> DEFINE f == IF to \in online
                    THEN [failover[i] EXCEPT !.to = to, !.ran = FALSE, !.svcs = part, !.todo = @ \ {part}]
                    ELSE [failover[i] EXCEPT !.todo = @ \ {part}]
  <2>0. /\ UNCHANGED <<online, app, route, deploy, removal, losses, running, registry, crossed>>
        /\ failover[i].at = "moving" /\ failover[i].to = "none" /\ Whole(failover[i].group)
    BY <1>2 DEF moveTo, AppsInv, FlowsOK
  <2>1. failover' = [failover EXCEPT ![i] = f]
    BY <1>2 DEF moveTo
  <2>2. /\ f \in FailoverRecords /\ f.at = "moving" /\ f.group = failover[i].group
        /\ f.to = "none" \/ ~f.ran
    <3>1. CASE to \in online
      BY <1>t, <2>0, <3>1 DEF FailoverRecords
    <3>2. CASE to \notin online
      BY <1>t, <2>0, <3>2 DEF FailoverRecords
    <3> QED BY <3>1, <3>2
  <2> HIDE DEF f
  <2> QED BY <1>a, <1>f, <2>0, <2>1, <2>2
<1>3. CASE runMove(i)
  <2> DEFINE m == failover[i].to
             svcs == failover[i].svcs
             f == [failover[i] EXCEPT !.ran = TRUE]
  <2>0. UNCHANGED <<online, app, route, deploy, removal, losses, crossed>>
    BY <1>3 DEF runMove
  <2>1. m \in Boxes /\ svcs \subseteq Services /\ failover[i].at = "moving" /\ Whole(failover[i].group)
    BY <1>3, <1>t DEF runMove, AppsInv, FlowsOK, FailoverRecords
  <2>2. /\ running' = [running EXCEPT ![m] = @ \cup svcs]
        /\ registry' = [registry EXCEPT ![m] = @ \cup (svcs \cap Routed)]
    BY <1>3 DEF runMove
  <2>3. /\ f \in FailoverRecords /\ f.at = "moving" /\ f.to = m /\ f.svcs = svcs
        /\ f.group = failover[i].group
    BY <1>t, <2>1 DEF FailoverRecords
  <2>4. failover' = [failover EXCEPT ![i] = f]
    BY <1>t, <1>3 DEF runMove, AppsTypes, FailoverRecords
  <2>5. /\ running' \in [Boxes -> SUBSET Services] /\ registry' \in [Boxes -> SUBSET Routed]
        /\ \A n \in Boxes : running[n] \subseteq running'[n] /\ registry[n] \subseteq registry'[n]
        /\ svcs \subseteq running'[m] /\ svcs \cap Routed \subseteq registry'[m]
    BY <1>t, <2>1, <2>2 DEF AppsTypes
  <2> HIDE DEF f, m, svcs
  <2> QED BY <1>a, <2>0, <2>1, <2>3, <2>4, <2>5, FailoverMoves
<1>4. CASE answerMove(i)
  <2> DEFINE f == [failover[i] EXCEPT !.to = "none"]
  <2>0. /\ UNCHANGED <<online, deploy, removal, losses, running, registry, crossed>>
        /\ failover[i].to \in Boxes /\ failover[i].at = "moving" /\ Whole(failover[i].group)
    BY <1>t, <1>4 DEF answerMove, AppsInv, FlowsOK, FailoverRecords
  <2>1. /\ f \in FailoverRecords /\ f.at = "moving" /\ f.to = "none" /\ f.group = failover[i].group
    BY <1>t, <2>0 DEF FailoverRecords
  <2>2. failover' = [failover EXCEPT ![i] = f]
    BY <1>t, <1>4 DEF answerMove, AppsTypes, FailoverRecords
  <2> HIDE DEF f
  <2>3. CASE UNCHANGED <<app, route>>
    BY <1>a, <1>f, <2>0, <2>1, <2>2, <2>3
  <2>4. CASE failover[i].ran /\ Moved(failover[i])
    <3>0. failover'[i] = f /\ \A j \in Losses : j # i => failover'[j] = failover[j]
      BY <1>t, <2>2 DEF AppsTypes
    <3>1. route' = [s \in Routed |-> IF s \in failover[i].svcs THEN failover[i].to ELSE route[s]]
      BY <2>4 DEF Moved
    <3>2. app' \in AppRecords /\ Whole(app')
      <4>1. CASE failover[i].group = NoApp
        BY <1>t, <2>4, <4>1 DEF Moved, AppsInv, AppsTypes, FlowsOK
      <4>2. CASE failover[i].group # NoApp
        <5>1. app' = [failover[i].group EXCEPT !.node = failover[i].to] /\ failover[i].group \in AppRecords
          BY <1>t, <2>4, <4>2 DEF Moved, FailoverRecords
        <5>2. app'.at = failover[i].group.at /\ app' \in AppRecords
          BY <2>0, <5>1 DEF AppRecords
        <5>3. \A s \in Services : failover[i].group.at[s] # "none"
          BY <2>0, <4>2 DEF Whole
        <5> QED BY <5>2, <5>3 DEF Whole
      <4> QED BY <4>1, <4>2
    <3>3. AppsTypes'
      BY <1>t, <2>0, <2>1, <2>2, <3>1, <3>2 DEF AppsTypes
    <3>4. FlowsOK'
      <4>1. \A j \in Losses : /\ Whole(failover'[j].group)
                              /\ failover'[j].to # "none" => failover'[j].at = "moving"
                              /\ failover'[j].at = "armed" => failover'[j].lost \in Boxes
        BY <2>0, <2>1, <3>0 DEF AppsInv, FlowsOK
      <4> QED BY <2>0, <3>2, <4>1 DEF AppsInv, FlowsOK, Whole
    <3>5. \A j \in Losses : failover'[j].to # "none" => failover'[j] = failover[j]
      BY <2>1, <3>0
    <3>6. ContainersUp' /\ PortsKnown'
      BY <2>0, <3>5 DEF AppsInv, ContainersUp, PortsKnown
    <3>7. RemovalAlone'
      <4> SUFFICES ASSUME "removal" \notin crossed PROVE RemovalAlone'
        BY <2>0 DEF RemovalAlone
      <4>1. removal.at = "idle"
        BY <1>a, <2>0
      <4>2. failover[i].svcs \subseteq running[failover[i].to]
        BY <2>0, <2>4 DEF AppsInv, ContainersUp
      <4>3. \A s \in Routed : route[s] # "none" => s \in running[route[s]]
        BY <4>1 DEF AppsInv, RemovalAlone
      <4> QED BY <2>0, <3>1, <4>1, <4>2, <4>3 DEF RemovalAlone
    <3>8. RoutedServedApart'
      <4> SUFFICES ASSUME "restart" \notin crossed PROVE RoutedServedApart'
        BY <2>0 DEF RoutedServedApart
      <4>2. failover[i].svcs \cap Routed \subseteq registry[failover[i].to]
        BY <2>0, <2>4 DEF AppsInv, PortsKnown
      <4> QED BY <2>0, <3>1, <4>2 DEF AppsInv, RoutedServedApart
    <3> QED BY <3>3, <3>4, <3>6, <3>7, <3>8 DEF AppsInv
  <2> QED BY <1>4, <2>3, <2>4 DEF answerMove
<1>5. CASE endFailover(i)
  <2>1. /\ failover' = [failover EXCEPT ![i] = NoFailover]
        /\ UNCHANGED <<online, app, route, deploy, removal, losses, running, registry, crossed>>
    BY <1>5 DEF endFailover
  <2> QED BY <1>f, <1>n, <2>1 DEF Whole
<1> QED BY <1>1, <1>2, <1>3, <1>4, <1>5 DEF FailoverStep

(* Every step of a removal keeps the invariant.                                *)
LEMMA RemovalKeeps ==
  ASSUME AppsInv, removeApp \/ RemovalStep
  PROVE  AppsInv'
<1> USE AppsAssumption
<1>t. AppsTypes
  BY DEF AppsInv
<1>1. CASE removeApp
  <2>0. /\ UNCHANGED <<running, registry, deploy, online, app, route, failover, losses>>
        /\ removal.at = "idle" /\ crossed \subseteq crossed' /\ crossed' \subseteq crossed \cup {"removal"}
        /\ Changing => "removal" \in crossed'
    BY <1>1 DEF removeApp, Unmoved
  <2>1. removal' \in RemovalRecords
    <3>1. CASE app # NoApp
      <4>1. removal' = [NoRemoval EXCEPT !.at = "removing", !.group = app,
                                         !.todo = {app.at[s] : s \in Services}]
        BY <1>1, <3>1 DEF removeApp
      <4>2. app \in AppRecords /\ {app.at[s] : s \in Services} \subseteq Boxes \cup {"none"}
        BY <1>t DEF AppsTypes, AppRecords
      <4> QED BY <4>1, <4>2, NothingRecords DEF RemovalRecords
    <3>2. CASE app = NoApp
      <4>1. PICK s \in Routed : removal' = [NoRemoval EXCEPT !.at = "removing", !.todo = {route[s]},
                                  !.group = [NoApp EXCEPT !.at = [NoApp.at EXCEPT ![s] = route[s]]]]
        BY <1>1, <3>2 DEF removeApp
      <4>2. NoApp.at \in [Services -> Boxes \cup {"none"}] /\ NoApp.node = "none"
        BY DEF NoApp
      <4>3. [NoApp.at EXCEPT ![s] = route[s]] \in [Services -> Boxes \cup {"none"}]
        BY <1>t, <4>2 DEF AppsTypes
      <4>4. [NoApp EXCEPT !.at = [NoApp.at EXCEPT ![s] = route[s]]] \in AppRecords
        BY <4>3, NothingRecords DEF AppRecords
      <4>5. {route[s]} \subseteq Boxes \cup {"none"}
        BY <1>t DEF AppsTypes
      <4>6. PICK g \in AppRecords, todo \in SUBSET (Boxes \cup {"none"}) :
              removal' = [NoRemoval EXCEPT !.at = "removing", !.todo = todo, !.group = g]
        BY <4>1, <4>4, <4>5, Zenon
      <4> QED BY <4>6, NothingRecords DEF RemovalRecords
    <3> QED BY <3>1, <3>2
  <2>2. AppsTypes' /\ FlowsOK'
    BY <1>t, <2>0, <2>1 DEF AppsInv, AppsTypes, FlowsOK, Whole
  <2>3. ContainersUp' /\ PortsKnown'
    BY <2>0 DEF AppsInv, ContainersUp, PortsKnown
  <2>4. RemovalAlone'
    <3>1. Changing' <=> Changing
      BY <2>0 DEF Changing
    <3> QED BY <2>0, <3>1 DEF AppsInv, RemovalAlone
  <2>5. RoutedServedApart'
    BY <2>0 DEF AppsInv, RoutedServedApart
  <2> QED BY <2>2, <2>3, <2>4, <2>5 DEF AppsInv
<1>2. ASSUME NEW n \in Boxes, removeOn(n) PROVE AppsInv'
  <2>0. /\ UNCHANGED <<registry, deploy, online, app, route, failover, losses, crossed>>
        /\ removal.at = "removing" /\ removal' = [removal EXCEPT !.todo = @ \ {n}]
    BY <1>2 DEF removeOn, Unmoved
  <2>1. removal' \in RemovalRecords /\ removal'.at = "removing" /\ removal'.group = removal.group
    BY <1>t, <2>0 DEF AppsTypes, RemovalRecords
  <2>2. /\ running' \in [Boxes -> SUBSET Services]
        /\ \A m \in Boxes : \A s \in running[m] : s \in running'[m] \/ (m = n /\ removal.group.at[s] = n)
    <3>1. CASE running' = running
      BY <1>t, <3>1 DEF AppsTypes
    <3>2. CASE running' # running
      <4>1. PICK gone \in SUBSET (RemovedFrom(n) \cap running[n]) : running' = [running EXCEPT ![n] = @ \ gone]
        BY <1>2, <3>2 DEF removeOn
      <4> QED BY <1>t, <4>1 DEF AppsTypes, RemovedFrom
    <3> QED BY <3>1, <3>2
  <2>3. AppsTypes' /\ FlowsOK'
    BY <1>t, <2>0, <2>1, <2>2 DEF AppsInv, AppsTypes, FlowsOK, Whole
  <2>4. "removal" \notin crossed => ~Changing
    BY <2>0 DEF AppsInv, RemovalAlone
  <2>5. ContainersUp'
    <3> SUFFICES ASSUME "removal" \notin crossed PROVE ContainersUp'
      BY <2>0 DEF ContainersUp
    <3>1. \A d \in Deploys : deploy[d].at = "idle"
      BY <2>4 DEF Changing
    <3>2. \A j \in Losses : failover[j].to = "none"
      BY <2>4 DEF Changing, AppsInv, FlowsOK
    <3> QED BY <2>0, <3>1, <3>2 DEF ContainersUp
  <2>6. PortsKnown' /\ RoutedServedApart'
    BY <2>0 DEF AppsInv, PortsKnown, RoutedServedApart
  <2>7. RemovalAlone'
    <3> SUFFICES ASSUME "removal" \notin crossed PROVE RemovalAlone'
      BY <2>0 DEF RemovalAlone
    <3>1. ~Changing'
      BY <2>0, <2>4 DEF Changing
    <3>2. \A s \in Routed : route[s] # "none" => s \in running'[route[s]] \/ removal.group.at[s] # "none"
      BY <1>t, <2>0, <2>2 DEF AppsInv, RemovalAlone, AppsTypes
    <3> QED BY <2>0, <2>1, <3>1, <3>2 DEF RemovalAlone
  <2> QED BY <2>3, <2>5, <2>6, <2>7 DEF AppsInv
<1>3. CASE forget
  <2>0. /\ UNCHANGED <<online, running, registry, deploy, failover, losses, crossed>>
        /\ route' = [s \in Routed |-> IF removal.group.at[s] # "none" THEN "none" ELSE route[s]]
        /\ app' = NoApp /\ removal' = NoRemoval /\ removal.at = "removing"
    BY <1>3 DEF forget
  <2>1. AppsTypes' /\ FlowsOK'
    BY <1>t, <2>0, NothingRecords DEF AppsInv, AppsTypes, FlowsOK, Whole
  <2>2. ContainersUp' /\ PortsKnown'
    BY <2>0 DEF AppsInv, ContainersUp, PortsKnown
  <2>3. RemovalAlone'
    BY <2>0 DEF AppsInv, RemovalAlone, NoRemoval
  <2>4. RoutedServedApart'
    BY <1>t, <2>0 DEF AppsInv, RoutedServedApart, AppsTypes
  <2> QED BY <2>1, <2>2, <2>3, <2>4 DEF AppsInv
<1> QED BY <1>1, <1>2, <1>3 DEF RemovalStep

(* The invariant of the Apps is inductive.                                     *)
LEMMA NextAppsInv == AppsInv /\ [AppsNext]_appsVars => AppsInv'
<1> SUFFICES ASSUME AppsInv, [AppsNext]_appsVars PROVE AppsInv'
  OBVIOUS
<1> USE AppsAssumption
<1>t. AppsTypes
  BY DEF AppsInv
<1>1. ASSUME NEW n \in Boxes, hello(n) PROVE AppsInv'
  <2>0. /\ UNCHANGED <<running, app, route, deploy, removal, failover, losses, crossed>>
        /\ online' = online \cup {n}
        /\ registry' = [registry EXCEPT ![n] = @ \cup rehydrated(n)]
    BY <1>1 DEF hello
  <2>1. /\ registry' \in [Boxes -> SUBSET Routed]
        /\ \A m \in Boxes : registry[m] \subseteq registry'[m]
        /\ \A s \in Routed : route[s] = n => s \in registry'[n]
    BY <1>t, <2>0 DEF AppsTypes, rehydrated
  <2>2. AppsTypes' /\ FlowsOK'
    BY <1>t, <2>0, <2>1 DEF AppsInv, AppsTypes, FlowsOK, Whole
  <2>3. ContainersUp' /\ RemovalAlone'
    BY <2>0 DEF AppsInv, ContainersUp, RemovalAlone, Changing
  <2>4. PortsKnown'
    <3> SUFFICES ASSUME "restart" \notin crossed PROVE PortsKnown'
      BY <2>0 DEF PortsKnown
    <3>1. ASSUME NEW d \in Deploys, deploy[d].at = "deploying", deploy[d].ok,
                 NEW s \in DoneOf(deploy[d]) \cap Routed
          PROVE  s \in registry'[NodeOf(s, deploy[d].home)]
      <4>1. s \in registry[NodeOf(s, deploy[d].home)] /\ deploy[d].home \in Boxes /\ s \in Services
        BY <3>1 DEF AppsInv, PortsKnown, FlowsOK, DoneOf
      <4> QED BY <2>1, <4>1, NodeOfType
    <3>2. ASSUME NEW j \in Losses, failover[j].to # "none", failover[j].ran
          PROVE  failover[j].svcs \cap Routed \subseteq registry'[failover[j].to]
      <4>1. failover[j].svcs \cap Routed \subseteq registry[failover[j].to] /\ failover[j].to \in Boxes
        BY <1>t, <3>2 DEF AppsInv, PortsKnown, AppsTypes, FailoverRecords
      <4> QED BY <2>1, <4>1
    <3> QED BY <2>0, <3>1, <3>2 DEF PortsKnown
  <2>5. RoutedServedApart'
    BY <1>t, <2>0, <2>1 DEF AppsInv, RoutedServedApart, AppsTypes
  <2> QED BY <2>2, <2>3, <2>4, <2>5 DEF AppsInv
<1>2. ASSUME NEW n \in Boxes, NEW restarted \in BOOLEAN,
             removeSocket(n, restarted) \/ replaceSocket(n, restarted)
      PROVE  AppsInv'
  <2> DEFINE g == [NoFailover EXCEPT !.at = "armed", !.lost = n]
  <2>1. /\ g \in FailoverRecords /\ g.to = "none" /\ g.at = "armed" /\ g.lost = n /\ g.group = NoApp
    BY NothingRecords DEF NoFailover, FailoverRecords
  <2>2. losses + 1 \in Losses /\ rejectPending(n, restarted)
    BY <1>2, <1>t DEF removeSocket, replaceSocket, rejectPending, Losses, AppsTypes
  <2>3. failover' = CutMoves(n) \/ failover' = [CutMoves(n) EXCEPT ![losses + 1] = g]
    BY <1>2 DEF removeSocket, replaceSocket
  <2>4. UNCHANGED <<running, app, route, removal>>
    BY <1>2 DEF removeSocket, replaceSocket
  <2>5. \/ online' = online \ {n} /\ registry' = [registry EXCEPT ![n] = Kept(n, restarted)]
        \/ online' = online /\ registry' = [registry EXCEPT ![n] = Kept(n, restarted) \cup rehydrated(n)]
    BY <1>2 DEF removeSocket, replaceSocket
  <2>6. Whole(g.group)
    BY <2>1 DEF Whole
  <2> HIDE DEF g
  <2>7. PICK i \in Losses : i = losses + 1
    BY <2>2
  <2>8. failover' = CutMoves(n) \/ failover' = [CutMoves(n) EXCEPT ![i] = g]
    BY <2>3, <2>7
  <2> QED BY <2>1, <2>2, <2>4, <2>5, <2>6, <2>8, CutKeeps
<1>3. ASSUME NEW d \in Deploys, NEW home \in Boxes, deployApp(d, home) PROVE AppsInv'
  <2> DEFINE f == [NoDeploy EXCEPT !.at = "deploying", !.home = home, !.todo = Placed(home)]
  <2>0. /\ UNCHANGED <<online, app, route, failover, removal, losses, running, registry>>
        /\ deploy' = [deploy EXCEPT ![d] = f]
        /\ crossed' = IF removal.at # "idle" THEN crossed \cup {"removal"} ELSE crossed
    BY <1>3 DEF deployApp, Unmoved
  <2>1. Placed(home) \in SUBSET Boxes
    BY NodeOfType DEF Placed
  <2>2. /\ f \in DeployRecords /\ f.at = "deploying" /\ f.home = home /\ f.to = "none"
        /\ f.todo = Placed(home)
    BY <2>1 DEF NoDeploy, DeployRecords
  <2> HIDE DEF f
  <2>3. DoneOf(f) = {}
    BY <2>2 DEF DoneOf, Placed
  <2>4. running' \in [Boxes -> SUBSET Services] /\ registry' \in [Boxes -> SUBSET Routed]
    BY <1>t, <2>0 DEF AppsTypes
  <2> QED BY <2>0, <2>2, <2>3, <2>4, DeployMoves
<1>4. CASE restart
  <2>0. /\ UNCHANGED <<running, registry, app, route, losses>>
        /\ online' = {} /\ deploy' = [d \in Deploys |-> NoDeploy] /\ removal' = NoRemoval
        /\ failover' = [i \in Losses |-> NoFailover]
        /\ crossed' = IF removal.at # "idle" THEN crossed \cup {"removal"} ELSE crossed
    BY <1>4 DEF restart
  <2>1. AppsTypes'
    BY <1>t, <2>0, NothingRecords DEF AppsTypes
  <2>2. FlowsOK'
    BY <2>0 DEF AppsInv, FlowsOK, Whole, NoDeploy, NoFailover
  <2>3. ContainersUp' /\ PortsKnown'
    BY <2>0 DEF ContainersUp, PortsKnown, NoDeploy, NoFailover
  <2>4. RemovalAlone' /\ RoutedServedApart'
    BY <2>0 DEF AppsInv, RemovalAlone, RoutedServedApart, NoRemoval
  <2> QED BY <2>1, <2>2, <2>3, <2>4 DEF AppsInv
<1>5. CASE UNCHANGED appsVars
  <2> USE <1>5 DEF appsVars
  <2>1. AppsTypes' /\ FlowsOK'
    BY DEF AppsInv, AppsTypes, FlowsOK, Whole
  <2>2. ContainersUp' /\ PortsKnown'
    BY DEF AppsInv, ContainersUp, PortsKnown
  <2>3. RemovalAlone' /\ RoutedServedApart'
    BY DEF AppsInv, RemovalAlone, RoutedServedApart, Changing
  <2> QED BY <2>1, <2>2, <2>3 DEF AppsInv
<1> QED BY <1>1, <1>2, <1>3, <1>4, <1>5, DeployKeeps, FailoverKeeps, RemovalKeeps DEF AppsNext

(* For any Nodes, services, pins and deploys, and any interleaving of deploys, *)
(* failovers, lost connections and restarts, a route leads to a container that *)
(* runs on a Node that knows its port, but for what a removal crossed or an    *)
(* agent that restarted during a deploy leaves (appdeploy.ts, failover.ts).    *)
THEOREM RoutesStayLive == AppsSpec => []RoutesLive
<1>1. AppsInv => RoutesLive
  BY DEF AppsInv, RemovalAlone, RoutesLive, RoutedRunsApart
<1> QED BY <1>1, InitAppsInv, NextAppsInv, PTL DEF AppsSpec
=============================================================================
