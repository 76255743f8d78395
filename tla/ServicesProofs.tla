---------------------------- MODULE ServicesProofs ----------------------------
(* Proofs about the components MCServices puts together.                       *)
EXTENDS MCServices, FiniteSetTheorems, TLAPS

-----------------------------------------------------------------------------
(* MeshState. A challenge is of the present reset, and so is the proof behind  *)
(* an address; the rest of GrantsSound follows from one key per Node.          *)

NodeRow == [creds : SUBSET Creds, id : Keys \cup {Nil}, addr : Keys \cup {Nil}, gateway : BOOLEAN]

MeshTyped ==
  /\ node \in [MeshNodes -> NodeRow]
  /\ challenge \in [MeshNodes -> [cred : Creds, key : Keys, after : Nat] \cup {Nil}]
  /\ resets \in [MeshNodes -> Nat] /\ basis \in [MeshNodes -> Nat]
  /\ DOMAIN routeRow = AllLabels /\ routeRow = [l \in AllLabels |-> routeRow[l]]
  /\ \A l \in AllLabels : routeRow[l] # Nil => routeRow[l].at \in MeshNodes

ProofsFresh ==
  \A n \in MeshNodes :
    /\ challenge[n] # Nil => challenge[n].after = resets[n]
    /\ node[n].addr # Nil => basis[n] = resets[n]

OneKeyEach == \A n, m \in MeshNodes : n # m /\ node[n].id # Nil => node[n].id # node[m].id

MeshInv == MeshTyped /\ ProofsFresh /\ OneKeyEach

(* The two ends of a grant are computed from the same rows.                    *)
LEMMA GrantsMeet ==
  ASSUME MeshInv
  PROVE  GrantsMatch
<1> SUFFICES ASSUME NEW g \in MeshNodes, NEW n \in MeshNodes, NEW l \in AllLabels,
                    n # g, Grantable(g), Grantable(n), node[g].gateway
             PROVE  (l \in DOMAIN IngressLinks(g) /\ IngressLinks(g)[l] = node[n].addr)
                      <=> (l \in DOMAIN Exposures(n) /\ node[g].addr \in Exposures(n)[l].peers)
  BY DEF GrantsMatch
<1>0. PICK a : a = routeRow[l].at
  OBVIOUS
<1>1. (l \in DOMAIN IngressLinks(g) /\ IngressLinks(g)[l] = node[n].addr)
        <=> ServesPlacement(l) /\ Grantable(a) /\ a # g /\ node[a].addr = node[n].addr
  BY <1>0 DEF IngressLinks
<1>2. node[g].addr \in AllowedPeers(n)
  BY DEF AllowedPeers, Gateways
<1>3. (l \in DOMAIN Exposures(n) /\ node[g].addr \in Exposures(n)[l].peers) <=> ServesPlacement(l) /\ a = n
  BY <1>0, <1>2 DEF Exposures
<1>4. ServesPlacement(l) /\ Grantable(a) /\ node[a].addr = node[n].addr => a = n
  BY <1>0 DEF ServesPlacement, Grantable, MeshInv, MeshTyped, OneKeyEach
<1> QED
  BY <1>1, <1>3, <1>4

LEMMA MeshInitInv ==
  ASSUME MeshInit
  PROVE  MeshInv
<1>1. PICK gates \in SUBSET MeshNodes :
        /\ node = [n \in MeshNodes |-> [creds |-> {CHOOSE c \in Creds : TRUE}, id |-> KeyAtStart[n],
                                        addr |-> KeyAtStart[n], gateway |-> n \in gates]]
        /\ challenge = [n \in MeshNodes |-> Nil] /\ resets = [n \in MeshNodes |-> 0]
        /\ basis = [n \in MeshNodes |-> 0] /\ routeRow = [l \in AllLabels |-> Nil]
  BY DEF MeshInit
<1>2. (CHOOSE c \in Creds : TRUE) \in Creds
  BY MeshAssumption
<1>3. \A n \in MeshNodes : KeyAtStart[n] \in Keys
  BY MeshAssumption
<1>4. MeshTyped
  BY <1>1, <1>2, <1>3 DEF MeshTyped, NodeRow
<1>5. ProofsFresh
  BY <1>1 DEF ProofsFresh
<1>6. \A n \in MeshNodes : node[n].id = KeyAtStart[n]
  BY <1>1
<1>7. OneKeyEach
  BY <1>6, MeshAssumption DEF OneKeyEach
<1> QED
  BY <1>4, <1>5, <1>7 DEF MeshInv

(* The rows of a Node change: credentials, endpoint, role.                     *)
LEMMA NodeRowsKeepMesh ==
  ASSUME MeshInv, NEW n \in MeshNodes, NEW c \in Creds,
         EnrollNode(n, c) \/ RevokeOne(n, c) \/ SetPlacementRoles(n)
  PROVE  MeshInv'
<1>0. UNCHANGED <<challenge, resets, basis, routeRow>> /\ node \in [MeshNodes -> NodeRow] /\ node[n] \in NodeRow
  BY DEF EnrollNode, RevokeOne, SetPlacementRoles, meshRows, MeshInv, MeshTyped
<1>1. \E row \in NodeRow : /\ node' = [node EXCEPT ![n] = row]
                           /\ row.id = node[n].id /\ row.addr = node[n].addr
  <2>1. CASE node' = [node EXCEPT ![n].creds = @ \cup {c}]
    <3>1. PICK row : row = [node[n] EXCEPT !.creds = @ \cup {c}]
      OBVIOUS
    <3>2. row \in NodeRow /\ row.id = node[n].id /\ row.addr = node[n].addr
      BY <1>0, <3>1 DEF NodeRow
    <3> QED
      BY <2>1, <3>1, <3>2
  <2>2. CASE node' = [node EXCEPT ![n].creds = @ \ {c}]
    <3>1. PICK row : row = [node[n] EXCEPT !.creds = @ \ {c}]
      OBVIOUS
    <3>2. row \in NodeRow /\ row.id = node[n].id /\ row.addr = node[n].addr
      BY <1>0, <3>1 DEF NodeRow
    <3> QED
      BY <2>2, <3>1, <3>2
  <2>3. CASE node' = [node EXCEPT ![n].gateway = ~@]
    <3>1. PICK row : row = [node[n] EXCEPT !.gateway = ~@]
      OBVIOUS
    <3>2. row \in NodeRow /\ row.id = node[n].id /\ row.addr = node[n].addr
      BY <1>0, <3>1 DEF NodeRow
    <3> QED
      BY <2>3, <3>1, <3>2
  <2> QED
    BY <2>1, <2>2, <2>3 DEF EnrollNode, RevokeOne, SetPlacementRoles
<1>2. node' \in [MeshNodes -> NodeRow]
  BY <1>0, <1>1
<1>3. \A m \in MeshNodes : node'[m].id = node[m].id /\ node'[m].addr = node[m].addr
  BY <1>0, <1>1
<1>4. MeshTyped'
  BY <1>0, <1>2 DEF MeshInv, MeshTyped
<1>5. ProofsFresh'
  BY <1>0, <1>3 DEF MeshInv, ProofsFresh
<1>6. OneKeyEach'
  BY <1>3 DEF MeshInv, OneKeyEach
<1> QED
  BY <1>4, <1>5, <1>6 DEF MeshInv

LEMMA ResetKeepsMesh ==
  ASSUME MeshInv, NEW n \in MeshNodes, NEW creds \in SUBSET Creds, ClearEndpoint(n, creds),
         UNCHANGED <<basis, routeRow>>
  PROVE  MeshInv'
<1>1. /\ node' = [node EXCEPT ![n].creds = creds, ![n].id = Nil, ![n].addr = Nil]
      /\ resets' = [resets EXCEPT ![n] = @ + 1] /\ challenge' = [challenge EXCEPT ![n] = Nil]
  BY DEF ClearEndpoint
<1>2. PICK row : row = [node[n] EXCEPT !.creds = creds, !.id = Nil, !.addr = Nil]
  OBVIOUS
<1>a. node \in [MeshNodes -> NodeRow] /\ node[n] \in NodeRow
  BY DEF MeshInv, MeshTyped
<1>b. row \in NodeRow /\ row.id = Nil /\ row.addr = Nil
  BY <1>2, <1>a DEF NodeRow
<1>c. node' = [node EXCEPT ![n] = row] /\ node' \in [MeshNodes -> NodeRow]
  BY <1>1, <1>2, <1>a, <1>b
<1>3. /\ \A m \in MeshNodes \ {n} : node'[m].id = node[m].id /\ node'[m].addr = node[m].addr
      /\ node'[n].id = Nil /\ node'[n].addr = Nil
  BY <1>a, <1>b, <1>c
<1>4. MeshTyped'
  BY <1>1, <1>c DEF MeshInv, MeshTyped
<1>5. ProofsFresh'
  BY <1>1, <1>3 DEF MeshInv, MeshTyped, ProofsFresh
<1>6. OneKeyEach'
  BY <1>3 DEF MeshInv, OneKeyEach
<1> QED
  BY <1>4, <1>5, <1>6 DEF MeshInv

LEMMA ChallengeKeepsMesh ==
  ASSUME MeshInv, NEW n \in MeshNodes, NEW c \in Creds, NEW k \in Keys, Challenge(n, c, k)
  PROVE  MeshInv'
<1>1. /\ challenge' = [challenge EXCEPT ![n] = [cred |-> c, key |-> k, after |-> resets[n]]]
      /\ UNCHANGED <<node, resets, basis, routeRow>>
  BY DEF Challenge, meshRows
<1>a. resets[n] \in Nat
  BY DEF MeshInv, MeshTyped
<1>b. PICK new : new = [cred |-> c, key |-> k, after |-> resets[n]]
  OBVIOUS
<1>2. new \in [cred : Creds, key : Keys, after : Nat] /\ new.after = resets[n]
  BY <1>a, <1>b
<1>c. challenge' = [challenge EXCEPT ![n] = new]
  BY <1>1, <1>b
<1>3. MeshTyped'
  BY <1>1, <1>2, <1>c DEF MeshInv, MeshTyped
<1>4. ProofsFresh'
  BY <1>1, <1>2, <1>c DEF MeshInv, MeshTyped, ProofsFresh
<1> QED
  BY <1>1, <1>3, <1>4 DEF MeshInv, OneKeyEach

(* A key is taken by a signed answer, or registered without one.               *)
LEMMA PublishKeepsMesh ==
  ASSUME MeshInv, NEW n \in MeshNodes, Publish(n)
  PROVE  MeshInv'
<1>1. PICK ch : ch = challenge[n]
  OBVIOUS
<1>2. ch \in [cred : Creds, key : Keys, after : Nat] /\ ch.after = resets[n]
  BY <1>1 DEF MeshInv, MeshTyped, ProofsFresh, Publish
<1>3. PICK k \in Keys : k = ch.key
  BY <1>2
<1>4. /\ node' = [node EXCEPT ![n].id = k, ![n].addr = k] /\ basis' = [basis EXCEPT ![n] = resets[n]]
      /\ challenge' = [challenge EXCEPT ![n] = Nil] /\ UNCHANGED <<resets, routeRow>>
      /\ \A m \in MeshNodes \ {n} : node[m].id # k
  BY <1>1, <1>2, <1>3 DEF Publish, AvailableStill, EndpointAvailable, meshRows
<1>a. node \in [MeshNodes -> NodeRow] /\ node[n] \in NodeRow
  BY DEF MeshInv, MeshTyped
<1>b. PICK row : row = [node[n] EXCEPT !.id = k, !.addr = k]
  OBVIOUS
<1>c. row \in NodeRow /\ row.id = k
  BY <1>a, <1>b DEF NodeRow
<1>5. node' = [node EXCEPT ![n] = row] /\ node' \in [MeshNodes -> NodeRow]
  BY <1>4, <1>a, <1>b, <1>c
<1>6. /\ \A m \in MeshNodes \ {n} : node'[m].id = node[m].id /\ node'[m].addr = node[m].addr
      /\ node'[n].id = k
  BY <1>5, <1>a, <1>c
<1>7. MeshTyped'
  BY <1>4, <1>5 DEF MeshInv, MeshTyped
<1>8. ProofsFresh'
  BY <1>4, <1>6 DEF MeshInv, MeshTyped, ProofsFresh
<1>d. \A m \in MeshNodes \ {n} : node[m].id # k
  BY <1>4
<1>9. OneKeyEach'
  BY <1>6, <1>d DEF MeshInv, OneKeyEach
<1> QED
  BY <1>7, <1>8, <1>9 DEF MeshInv

LEMMA RegisterKeepsMesh ==
  ASSUME MeshInv, NEW n \in MeshNodes, NEW k \in Keys, RegisterEndpoint(n, k)
  PROVE  MeshInv'
<1>1. /\ node' = [node EXCEPT ![n].id = k] /\ UNCHANGED <<challenge, resets, basis, routeRow>>
      /\ \A m \in MeshNodes \ {n} : node[m].id # k
  BY DEF RegisterEndpoint, EndpointAvailable, meshRows
<1>a. node \in [MeshNodes -> NodeRow] /\ node[n] \in NodeRow
  BY DEF MeshInv, MeshTyped
<1>b. PICK row : row = [node[n] EXCEPT !.id = k]
  OBVIOUS
<1>c. row \in NodeRow /\ row.id = k /\ row.addr = node[n].addr
  BY <1>a, <1>b DEF NodeRow
<1>2. node' = [node EXCEPT ![n] = row] /\ node' \in [MeshNodes -> NodeRow]
  BY <1>1, <1>a, <1>b, <1>c
<1>3. /\ \A m \in MeshNodes \ {n} : node'[m].id = node[m].id
      /\ \A m \in MeshNodes : node'[m].addr = node[m].addr
      /\ node'[n].id = k
  BY <1>2, <1>a, <1>c
<1>4. MeshTyped' /\ ProofsFresh'
  BY <1>1, <1>2, <1>3 DEF MeshInv, MeshTyped, ProofsFresh
<1>5. OneKeyEach'
  BY <1>1, <1>3 DEF MeshInv, OneKeyEach
<1> QED
  BY <1>4, <1>5 DEF MeshInv

(* The rows of Apps, routes, ports and links change.                           *)
LEMMA RowsKeepMesh ==
  ASSUME MeshInv, UNCHANGED nodeRows,
         \/ UNCHANGED routeRow
         \/ \E l \in AllLabels : routeRow' = [routeRow EXCEPT ![l] = Nil]
         \/ \E l \in AllLabels, n \in MeshNodes : \E p : routeRow' = [routeRow EXCEPT ![l] = [at |-> n, port |-> p]]
  PROVE  MeshInv'
<1>1. UNCHANGED <<node, challenge, resets, basis>>
  BY DEF nodeRows
<1>2. /\ DOMAIN routeRow' = AllLabels /\ routeRow' = [l \in AllLabels |-> routeRow'[l]]
      /\ \A l \in AllLabels : routeRow'[l] # Nil => routeRow'[l].at \in MeshNodes
  BY DEF MeshInv, MeshTyped
<1> QED
  BY <1>1, <1>2 DEF MeshInv, MeshTyped, ProofsFresh, OneKeyEach

LEMMA MeshStep ==
  ASSUME MeshInv, [MeshNext]_meshVars
  PROVE  MeshInv'
<1>1. CASE UNCHANGED meshVars
  BY <1>1, RowsKeepMesh DEF meshVars, meshRows
<1>2. ASSUME NEW n \in MeshNodes, NEW c \in Creds, RevokeLast(n, c)
      PROVE  MeshInv'
  BY <1>2, ResetKeepsMesh DEF RevokeLast, meshRows
<1>3. ASSUME NEW n \in MeshNodes, ResetNodeEndpoint(n)
      PROVE  MeshInv'
  <2>1. node[n].creds \in SUBSET Creds
    BY DEF MeshInv, MeshTyped, NodeRow
  <2> QED
    BY <1>3, <2>1, ResetKeepsMesh DEF ResetNodeEndpoint, meshRows
<1>4. ASSUME NEW n \in MeshNodes, ChallengeExpires(n)
      PROVE  MeshInv'
  <2>1. challenge' = [challenge EXCEPT ![n] = Nil] /\ UNCHANGED <<node, resets, basis, routeRow>>
    BY <1>4 DEF ChallengeExpires, meshRows
  <2> QED
    BY <2>1 DEF MeshInv, MeshTyped, ProofsFresh, OneKeyEach
<1>5. ASSUME NEW n \in MeshNodes, Poll(n)
      PROVE  MeshInv'
  BY <1>5, RowsKeepMesh DEF Poll, meshRows
<1>6. ASSUME NEW n \in MeshNodes, NEW a \in Labels, AllocatePort(n, a) \/ CommitRoute(n, a)
      PROVE  MeshInv'
  BY <1>6, RowsKeepMesh DEF AllocatePort, CommitRoute, AllLabels
<1>7. ASSUME NEW a \in Labels, RemoveApp(a)
      PROVE  MeshInv'
  BY <1>7, RowsKeepMesh DEF RemoveApp, AllLabels
<1>8. ASSUME NEW l \in AllLabels, NEW n \in MeshNodes, NEW p \in MeshPorts, ImportRoute(l, n, p)
      PROVE  MeshInv'
  BY <1>8, RowsKeepMesh DEF ImportRoute
<1>9. ASSUME NEW from \in MeshNodes, NEW to \in MeshNodes, NEW p \in MeshPorts, DeclareLink(from, to, p)
      PROVE  MeshInv'
  BY <1>9, RowsKeepMesh DEF DeclareLink
<1>10. ASSUME RemoveLink
       PROVE  MeshInv'
  BY <1>10, RowsKeepMesh DEF RemoveLink
<1>11. ASSUME NEW n \in MeshNodes, SetPlacementRoles(n)
       PROVE  MeshInv'
  BY <1>11, NodeRowsKeepMesh, MeshAssumption
<1> QED
  BY <1>1, <1>2, <1>3, <1>4, <1>5, <1>6, <1>7, <1>8, <1>9, <1>10, <1>11, NodeRowsKeepMesh, ChallengeKeepsMesh,
     PublishKeepsMesh, RegisterKeepsMesh DEF MeshNext

(* For any fleet: a Node that is granted anything proved its key since it was  *)
(* last reset, no two Nodes hold one key, and what a gateway links to is what  *)
(* the provider exposes to it (nodes.ts, nodeState.ts, ingress.ts).            *)
THEOREM GrantsStaySound == MeshSpec => []GrantsSound
<1>1. MeshInv => GrantsSound
  BY GrantsMeet DEF MeshInv, ProofsFresh, OneKeyEach, IdentityProven, Grantable, GrantsSound
<1> QED
  BY <1>1, MeshInitInv, MeshStep, PTL DEF MeshSpec

-----------------------------------------------------------------------------
(* GitMirror. writeMu orders everything that touches the mirror, and GitHub    *)
(* only ever takes permissions back.                                           *)

MirrorPlaces == {"none", "prepare", "opening", "restore", "restoring", "ready", "authorize", "lock", "fetch",
                 "confirm", "check", "sending", "served", "github", "done"}
MirrorRequest == [own : BOOLEAN, depth : {0, 1}, want : Commits, tags : BOOLEAN, held : BOOLEAN, allowed : BOOLEAN]

MirrorTyped ==
  /\ place \in [Loaders -> MirrorPlaces] /\ req \in [Fetches -> MirrorRequest]
  /\ objects \subseteq Commits /\ isCut \in BOOLEAN
  /\ github \in [grants : BOOLEAN, serves : {Commits, {"base"}}]
  /\ refresher \in [at : {"idle", "started", "locking", "fetching", "bundled", "saving", "done"}, ready : BOOLEAN]
  /\ seedJob \in [prepared : BOOLEAN, ready : BOOLEAN, writable : BOOLEAN, due : BOOLEAN]

(* Whoever reads or writes the mirror holds writeMu.                           *)
MirrorLocked ==
  /\ \A l \in Loaders : place[l] \in {"fetch", "confirm", "check", "sending", "restoring"} => writeMu = l
  /\ refresher.at = "fetching" <=> writeMu = "refresh"

(* A mirror that is not cut has the history of what it holds, and all of it is *)
(* there once a request has fetched.                                           *)
MirrorWhole ==
  /\ "tip" \in objects /\ ~isCut => "base" \in objects
  /\ \A l \in Loaders : place[l] = "restoring" => ~isCut
  /\ \A f \in Fetches : place[f] \in {"confirm", "check", "sending"} /\ req[f].depth = 0 =>
       /\ History(req[f].want) \subseteq objects
       /\ req[f].want = "tip" => ~isCut

(* GitHub only ever takes back: what it serves now it served when the request  *)
(* came.                                                                       *)
MirrorAllowed ==
  \A f \in Fetches :
    /\ place[f] \notin {"none", "done"} /\ Serves(req[f].want) => req[f].allowed
    /\ place[f] = "fetch" => (req[f].held <=> req[f].depth = 0 /\ req[f].want \in objects)
    /\ place[f] = "confirm" => req[f].held \/ req[f].allowed
    /\ place[f] \in {"check", "sending", "served"} => req[f].allowed

MirrorInv == MirrorTyped /\ MirrorLocked /\ MirrorWhole /\ MirrorAllowed /\ NothingAfterClose

LEMMA MirrorInitInv ==
  ASSUME MirrorInit
  PROVE  MirrorInv
<1>1. NoRequest \in MirrorRequest
  BY DEF NoRequest, MirrorRequest, Commits
<1>2. MirrorTyped
  BY <1>1 DEF MirrorInit, MirrorTyped, MirrorPlaces
<1>3. MirrorLocked /\ NothingAfterClose
  BY MirrorAssumption DEF MirrorInit, MirrorLocked, NothingAfterClose
<1>4. MirrorWhole /\ MirrorAllowed
  BY DEF MirrorInit, MirrorWhole, MirrorAllowed, Loaders
<1> QED
  BY <1>2, <1>3, <1>4 DEF MirrorInv

(* A request or the prewarm goes on without touching the mirror, giving up the *)
(* lock if it holds it.                                                        *)
LEMMA MirrorMoves ==
  ASSUME MirrorInv, NEW l \in Loaders, NEW there \in MirrorPlaces, MovesTo(l, there),
         there \notin {"fetch", "confirm", "check", "sending", "restoring"},
         place[l] # "done", l \in Fetches => place[l] # "none",
         there = "served" => l \in Fetches /\ place[l] = "sending",
         UNCHANGED <<objects, isCut, req, github, refresher, service>>,
         writeMu' = writeMu \/ (writeMu = l /\ writeMu' = NoHolder),
         seedJob' \in [prepared : BOOLEAN, ready : BOOLEAN, writable : BOOLEAN, due : BOOLEAN]
  PROVE  MirrorInv'
<1>0. MirrorTyped /\ MirrorLocked /\ MirrorWhole /\ MirrorAllowed /\ NothingAfterClose
  BY DEF MirrorInv
<1>1. /\ place' \in [Loaders -> MirrorPlaces] /\ place'[l] = there
      /\ \A k \in Loaders \ {l} : place'[k] = place[k]
  BY <1>0 DEF MovesTo, MirrorTyped
<1>2. MirrorTyped'
  BY <1>0, <1>1 DEF MirrorTyped
<1>3. MirrorLocked'
  BY <1>0, <1>1, MirrorAssumption DEF MirrorLocked, Loaders
<1>4. MirrorWhole'
  BY <1>0, <1>1 DEF MirrorWhole, Loaders
<1>5. MirrorAllowed'
  BY <1>0, <1>1 DEF MirrorAllowed, Loaders, Serves
<1>6. NothingAfterClose'
  BY <1>0, <1>1, MirrorAssumption DEF NothingAfterClose, BackgroundDone, Loaders
<1> QED
  BY <1>2, <1>3, <1>4, <1>5, <1>6 DEF MirrorInv

LEMMA RequestArrives ==
  ASSUME MirrorInv, NEW f \in Fetches, NEW r \in Asks, serveGitHub(f, r)
  PROVE  MirrorInv'
<1>0. MirrorTyped /\ MirrorLocked /\ MirrorWhole /\ MirrorAllowed /\ NothingAfterClose /\ f \in Loaders
  BY DEF MirrorInv, Loaders
<1>1. PICK there \in {"github", "prepare"} : MovesTo(f, there)
  BY DEF serveGitHub
<1>2. PICK new : new = [own |-> r.own, depth |-> r.depth, want |-> r.want, tags |-> r.tags, held |-> FALSE,
                        allowed |-> Serves(r.want)]
  OBVIOUS
<1>3. /\ service = "open" /\ place[f] = "none" /\ req' = [req EXCEPT ![f] = new]
      /\ UNCHANGED <<seedJob, writeMu, objects, isCut, refresher, github, service>>
  BY <1>2 DEF serveGitHub
<1>4. r.own \in BOOLEAN /\ r.depth \in {0, 1} /\ r.want \in Commits /\ r.tags \in BOOLEAN
  BY MirrorAssumption DEF Commits
<1>5. Serves(r.want) \in BOOLEAN
  BY <1>0 DEF Serves, MirrorTyped
<1>6. new \in MirrorRequest
  BY <1>2, <1>4, <1>5 DEF MirrorRequest
<1>7. new.want = r.want /\ new.allowed = Serves(r.want)
  BY <1>2
<1>8. /\ place' \in [Loaders -> MirrorPlaces] /\ place'[f] = there
      /\ \A k \in Loaders \ {f} : place'[k] = place[k]
  BY <1>0, <1>1 DEF MovesTo, MirrorTyped, MirrorPlaces
<1>9. req' \in [Fetches -> MirrorRequest] /\ req'[f] = new /\ \A k \in Fetches \ {f} : req'[k] = req[k]
  BY <1>0, <1>3, <1>6 DEF MirrorTyped
<1>10. MirrorTyped'
  BY <1>0, <1>3, <1>8, <1>9 DEF MirrorTyped
<1>11. MirrorLocked' /\ NothingAfterClose'
  BY <1>0, <1>3, <1>8 DEF MirrorLocked, NothingAfterClose
<1>12. MirrorWhole'
  BY <1>0, <1>3, <1>8, <1>9 DEF MirrorWhole, Loaders
<1>13. MirrorAllowed'
  BY <1>0, <1>3, <1>7, <1>8, <1>9 DEF MirrorAllowed, Loaders, Serves
<1> QED
  BY <1>10, <1>11, <1>12, <1>13 DEF MirrorInv

LEMMA RequestLocks ==
  ASSUME MirrorInv, NEW f \in Fetches, tryLock(f), writeMu = NoHolder
  PROVE  MirrorInv'
<1>0. MirrorTyped /\ MirrorLocked /\ MirrorWhole /\ MirrorAllowed /\ NothingAfterClose /\ f \in Loaders
  BY DEF MirrorInv, Loaders
<1>1. PICK new : new = [req[f] EXCEPT !.held = req[f].depth = 0 /\ req[f].want \in objects]
  OBVIOUS
<1>2. /\ place[f] = "lock" /\ MovesTo(f, "fetch") /\ writeMu' = f /\ req' = [req EXCEPT ![f] = new]
      /\ UNCHANGED <<seedJob, objects, isCut, refresher, github, service>>
  BY <1>1 DEF tryLock
<1>3. req[f] \in MirrorRequest
  BY <1>0 DEF MirrorTyped
<1>4. /\ new \in MirrorRequest /\ new.want = req[f].want /\ new.depth = req[f].depth /\ new.allowed = req[f].allowed
      /\ new.held <=> new.depth = 0 /\ new.want \in objects
  BY <1>1, <1>3 DEF MirrorRequest
<1>5. /\ place' \in [Loaders -> MirrorPlaces] /\ place'[f] = "fetch"
      /\ \A k \in Loaders \ {f} : place'[k] = place[k]
  BY <1>0, <1>2 DEF MovesTo, MirrorTyped, MirrorPlaces
<1>6. req' \in [Fetches -> MirrorRequest] /\ req'[f] = new /\ \A k \in Fetches \ {f} : req'[k] = req[k]
  BY <1>0, <1>2, <1>4 DEF MirrorTyped
<1>7. \A k \in Loaders : place[k] \notin {"fetch", "confirm", "check", "sending", "restoring"}
  BY <1>0, MirrorAssumption DEF MirrorLocked, Loaders
<1>8. MirrorTyped'
  BY <1>0, <1>2, <1>5, <1>6 DEF MirrorTyped
<1>9. MirrorLocked'
  BY <1>0, <1>2, <1>5, <1>7, MirrorAssumption DEF MirrorLocked
<1>10. MirrorWhole'
  BY <1>0, <1>2, <1>5, <1>7 DEF MirrorWhole, Loaders
<1>11. MirrorAllowed'
  BY <1>0, <1>2, <1>4, <1>5, <1>6 DEF MirrorAllowed, Loaders, Serves
<1>12. NothingAfterClose'
  BY <1>0, <1>2, <1>5, MirrorAssumption DEF NothingAfterClose, BackgroundDone, Loaders
<1> QED
  BY <1>8, <1>9, <1>10, <1>11, <1>12 DEF MirrorInv

(* The holder of the lock goes on: fetch, confirm, check, sending.             *)
LEMMA HolderMoves ==
  ASSUME MirrorInv, NEW f \in Fetches, NEW there \in {"confirm", "check", "sending"}, MovesTo(f, there), writeMu = f,
         place[f] \in {"fetch", "confirm", "check"}, UNCHANGED <<seedJob, req, refresher, github, service, writeMu>>,
         objects' \subseteq Commits, isCut' \in BOOLEAN,
         "tip" \in objects' /\ ~isCut' => "base" \in objects',
         req[f].depth = 0 => /\ History(req[f].want) \subseteq objects'
                             /\ req[f].want = "tip" => ~isCut',
         there = "confirm" => req[f].held \/ req[f].allowed,
         there # "confirm" => req[f].allowed
  PROVE  MirrorInv'
<1>0. MirrorTyped /\ MirrorLocked /\ MirrorWhole /\ MirrorAllowed /\ NothingAfterClose /\ f \in Loaders
  BY DEF MirrorInv, Loaders
<1>1. /\ place' \in [Loaders -> MirrorPlaces] /\ place'[f] = there
      /\ \A k \in Loaders \ {f} : place'[k] = place[k]
  BY <1>0 DEF MovesTo, MirrorTyped, MirrorPlaces
<1>2. \A k \in Loaders \ {f} : place[k] \notin {"fetch", "confirm", "check", "sending", "restoring"}
  BY <1>0 DEF MirrorLocked
<1>3. MirrorTyped'
  BY <1>0, <1>1 DEF MirrorTyped
<1>4. MirrorLocked'
  BY <1>0, <1>1 DEF MirrorLocked
<1>5. MirrorWhole'
  BY <1>0, <1>1, <1>2 DEF MirrorWhole, Loaders
<1>6. MirrorAllowed'
  BY <1>0, <1>1, <1>2 DEF MirrorAllowed, Loaders, Serves
<1>7. NothingAfterClose'
  BY <1>0, <1>1, MirrorAssumption DEF NothingAfterClose, BackgroundDone, Loaders
<1> QED
  BY <1>3, <1>4, <1>5, <1>6, <1>7 DEF MirrorInv

LEMMA HolderKeepsMirror ==
  ASSUME MirrorInv, NEW f \in Fetches, fetchObjects(f) \/ confirmServed(f) \/ uploadPack(f)
  PROVE  MirrorInv'
<1>0. MirrorTyped /\ MirrorLocked /\ MirrorWhole /\ MirrorAllowed /\ f \in Loaders
  BY DEF MirrorInv, Loaders
<1>1. /\ place[f] \in {"fetch", "confirm", "check"} /\ writeMu = f
      /\ UNCHANGED <<seedJob, req, refresher, github, service, writeMu>>
  BY <1>0 DEF fetchObjects, confirmServed, uploadPack, MayAnswer, MirrorLocked
<1>2. req[f].depth \in {0, 1} /\ req[f].want \in Commits /\ isCut \in BOOLEAN /\ objects \subseteq Commits
  BY <1>0 DEF MirrorTyped, MirrorRequest
<1>3. CASE fetchObjects(f)
  <2>1. place[f] = "fetch" /\ MovesTo(f, "confirm")
    BY <1>3 DEF fetchObjects
  <2>2. CASE AsksGitHub(req[f])
    <3>1. Serves(req[f].want) /\ Brought(req[f])
      BY <1>3, <2>2 DEF fetchObjects
    <3>2. objects' \subseteq Commits /\ isCut' \in BOOLEAN /\ ("tip" \in objects' /\ ~isCut' => "base" \in objects')
      <4>1. CASE req[f].depth = 0
        <5>1. objects' = objects \cup History(req[f].want) /\ (isCut' <=> isCut /\ req[f].want # "tip") /\ isCut' \in BOOLEAN
          <6>1. ~(req[f].depth > 0)
            BY <4>1
          <6> QED
            BY <1>2, <3>1, <6>1, Zenon DEF Brought
        <5>2. CASE req[f].want = "tip"
          BY <1>0, <1>2, <5>1, <5>2 DEF History, Commits, MirrorWhole
        <5>3. CASE req[f].want = "base"
          BY <1>0, <1>2, <5>1, <5>3 DEF History, Commits, MirrorWhole
        <5> QED
          BY <1>2, <5>2, <5>3 DEF Commits
      <4>2. CASE req[f].depth = 1
        <5>1. req[f].depth > 0
          BY <4>2
        <5>2. objects' = objects \cup {req[f].want} /\ (isCut' <=> isCut \/ req[f].want = "tip") /\ isCut' \in BOOLEAN
          BY <1>2, <3>1, <5>1, Zenon DEF Brought
        <5> QED
          BY <1>0, <1>2, <5>2 DEF Commits, MirrorWhole
      <4> QED
        BY <1>2, <4>1, <4>2
    <3>3. ASSUME req[f].depth = 0
          PROVE  /\ History(req[f].want) \subseteq objects'
                 /\ req[f].want = "tip" => ~isCut'
      <4>1. ~(req[f].depth > 0)
        BY <3>3
      <4> QED
        BY <3>1, <4>1, Zenon DEF Brought
    <3>4. req[f].allowed
      BY <1>0, <2>1, <3>1 DEF MirrorAllowed
    <3> QED
      BY <1>1, <2>1, <3>2, <3>3, <3>4, HolderMoves
  <2>3. CASE ~AsksGitHub(req[f])
    <3>1. UNCHANGED <<objects, isCut>> /\ req[f].depth = 0 /\ ~isCut /\ req[f].want \in objects
      BY <1>2, <1>3, <2>3 DEF fetchObjects, AsksGitHub
    <3>2. req[f].held
      BY <1>0, <2>1, <3>1 DEF MirrorAllowed
    <3>3. History(req[f].want) \subseteq objects
      BY <1>0, <1>2, <3>1 DEF MirrorWhole, History, Commits
    <3> QED
      BY <1>0, <1>1, <1>2, <2>1, <3>1, <3>2, <3>3, HolderMoves DEF MirrorWhole
  <2> QED
    BY <2>2, <2>3
<1>4. CASE confirmServed(f)
  <2>1. /\ place[f] = "confirm" /\ MovesTo(f, "check") /\ UNCHANGED <<objects, isCut>>
        /\ (req[f].held => Serves(req[f].want))
    BY <1>4 DEF confirmServed
  <2>2. req[f].allowed
    BY <1>0, <2>1 DEF MirrorAllowed
  <2> QED
    BY <1>0, <1>1, <1>2, <2>1, <2>2, HolderMoves DEF MirrorWhole
<1>5. CASE uploadPack(f)
  <2>1. place[f] = "check" /\ MovesTo(f, "sending") /\ UNCHANGED <<objects, isCut>>
    BY <1>5 DEF uploadPack, MayAnswer
  <2>2. req[f].allowed
    BY <1>0, <2>1 DEF MirrorAllowed
  <2> QED
    BY <1>0, <1>1, <1>2, <2>1, <2>2, HolderMoves DEF MirrorWhole
<1> QED
  BY <1>3, <1>4, <1>5

LEMMA RequestEnds ==
  ASSUME MirrorInv, NEW f \in Fetches, maybeRefresh(f)
  PROVE  MirrorInv'
<1>0. MirrorTyped /\ MirrorLocked /\ MirrorWhole /\ MirrorAllowed /\ NothingAfterClose /\ f \in Loaders
  BY DEF MirrorInv, Loaders
<1>1. /\ place[f] \in {"served", "github"} /\ MovesTo(f, "done") /\ req' = [req EXCEPT ![f] = NoRequest]
      /\ UNCHANGED <<seedJob, writeMu, objects, isCut, github, service>>
      /\ \/ refresher' = refresher
         \/ service = "open" /\ refresher.at = "idle" /\ refresher' = [refresher EXCEPT !.at = "started"]
  BY DEF maybeRefresh, MayRefresh
<1>2. /\ place' \in [Loaders -> MirrorPlaces] /\ place'[f] = "done"
      /\ \A k \in Loaders \ {f} : place'[k] = place[k]
  BY <1>0, <1>1 DEF MovesTo, MirrorTyped, MirrorPlaces
<1>3. NoRequest \in MirrorRequest
  BY DEF NoRequest, MirrorRequest, Commits
<1>4. req' \in [Fetches -> MirrorRequest] /\ \A k \in Fetches \ {f} : req'[k] = req[k]
  BY <1>0, <1>1, <1>3 DEF MirrorTyped
<1>5. /\ refresher' \in [at : {"idle", "started", "locking", "fetching", "bundled", "saving", "done"}, ready : BOOLEAN]
      /\ refresher'.at = "fetching" <=> refresher.at = "fetching"
      /\ refresher' = refresher \/ service = "open"
  BY <1>0, <1>1 DEF MirrorTyped
<1>6. MirrorTyped'
  BY <1>0, <1>1, <1>2, <1>4, <1>5 DEF MirrorTyped
<1>7. MirrorLocked'
  BY <1>0, <1>1, <1>2, <1>5 DEF MirrorLocked
<1>8. MirrorWhole'
  BY <1>0, <1>1, <1>2, <1>4 DEF MirrorWhole, Loaders
<1>9. MirrorAllowed'
  BY <1>0, <1>1, <1>2, <1>4 DEF MirrorAllowed, Loaders, Serves
<1>10. NothingAfterClose'
  BY <1>0, <1>1, <1>2, <1>5, MirrorAssumption DEF NothingAfterClose, BackgroundDone, Loaders
<1> QED
  BY <1>6, <1>7, <1>8, <1>9, <1>10 DEF MirrorInv

(* A request gives up the lock it holds, and no other.                         *)
LEMMA UnlockedIsMine ==
  ASSUME NEW f \in Fetches, MirrorUnlocked(f)
  PROVE  writeMu' = writeMu \/ (writeMu = f /\ writeMu' = NoHolder)
  BY DEF MirrorUnlocked

LEMMA FetchesKeepMirror ==
  ASSUME MirrorInv, NEW f \in Fetches, FetchStep(f)
  PROVE  MirrorInv'
<1>0. /\ f \in Loaders
      /\ seedJob \in [prepared : BOOLEAN, ready : BOOLEAN, writable : BOOLEAN, due : BOOLEAN]
  BY DEF MirrorInv, MirrorTyped, Loaders
<1>1. CASE prepare(f)
  <2>1. PICK there \in {"authorize", "github", "opening"} : MovesTo(f, there)
    BY <1>1 DEF prepare
  <2>2. place[f] = "prepare" /\ UNCHANGED <<seedJob, writeMu, objects, isCut, req, refresher, github, service>>
    BY <1>1 DEF prepare
  <2> QED
    BY <1>0, <2>1, <2>2, MirrorMoves DEF MirrorPlaces
<1>2. CASE authorize(f)
  BY <1>0, <1>2, MirrorMoves DEF authorize, MirrorPlaces
<1>3. CASE tryLock(f)
  <2>1. CASE writeMu = NoHolder
    BY <1>3, <2>1, RequestLocks
  <2>2. CASE writeMu # NoHolder
    BY <1>0, <1>3, <2>2, MirrorMoves DEF tryLock, MirrorPlaces
  <2> QED
    BY <2>1, <2>2
<1>4. CASE fetchObjects(f) \/ confirmServed(f) \/ uploadPack(f)
  BY <1>4, HolderKeepsMirror
<1>5. CASE answered(f)
  BY <1>0, <1>5, MirrorMoves, UnlockedIsMine DEF answered, MirrorPlaces
<1>6. CASE fallBack(f)
  BY <1>0, <1>6, MirrorMoves, UnlockedIsMine DEF fallBack, MirrorPlaces
<1>7. CASE maybeRefresh(f)
  BY <1>7, RequestEnds
<1> QED
  BY <1>1, <1>2, <1>3, <1>4, <1>5, <1>6, <1>7 DEF FetchStep

(* A loader empties the mirror when it has the lock, and fills it before it    *)
(* gives it up.                                                                *)
LEMMA RestoreKeepsMirror ==
  ASSUME MirrorInv, NEW l \in Loaders, restoreMirror(l) \/ restored(l)
  PROVE  MirrorInv'
<1>0. MirrorTyped /\ MirrorLocked /\ MirrorWhole /\ MirrorAllowed /\ NothingAfterClose
  BY DEF MirrorInv
<1>1. PICK there \in {"restoring", "ready", "done", "prepare"} : MovesTo(l, there) /\ (restored(l) => there # "restoring")
  BY DEF restoreMirror, restored, Loaded
<1>2. /\ place' \in [Loaders -> MirrorPlaces] /\ place'[l] = there
      /\ \A k \in Loaders \ {l} : place'[k] = place[k]
  BY <1>0, <1>1 DEF MovesTo, MirrorTyped, MirrorPlaces
<1>3. /\ place[l] \in {"restore", "restoring"} /\ UNCHANGED <<seedJob, req, refresher, github, service>>
      /\ objects' \subseteq Commits /\ isCut' = FALSE /\ ("tip" \in objects' => "base" \in objects')
      /\ writeMu \in {l, NoHolder} /\ writeMu' \in {l, NoHolder}
      /\ (there = "restoring" => writeMu' = l)
  <2>1. CASE restoreMirror(l)
    BY <2>1 DEF restoreMirror
  <2>2. CASE restored(l)
    <3>1. place[l] = "restoring" /\ writeMu = l /\ writeMu' = NoHolder /\ isCut' = isCut /\ isCut = FALSE
      BY <1>0, <2>2 DEF restored, MirrorTyped, MirrorLocked, MirrorWhole
    <3>2. objects' = {"base"} \/ objects' = Commits \/ objects' = objects
      BY <2>2 DEF restored
    <3>3. objects' \subseteq Commits /\ ("tip" \in objects' => "base" \in objects')
      BY <1>0, <3>1, <3>2 DEF MirrorTyped, MirrorWhole, Commits
    <3> QED
      BY <1>1, <2>2, <3>1, <3>3 DEF restored
  <2> QED
    BY <2>1, <2>2
<1>4. \A k \in Loaders \ {l} : place[k] \notin {"fetch", "confirm", "check", "sending", "restoring"}
  BY <1>0, <1>3, MirrorAssumption DEF MirrorLocked, Loaders
<1>5. writeMu # "refresh" /\ writeMu' # "refresh"
  BY <1>3, MirrorAssumption DEF Loaders
<1>6. MirrorTyped'
  BY <1>0, <1>2, <1>3 DEF MirrorTyped
<1>7. MirrorLocked'
  BY <1>0, <1>2, <1>3, <1>4, <1>5 DEF MirrorLocked
<1>8. MirrorWhole'
  BY <1>0, <1>2, <1>3, <1>4 DEF MirrorWhole, Loaders
<1>9. MirrorAllowed'
  BY <1>0, <1>2, <1>3, <1>4 DEF MirrorAllowed, Loaders, Serves
<1>10. NothingAfterClose'
  BY <1>0, <1>2, <1>3, <1>5 DEF NothingAfterClose, BackgroundDone, Loaders
<1> QED
  BY <1>6, <1>7, <1>8, <1>9, <1>10 DEF MirrorInv

LEMMA LoadersKeepMirror ==
  ASSUME MirrorInv, NEW l \in Loaders, LoadStep(l)
  PROVE  MirrorInv'
<1>0. seedJob \in [prepared : BOOLEAN, ready : BOOLEAN, writable : BOOLEAN, due : BOOLEAN]
  BY DEF MirrorInv, MirrorTyped
<1>1. CASE OpenSeed(l)
  <2>1. PICK there \in {"restore", "done", "prepare", "none", "github"} : MovesTo(l, there)
    BY <1>1 DEF OpenSeed, Loaded
  <2>2. place[l] = "opening" /\ UNCHANGED <<writeMu, objects, isCut, req, refresher, github, service>>
    BY <1>1 DEF OpenSeed
  <2>3. seedJob' \in [prepared : BOOLEAN, ready : BOOLEAN, writable : BOOLEAN, due : BOOLEAN]
    BY <1>0, <1>1 DEF OpenSeed
  <2> QED
    BY <2>1, <2>2, <2>3, MirrorMoves DEF MirrorPlaces
<1>2. CASE restoreMirror(l) \/ restored(l)
  BY <1>2, RestoreKeepsMirror
<1>3. CASE setReady(l)
  <2>1. PICK there \in {"done", "prepare"} : MovesTo(l, there)
    BY <1>3 DEF setReady, Loaded
  <2>2. place[l] = "ready" /\ UNCHANGED <<writeMu, objects, isCut, req, refresher, github, service>>
    BY <1>3 DEF setReady
  <2>3. seedJob' \in [prepared : BOOLEAN, ready : BOOLEAN, writable : BOOLEAN, due : BOOLEAN]
    BY <1>0, <1>3 DEF setReady
  <2> QED
    BY <2>1, <2>2, <2>3, MirrorMoves DEF MirrorPlaces
<1> QED
  BY <1>1, <1>2, <1>3 DEF LoadStep

LEMMA PrewarmKeepsMirror ==
  ASSUME MirrorInv, prewarm \/ prewarmCancel
  PROVE  MirrorInv'
<1>1. PICK there \in {"done", "opening"} : MovesTo(Prewarm, there)
  BY DEF prewarm, prewarmCancel
<1>2. place[Prewarm] = "none" /\ UNCHANGED <<seedJob, writeMu, objects, isCut, req, refresher, github, service>>
  BY DEF prewarm, prewarmCancel
<1>3. /\ Prewarm \in Loaders /\ Prewarm \notin Fetches
      /\ seedJob \in [prepared : BOOLEAN, ready : BOOLEAN, writable : BOOLEAN, due : BOOLEAN]
  BY MirrorAssumption DEF MirrorInv, MirrorTyped, Loaders
<1> QED
  BY <1>1, <1>2, <1>3, MirrorMoves DEF MirrorPlaces

(* The refresh: while it holds writeMu no request is between its fetch and the *)
(* end of its answer.                                                          *)
LEMMA RefreshKeepsMirror ==
  ASSUME MirrorInv, RefreshStep
  PROVE  MirrorInv'
<1>0. MirrorTyped /\ MirrorLocked /\ MirrorWhole /\ MirrorAllowed /\ NothingAfterClose
  BY DEF MirrorInv
<1>1. UNCHANGED <<place, req, github, service>> /\ refresher.at \notin {"idle", "done"}
  BY DEF RefreshStep, refreshReads, refreshLocks, refreshFetches, refreshSaves
<1>2. service # "closed"
  BY <1>0, <1>1 DEF NothingAfterClose, BackgroundDone
<1>3. NothingAfterClose'
  BY <1>1, <1>2 DEF NothingAfterClose
<1>4. CASE refreshReads \/ refreshSaves
  <2>1. UNCHANGED <<writeMu, objects, isCut>>
    BY <1>4 DEF refreshReads, refreshSaves
  <2>2. /\ refresher' \in [at : {"idle", "started", "locking", "fetching", "bundled", "saving", "done"}, ready : BOOLEAN]
        /\ seedJob' \in [prepared : BOOLEAN, ready : BOOLEAN, writable : BOOLEAN, due : BOOLEAN]
        /\ refresher.at # "fetching" /\ refresher'.at # "fetching"
    <3>1. CASE refreshReads
      BY <1>0, <3>1 DEF refreshReads, MirrorTyped
    <3>2. CASE refreshSaves
      <4>1. PICK there \in {"saving", "done"} : refresher' = [refresher EXCEPT !.at = there]
        BY <3>2 DEF refreshSaves
      <4>2. seedJob' = [seedJob EXCEPT !.ready = TRUE] \/ seedJob' = seedJob
        BY <3>2 DEF refreshSaves
      <4>3. refresher.at # "fetching"
        BY <3>2 DEF refreshSaves
      <4> QED
        BY <1>0, <4>1, <4>2, <4>3 DEF MirrorTyped
    <3> QED
      BY <1>4, <3>1, <3>2
  <2>3. MirrorTyped'
    BY <1>0, <1>1, <2>1, <2>2 DEF MirrorTyped
  <2>4. MirrorLocked'
    BY <1>0, <1>1, <2>1, <2>2 DEF MirrorLocked
  <2>5. MirrorWhole' /\ MirrorAllowed'
    BY <1>0, <1>1, <2>1 DEF MirrorWhole, MirrorAllowed, Serves
  <2> QED
    BY <1>3, <2>3, <2>4, <2>5 DEF MirrorInv
<1>5. CASE refreshLocks \/ refreshFetches
  <2>1. /\ seedJob' = seedJob /\ writeMu \in {NoHolder, "refresh"} /\ writeMu' \in {NoHolder, "refresh"}
        /\ refresher' \in [at : {"idle", "started", "locking", "fetching", "bundled", "saving", "done"}, ready : BOOLEAN]
        /\ refresher'.at = "fetching" <=> writeMu' = "refresh"
    BY <1>0, <1>5, MirrorAssumption DEF refreshLocks, refreshFetches, MirrorTyped, MirrorLocked
  <2>2. \A l \in Loaders : place[l] \notin {"fetch", "confirm", "check", "sending", "restoring"}
    BY <1>0, <2>1, MirrorAssumption DEF MirrorLocked, Loaders
  <2>3. objects' \subseteq Commits /\ isCut' \in BOOLEAN /\ ("tip" \in objects' /\ ~isCut' => "base" \in objects')
    <3>1. CASE refreshLocks
      <4>1. CASE refresher.ready
        BY <1>0, <3>1, <4>1 DEF refreshLocks, MirrorTyped, MirrorWhole
      <4>2. CASE ~refresher.ready
        BY <3>1, <4>2 DEF refreshLocks
      <4> QED
        BY <4>1, <4>2
    <3>2. CASE refreshFetches
      <4>1. CASE UNCHANGED <<objects, isCut>>
        BY <1>0, <4>1 DEF MirrorTyped, MirrorWhole
      <4>2. CASE objects' = objects \cup github.serves /\ isCut' = (isCut /\ "tip" \notin github.serves)
        <5>1. github.serves = Commits \/ github.serves = {"base"}
          BY <1>0 DEF MirrorTyped
        <5>2. isCut' \in BOOLEAN
          BY <4>2
        <5> QED
          BY <1>0, <4>2, <5>1, <5>2 DEF MirrorTyped, Commits
      <4> QED
        BY <3>2, <4>1, <4>2 DEF refreshFetches
    <3> QED
      BY <1>5, <3>1, <3>2
  <2>4. MirrorTyped'
    BY <1>0, <1>1, <2>1, <2>3 DEF MirrorTyped
  <2>5. MirrorLocked'
    BY <1>1, <2>1, <2>2 DEF MirrorLocked
  <2>6. MirrorWhole'
    BY <1>0, <1>1, <2>2, <2>3 DEF MirrorWhole, Loaders
  <2>7. MirrorAllowed'
    BY <1>0, <1>1, <2>2 DEF MirrorAllowed, Serves, Loaders
  <2> QED
    BY <1>3, <2>4, <2>5, <2>6, <2>7 DEF MirrorInv
<1> QED
  BY <1>4, <1>5 DEF RefreshStep

LEMMA MirrorStep ==
  ASSUME MirrorInv, [MirrorNext]_mirrorVars
  PROVE  MirrorInv'
<1>0. MirrorTyped /\ MirrorLocked /\ MirrorWhole /\ MirrorAllowed /\ NothingAfterClose
  BY DEF MirrorInv
<1>1. CASE \E f \in Fetches : \E r \in Asks : serveGitHub(f, r)
  BY <1>1, RequestArrives
<1>2. CASE \E f \in Fetches : FetchStep(f)
  BY <1>2, FetchesKeepMirror
<1>3. CASE \E l \in Loaders : LoadStep(l)
  BY <1>3, LoadersKeepMirror
<1>4. CASE prewarm \/ prewarmCancel
  BY <1>4, PrewarmKeepsMirror
<1>5. CASE RefreshStep
  BY <1>5, RefreshKeepsMirror
<1>6. CASE Close
  <2>1. /\ UNCHANGED <<seedJob, writeMu, objects, isCut, place, req, refresher, github>>
        /\ service' = "closed" => BackgroundDone
    BY <1>6 DEF Close
  <2>2. MirrorTyped' /\ MirrorLocked'
    BY <1>0, <2>1 DEF MirrorTyped, MirrorLocked
  <2>3. MirrorWhole' /\ MirrorAllowed'
    BY <1>0, <2>1 DEF MirrorWhole, MirrorAllowed, Serves
  <2>4. NothingAfterClose'
    BY <1>0, <2>1 DEF NothingAfterClose, BackgroundDone, MirrorLocked
  <2> QED
    BY <2>2, <2>3, <2>4 DEF MirrorInv
<1>7. CASE refsAdvertised \/ timePasses \/ UNCHANGED mirrorVars
  <2>1. UNCHANGED <<seedJob, writeMu, objects, isCut, place, req, refresher, github, service>>
    BY <1>7 DEF refsAdvertised, timePasses, mirrorVars
  <2>2. MirrorTyped' /\ MirrorLocked'
    BY <1>0, <2>1 DEF MirrorTyped, MirrorLocked
  <2>3. MirrorWhole' /\ MirrorAllowed' /\ NothingAfterClose'
    BY <1>0, <2>1 DEF MirrorWhole, MirrorAllowed, Serves, NothingAfterClose, BackgroundDone
  <2> QED
    BY <2>2, <2>3 DEF MirrorInv
<1>8. CASE GitHubRefuses
  <2>1. UNCHANGED <<seedJob, writeMu, objects, isCut, place, req, refresher, service>>
    BY <1>8 DEF GitHubRefuses
  <2>2. /\ github' \in [grants : BOOLEAN, serves : {Commits, {"base"}}]
        /\ github'.grants => github.grants /\ github'.serves \subseteq github.serves
    <3>1. github \in [grants : BOOLEAN, serves : {Commits, {"base"}}]
      BY <1>0 DEF MirrorTyped
    <3>2. CASE github' = [github EXCEPT !.grants = FALSE]
      BY <3>1, <3>2
    <3>3. CASE github' = [github EXCEPT !.serves = {"base"}]
      BY <3>1, <3>3 DEF Commits
    <3> QED
      BY <1>8, <3>2, <3>3 DEF GitHubRefuses
  <2>3. MirrorTyped' /\ MirrorLocked'
    BY <1>0, <2>1, <2>2 DEF MirrorTyped, MirrorLocked
  <2>4. MirrorWhole' /\ NothingAfterClose'
    BY <1>0, <2>1 DEF MirrorWhole, NothingAfterClose, BackgroundDone
  <2>5. MirrorAllowed'
    BY <1>0, <2>1, <2>2 DEF MirrorAllowed, Serves
  <2> QED
    BY <2>3, <2>4, <2>5 DEF MirrorInv
<1> QED
  BY <1>1, <1>2, <1>3, <1>4, <1>5, <1>6, <1>7, <1>8 DEF MirrorNext

(* Whatever requests, loaders, the refresh, Close and GitHub do: an answer     *)
(* without a depth is read from a mirror with all of its history, the mirror   *)
(* only answers what GitHub would have when the request came, and Close leaves *)
(* no background at work (serveFromMirror, maybeRefresh, Close), for any       *)
(* number of requests.                                                         *)
THEOREM MirrorStaysSound == MirrorSpec => []MirrorSound
<1>1. ASSUME MirrorInv
      PROVE  MirrorSound
  <2>1. MirrorWhole /\ MirrorAllowed /\ NothingAfterClose
    BY <1>1 DEF MirrorInv
  <2>2. WholeHistory
    BY <2>1 DEF MirrorWhole, WholeHistory
  <2>3. AnswersAllowed
    BY <2>1 DEF MirrorAllowed, AnswersAllowed
  <2> QED
    BY <2>1, <2>2, <2>3 DEF MirrorSound
<1> QED
  BY <1>1, MirrorInitInv, MirrorStep, PTL DEF MirrorSpec


-----------------------------------------------------------------------------
(* Alerts. The last announcement is kept where lastFiringNotice finds it: in   *)
(* the open incident, or in the last resolved one that was announced.          *)
IncidentRows == [status : {"none", "pending", "firing"}, since : Nat, notifiedAt : Nat]

AlertsTyped ==
  /\ noticedAt \in Nat /\ incident \in IncidentRows /\ resolvedOnes \in Seq(Nat)
  /\ minute \in Nat \ {0} /\ evaluation.minute \in Nat
  /\ evaluation.at = "read" => evaluation.minute # 0
  /\ incident.notifiedAt # 0 => incident.status = "firing"

LastKept(j) ==
  /\ resolvedOnes[j] = noticedAt
  /\ \A k \in 1..Len(resolvedOnes) : k > j => resolvedOnes[k] = 0
NoticeKept ==
  \/ noticedAt = 0 /\ incident.notifiedAt = 0 /\ \A k \in 1..Len(resolvedOnes) : resolvedOnes[k] = 0
  \/ noticedAt # 0 /\ incident.notifiedAt = noticedAt
  \/ /\ noticedAt # 0 /\ incident.notifiedAt = 0
     /\ \E j \in 1..Len(resolvedOnes) : LastKept(j)

AlertsInv == AlertsTyped /\ NoticeKept

LEMMA AlertsInitInv == AlertsInit => AlertsInv
BY DEF AlertsInit, NoIncident, NoEvaluation, AlertsInv, AlertsTyped, NoticeKept, IncidentRows

(* An incident that ends takes what it announced with it into the past.        *)
LEMMA ResolvedKeeps ==
  ASSUME AlertsInv, incident' = NoIncident, resolvedOnes' = Resolved, UNCHANGED noticedAt,
         minute' \in Nat \ {0}, evaluation'.minute \in Nat,
         evaluation'.at = "read" => evaluation'.minute # 0
  PROVE  AlertsInv'
<1>1. /\ noticedAt \in Nat /\ incident \in IncidentRows /\ resolvedOnes \in Seq(Nat)
      /\ incident.notifiedAt # 0 => incident.status = "firing"
      /\ incident.notifiedAt \in Nat /\ Len(resolvedOnes) \in Nat
  BY DEF AlertsInv, AlertsTyped, IncidentRows
<1>2. NoIncident \in IncidentRows /\ NoIncident.notifiedAt = 0
  BY DEF NoIncident, IncidentRows
<1>3. CASE incident.status # "firing"
  <2>1. resolvedOnes' = resolvedOnes /\ incident.notifiedAt = 0
    BY <1>1, <1>3 DEF Resolved
  <2> QED
    BY <1>1, <1>2, <2>1 DEF AlertsInv, AlertsTyped, NoticeKept, LastKept
<1>4. CASE incident.status = "firing"
  <2>1. PICK n : n = Len(resolvedOnes)
    OBVIOUS
  <2>2. resolvedOnes' = Append(resolvedOnes, incident.notifiedAt)
    BY <1>4 DEF Resolved
  <2>3. /\ resolvedOnes' \in Seq(Nat) /\ n \in Nat /\ Len(resolvedOnes') = n + 1
        /\ resolvedOnes'[n + 1] = incident.notifiedAt
        /\ \A k \in 1..n : resolvedOnes'[k] = resolvedOnes[k]
    BY <1>1, <2>1, <2>2
  <2>4. AlertsTyped'
    BY <1>1, <1>2, <2>3 DEF AlertsTyped
  <2>5. CASE incident.notifiedAt = 0
    <3>1. CASE noticedAt = 0 /\ \A k \in 1..Len(resolvedOnes) : resolvedOnes[k] = 0
      <4>1. \A k \in 1..(n + 1) : resolvedOnes'[k] = 0
        BY <2>1, <2>3, <2>5, <3>1
      <4>2. noticedAt' = 0 /\ incident'.notifiedAt = 0 /\ \A k \in 1..Len(resolvedOnes') : resolvedOnes'[k] = 0
        BY <1>2, <2>3, <3>1, <4>1
      <4> QED
        BY <2>4, <4>2 DEF AlertsInv, NoticeKept
    <3>2. CASE noticedAt # 0 /\ \E j \in 1..Len(resolvedOnes) : LastKept(j)
      <4>1. PICK j \in 1..n : resolvedOnes[j] = noticedAt /\ \A k \in 1..n : k > j => resolvedOnes[k] = 0
        BY <2>1, <3>2 DEF LastKept
      <4>2. /\ j \in 1..(n + 1) /\ resolvedOnes'[j] = noticedAt
            /\ \A k \in 1..(n + 1) : k > j => resolvedOnes'[k] = 0
        <5>1. n \in Nat /\ resolvedOnes'[n + 1] = 0
          BY <2>3, <2>5
        <5>2. \A k \in 1..(n + 1) : k > j => resolvedOnes'[k] = 0
          <6> TAKE k \in 1..(n + 1)
          <6>1. CASE k = n + 1
            BY <5>1, <6>1
          <6>2. CASE k # n + 1
            <7>1. k \in 1..n
              BY <5>1, <6>2
            <7> QED
              BY <2>3, <4>1, <7>1
          <6> QED
            BY <6>1, <6>2
        <5>3. j \in 1..(n + 1) /\ resolvedOnes'[j] = noticedAt
          BY <2>3, <4>1, <5>1
        <5> QED
          BY <5>2, <5>3
      <4>3. LastKept(j)' /\ j \in 1..Len(resolvedOnes')
        BY <2>3, <4>2 DEF LastKept
      <4>4. noticedAt' # 0 /\ incident'.notifiedAt = 0
        BY <1>2, <3>2
      <4> QED
        BY <2>4, <4>3, <4>4 DEF AlertsInv, NoticeKept
    <3> QED
      BY <2>4, <2>5, <3>1, <3>2 DEF AlertsInv, NoticeKept
  <2>6. CASE incident.notifiedAt # 0
    <3>1. noticedAt # 0 /\ incident.notifiedAt = noticedAt
      BY <2>6 DEF AlertsInv, NoticeKept
    <3>2. n + 1 \in 1..(n + 1) /\ \A k \in 1..(n + 1) : ~(k > n + 1)
      BY <2>3
    <3> QED
      BY <1>2, <2>3, <2>4, <3>1, <3>2 DEF AlertsInv, NoticeKept, LastKept
  <2> QED
    BY <2>5, <2>6
<1> QED
  BY <1>3, <1>4

LEMMA AlertsFrame ==
  ASSUME AlertsInv, UNCHANGED <<incident, resolvedOnes, noticedAt>>,
         minute' \in Nat \ {0}, evaluation'.minute \in Nat,
         evaluation'.at = "read" => evaluation'.minute # 0
  PROVE  AlertsInv'
BY DEF AlertsInv, AlertsTyped, NoticeKept, LastKept

(* A breach opens an incident, or lets it fire; it announces nothing twice.    *)
LEMMA BreachRows ==
  ASSUME AlertsInv, NEW now \in Nat, NEW i, i = Breached(now)
  PROVE  /\ i \in IncidentRows /\ i.notifiedAt = incident.notifiedAt
         /\ i.notifiedAt # 0 => i.status = "firing"
<1>1. incident \in IncidentRows /\ (incident.notifiedAt # 0 => incident.status = "firing")
  BY DEF AlertsInv, AlertsTyped
<1>2. CASE incident.status = "none"
  <2>1. i = [status |-> IF ForMinutes = 0 THEN "firing" ELSE "pending", since |-> now, notifiedAt |-> 0]
    BY <1>2 DEF Breached
  <2> QED
    BY <1>1, <1>2, <2>1 DEF IncidentRows
<1>3. CASE incident.status # "none"
  <2>1. i = incident \/ (i = [incident EXCEPT !.status = "firing"] /\ incident.status = "pending")
    BY <1>3 DEF Breached
  <2> QED
    BY <1>1, <2>1 DEF IncidentRows
<1> QED
  BY <1>2, <1>3

LEMMA BreachKeeps ==
  ASSUME AlertsInv, NEW now \in Nat, now # 0, evaluateBreach(now), minute' \in Nat \ {0}, evaluation'.minute \in Nat,
         evaluation'.at = "read" => evaluation'.minute # 0
  PROVE  AlertsInv'
<1>1. PICK i : i = Breached(now)
  OBVIOUS
<1>2. i \in IncidentRows /\ i.notifiedAt = incident.notifiedAt /\ (i.notifiedAt # 0 => i.status = "firing")
  BY <1>1, BreachRows
<1>3. CASE Announces(i, now)
  <2>1. incident' = [i EXCEPT !.notifiedAt = now] /\ noticedAt' = now /\ UNCHANGED resolvedOnes
    BY <1>1, <1>3 DEF evaluateBreach
  <2>2. incident' \in IncidentRows /\ incident'.notifiedAt = now /\ incident'.status = "firing"
    BY <1>2, <1>3, <2>1 DEF IncidentRows, Announces
  <2> QED
    BY <2>1, <2>2 DEF AlertsInv, AlertsTyped, NoticeKept
<1>4. CASE ~Announces(i, now)
  <2>1. incident' = i /\ UNCHANGED <<noticedAt, resolvedOnes>>
    BY <1>1, <1>4 DEF evaluateBreach
  <2> QED
    BY <1>2, <2>1 DEF AlertsInv, AlertsTyped, NoticeKept, LastKept
<1> QED
  BY <1>3, <1>4

LEMMA AlertsNextInv == AlertsInv /\ [AlertsNext]_alertVars => AlertsInv'
<1> SUFFICES ASSUME AlertsInv, [AlertsNext]_alertVars PROVE AlertsInv'
  OBVIOUS
<1>0. /\ minute \in Nat \ {0} /\ evaluation.minute \in Nat
      /\ evaluation.at = "read" => evaluation.minute # 0
  BY DEF AlertsInv, AlertsTyped
<1>1. CASE \/ createRule \/ updateRule \/ updateDestination
           \/ (\E until \in 0..MaxMinute : muteRule(until))
           \/ (\E d \in 1..Len(deliveries) : Sends(d)) \/ UNCHANGED alertVars
  <2>1. UNCHANGED <<minute, incident, resolvedOnes, noticedAt, evaluation>>
    BY <1>1 DEF createRule, updateRule, updateDestination, muteRule, Sends, loadForSend, recordOutcome,
       alertVars, ruleVars
  <2> QED
    BY <1>0, <2>1, AlertsFrame
<1>2. CASE setRuleDisabled
  BY <1>0, <1>2, ResolvedKeeps DEF setRuleDisabled
<1>3. CASE deleteRule
  <2>1. incident' = NoIncident /\ resolvedOnes' = <<>> /\ noticedAt' = 0 /\ UNCHANGED <<minute, evaluation>>
    BY <1>3 DEF deleteRule
  <2>2. NoIncident \in IncidentRows /\ NoIncident.notifiedAt = 0
    BY DEF NoIncident, IncidentRows
  <2> QED
    BY <1>0, <2>1, <2>2 DEF AlertsInv, AlertsTyped, NoticeKept
<1>4. ASSUME NEW breach \in evaluateCondition, computeBreaches(breach) PROVE AlertsInv'
  <2>1. /\ evaluation' = [at |-> "read", minute |-> minute, edits |-> rule.edits, breach |-> breach]
        /\ UNCHANGED <<minute, incident, resolvedOnes, noticedAt>>
    BY <1>4 DEF computeBreaches, ruleVars
  <2> QED
    BY <1>0, <2>1, AlertsFrame
<1>5. CASE applyBreaches
  <2>1. /\ UNCHANGED minute /\ evaluation'.minute = evaluation.minute /\ evaluation'.at = "idle"
        /\ evaluation.at = "read"
    BY <1>5 DEF applyBreaches, NoEvaluation
  <2>2. CASE evaluateBreach(evaluation.minute)
    BY <1>0, <2>1, <2>2, BreachKeeps
  <2>3. CASE evaluateClear(evaluation.minute)
    BY <1>0, <2>1, <2>3, ResolvedKeeps DEF evaluateClear
  <2>4. CASE UNCHANGED <<incident, resolvedOnes, noticedAt, deliveries>>
    BY <1>0, <2>1, <2>4, AlertsFrame
  <2> QED
    BY <1>5, <2>2, <2>3, <2>4 DEF applyBreaches
<1>6. CASE MinutePasses
  BY <1>0, <1>6, AlertsFrame DEF MinutePasses, ruleVars
<1> QED
  BY <1>1, <1>2, <1>3, <1>4, <1>5, <1>6 DEF AlertsNext

(* What is announced too soon follows more incidents than are looked at.       *)
LEMMA AnnouncedInTime ==
  ASSUME AlertsInv, [AlertsNext]_alertVars, TooSoon
  PROVE  ~NoticedLately
<1>1. noticedAt # 0 /\ noticedAt' # 0 /\ noticedAt' # noticedAt /\ noticedAt' - noticedAt < CooldownMinutes
  BY DEF TooSoon
<1>2. applyBreaches /\ evaluateBreach(evaluation.minute)
  <2>1. ~(UNCHANGED noticedAt) /\ ~(noticedAt' = 0)
    BY <1>1
  <2>2. ~setRuleDisabled /\ ~deleteRule
    BY <2>1 DEF setRuleDisabled, deleteRule
  <2>3. ~createRule /\ ~updateRule /\ ~updateDestination /\ \A until \in 0..MaxMinute : ~muteRule(until)
    BY <2>1 DEF createRule, updateRule, updateDestination, muteRule
  <2>4. ~MinutePasses /\ (\A breach \in evaluateCondition : ~computeBreaches(breach)) /\ ~(UNCHANGED alertVars)
    BY <2>1 DEF MinutePasses, computeBreaches, alertVars, ruleVars
  <2>5. \A d \in 1..Len(deliveries) : ~Sends(d)
    BY <2>1 DEF Sends, loadForSend, recordOutcome, ruleVars
  <2>6. applyBreaches
    BY <2>2, <2>3, <2>4, <2>5 DEF AlertsNext
  <2> QED
    BY <2>1, <2>6 DEF applyBreaches, evaluateClear
<1>3. PICK now, i : now = evaluation.minute /\ i = Breached(now)
  OBVIOUS
<1>4. now \in Nat /\ i.notifiedAt = incident.notifiedAt /\ Announces(i, now) /\ noticedAt' = now
  <2>1. now \in Nat
    BY <1>3 DEF AlertsInv, AlertsTyped
  <2>2. i.notifiedAt = incident.notifiedAt
    BY <1>3, <2>1, BreachRows
  <2> QED
    BY <1>1, <1>2, <1>3, <2>1, <2>2 DEF evaluateBreach
<1>5. incident.notifiedAt = 0 /\ ~CoolingDown(now)
  BY <1>4 DEF Announces
<1>6. PICK j \in 1..Len(resolvedOnes) : LastKept(j)
  BY <1>1, <1>5 DEF AlertsInv, NoticeKept
<1>7. Len(resolvedOnes) \in Nat /\ NoticeWindow \in Nat /\ noticedAt \in Nat /\ CooldownMinutes \in Nat
  BY AlertsAssumption DEF AlertsInv, AlertsTyped
<1> SUFFICES ASSUME NEW k \in 1..Len(resolvedOnes), resolvedOnes[k] # 0, Len(resolvedOnes) - k + 1 < NoticeWindow
             PROVE  FALSE
  BY DEF NoticedLately
<1>8. k <= j
  BY <1>6, <1>7 DEF LastKept
<1>9. j \in Considered
  BY <1>7, <1>8 DEF Considered
<1> QED
  BY <1>1, <1>4, <1>5, <1>6, <1>7, <1>9 DEF CoolingDown, LastKept

(* No edit, mute, late evaluation or turning off and on shortens the cooldown  *)
(* between two announcements, as long as lastFiringNotice still looks at the   *)
(* incident of the first (alerts.ts), for any lengths, windows and edits.      *)
THEOREM CooldownStaysKept == AlertsSpec => CooldownKeptNearby
<1>1. AlertsInv /\ [AlertsNext]_alertVars => [TooSoon => ~NoticedLately]_alertVars
  BY AnnouncedInTime
<1> QED
  BY <1>1, AlertsInitInv, AlertsNextInv, PTL DEF AlertsSpec, CooldownKeptNearby

-----------------------------------------------------------------------------
(* LegacyJobs. The rows of jobs and commands, before and after a webhook is    *)
(* adopted, fit each other: an assigned job is charged where its command is,   *)
(* runner names are not used again, and a command that is still to run belongs *)
(* to a job that waits for it. `apart` are the jobs a late issueJit has failed *)
(* in place of its own command.                                                *)

JobRow ==
  [st : {"absent", "queued", "assigned", "running", "ended"}, m : Hosts \cup {NoOne},
   r : Runners \cup {NoOne}, n : Nat, bad : Hosts \cup {NoOne}]
CommandRow ==
  [st : {"none", "pending", "claimed", "finished", "cancelled", "deleted"}, job : Jobs,
   m : Hosts \cup {NoOne}, jit : BOOLEAN, id : BOOLEAN]

CommandFits(row, c, r) ==
  /\ row.st \in {"assigned", "running", "ended"}
  /\ row.st = "assigned" => row.r = r /\ row.m = c.m
  /\ c.st \in {"pending", "claimed"} => row.st # "ended" /\ row.r = r

RowsTyped(js, cs) == js \in [Jobs -> JobRow] /\ cs \in [Runners -> CommandRow]
ChargedOnly(js) == \A i \in Jobs : js[i].st \notin {"assigned", "running"} => js[i].m = NoOne
NamesSpent(js, cs) ==
  \A k \in Runners : cs[k].st # "none" => js[k[1]].st = "ended" \/ k[2] <= js[k[1]].n
CancelledOver(js, cs) == \A k \in Runners : cs[k].st = "cancelled" => js[cs[k].job].st = "ended"
CommandsFit(js, cs, apart) ==
  \A k \in Runners :
    cs[k].st \in {"pending", "claimed", "finished"} /\ cs[k].job \notin apart
      => CommandFits(js[cs[k].job], cs[k], k)
RowsFit(js, cs, apart) ==
  /\ RowsTyped(js, cs) /\ ChargedOnly(js) /\ NamesSpent(js, cs) /\ CancelledOver(js, cs)
  /\ CommandsFit(js, cs, apart)

Holding(js, h) == {i \in Jobs : js[i].st \in {"assigned", "running"} /\ js[i].m = h}
Charged(js, u) == \A h \in Hosts : u[h] = Cardinality(Holding(js, h))
SlotsFit(js, u, apart) == u \in [Hosts -> Nat] /\ (apart = {} => Charged(js, u))

JobsInv ==
  /\ RowsFit(jobs, cmd, misled)
  /\ SlotsFit(jobs, used, misled)
  /\ misled \subseteq Jobs
  /\ inbox \subseteq [a : {"queued", "in_progress", "completed"}, j : Jobs, r : Runners \cup {NoOne}]

In(row, h) == IF row.st \in {"assigned", "running"} /\ row.m = h THEN 1 ELSE 0

Elsewhere(js, js2, some) == \A i \in Jobs \ some : js2[i] = js[i]
ChargedAlike(row, other) == \A h \in Hosts : In(row, h) = In(other, h)

(* The jobs on a machine are one of them and the others.                       *)
LEMMA HoldingSplit ==
  ASSUME NEW js, NEW h, NEW j \in Jobs
  PROVE  /\ IsFiniteSet(Holding(js, h) \ {j}) /\ Cardinality(Holding(js, h) \ {j}) \in Nat
         /\ Cardinality(Holding(js, h)) = Cardinality(Holding(js, h) \ {j}) + In(js[j], h)
<1>1. IsFiniteSet(Holding(js, h))
  BY JobsAssumption, FS_Subset DEF Holding
<1>2. IsFiniteSet(Holding(js, h) \ {j}) /\ Cardinality(Holding(js, h) \ {j}) \in Nat
  BY <1>1, FS_RemoveElement, FS_CardinalityType, FS_Subset
<1>3. CASE j \in Holding(js, h)
  <2>1. Cardinality(Holding(js, h) \ {j}) = Cardinality(Holding(js, h)) - 1
    BY <1>1, <1>3, FS_RemoveElement
  <2>2. Cardinality(Holding(js, h)) \in Nat /\ In(js[j], h) = 1
    BY <1>1, <1>3, FS_CardinalityType DEF Holding, In
  <2> QED
    BY <1>2, <2>1, <2>2
<1>4. CASE j \notin Holding(js, h)
  <2>1. Holding(js, h) \ {j} = Holding(js, h) /\ In(js[j], h) = 0
    BY <1>4 DEF Holding, In
  <2> QED
    BY <1>2, <2>1
<1> QED
  BY <1>2, <1>3, <1>4

MovedBy(js, js2, j, h) ==
  /\ Cardinality(Holding(js, h)) \in Nat /\ In(js[j], h) \in {0, 1} /\ In(js2[j], h) \in {0, 1}
  /\ Cardinality(Holding(js2, h)) = Cardinality(Holding(js, h)) - In(js[j], h) + In(js2[j], h)
  /\ Cardinality(Holding(js, h)) >= In(js[j], h)

(* Changing one row changes the count of a machine by what that row holds.     *)
LEMMA OneRowMoves ==
  ASSUME NEW js, NEW js2, NEW j \in Jobs, Elsewhere(js, js2, {j}), NEW h
  PROVE  MovedBy(js, js2, j, h)
<1>1. Holding(js2, h) \ {j} = Holding(js, h) \ {j}
  BY DEF Holding, Elsewhere
<1>2. In(js[j], h) \in {0, 1} /\ In(js2[j], h) \in {0, 1}
  BY DEF In
<1>3. /\ Cardinality(Holding(js, h) \ {j}) \in Nat
      /\ Cardinality(Holding(js, h)) = Cardinality(Holding(js, h) \ {j}) + In(js[j], h)
  BY HoldingSplit
<1>4. Cardinality(Holding(js2, h)) = Cardinality(Holding(js2, h) \ {j}) + In(js2[j], h)
  BY HoldingSplit
<1> QED
  BY <1>1, <1>2, <1>3, <1>4 DEF MovedBy

(* Changing two rows that hold as much between them leaves the counts alone.   *)
LEMMA TwoRowsMove ==
  ASSUME NEW js, NEW js2, NEW j \in Jobs, NEW p \in Jobs, j # p,
         Elsewhere(js, js2, {j, p}), NEW h,
         In(js2[j], h) + In(js2[p], h) = In(js[j], h) + In(js[p], h)
  PROVE  Cardinality(Holding(js2, h)) = Cardinality(Holding(js, h))
<1>1. PICK mid : mid = [i \in Jobs |-> IF i = j THEN js2[j] ELSE js[i]]
  OBVIOUS
<1>2. Elsewhere(js, mid, {j}) /\ Elsewhere(mid, js2, {p})
      /\ mid[j] = js2[j] /\ mid[p] = js[p]
  BY <1>1 DEF Elsewhere
<1>3. MovedBy(js, mid, j, h)
  BY <1>2, OneRowMoves
<1>4. MovedBy(mid, js2, p, h)
  BY <1>2, OneRowMoves
<1> QED
  BY <1>2, <1>3, <1>4 DEF MovedBy

(* A row that is charged nowhere new: its slot is freed, or nothing is.        *)
LEMMA SlotFreed ==
  ASSUME NEW js \in [Jobs -> JobRow], NEW js2, NEW j \in Jobs, Elsewhere(js, js2, {j}),
         js2[j].st \in {"queued", "ended"} /\ js2[j].m = NoOne,
         ChargedOnly(js), NEW u, NEW apart, SlotsFit(js, u, apart)
  PROVE  SlotsFit(js2, Freed(u, js[j].m), apart)
<1>1. Freed(u, js[j].m) \in [Hosts -> Nat]
  BY DEF Freed, SlotsFit, JobRow
<1>2. ASSUME Charged(js, u), NEW h \in Hosts
      PROVE  Freed(u, js[j].m)[h] = Cardinality(Holding(js2, h))
  <2>1. In(js2[j], h) = 0 /\ (In(js[j], h) = 1 <=> js[j].m = h)
    BY JobsAssumption DEF In, ChargedOnly
  <2>2. /\ Cardinality(Holding(js2, h)) = Cardinality(Holding(js, h)) - In(js[j], h)
        /\ Cardinality(Holding(js, h)) \in Nat /\ In(js[j], h) \in {0, 1}
        /\ Cardinality(Holding(js, h)) >= In(js[j], h)
    <3>1. /\ Cardinality(Holding(js2, h)) = Cardinality(Holding(js, h)) - In(js[j], h) + In(js2[j], h)
          /\ Cardinality(Holding(js, h)) \in Nat /\ In(js[j], h) \in {0, 1}
          /\ Cardinality(Holding(js, h)) >= In(js[j], h)
      BY OneRowMoves DEF MovedBy
    <3> QED
      BY <2>1, <3>1
  <2>3. u \in [Hosts -> Nat] /\ u[h] = Cardinality(Holding(js, h))
    BY <1>2 DEF Charged, SlotsFit
  <2>4. CASE js[j].m = h
    BY <2>1, <2>2, <2>3, <2>4, JobsAssumption DEF Freed
  <2>5. CASE js[j].m # h
    BY <2>1, <2>2, <2>3, <2>5 DEF Freed
  <2> QED
    BY <2>4, <2>5
<1> QED
  BY <1>1, <1>2 DEF SlotsFit, Charged

(* A row that goes on holding what it held.                                    *)
LEMMA SlotKept ==
  ASSUME NEW js, NEW js2, NEW j \in Jobs, Elsewhere(js, js2, {j}),
         NEW u, NEW apart, SlotsFit(js, u, apart),
         apart = {} => ChargedAlike(js2[j], js[j])
  PROVE  SlotsFit(js2, u, apart)
<1>1. ASSUME NEW h \in Hosts, In(js2[j], h) = In(js[j], h)
      PROVE  Cardinality(Holding(js2, h)) = Cardinality(Holding(js, h))
  <2>1. /\ Cardinality(Holding(js2, h)) = Cardinality(Holding(js, h)) - In(js[j], h) + In(js2[j], h)
        /\ Cardinality(Holding(js, h)) \in Nat /\ In(js[j], h) \in {0, 1}
    BY OneRowMoves DEF MovedBy
  <2> QED
    BY <1>1, <2>1
<1> QED
  BY <1>1 DEF SlotsFit, Charged, ChargedAlike

(* Two rows that exchange what they hold.                                      *)
LEMMA SlotsExchanged ==
  ASSUME NEW js, NEW js2, NEW j \in Jobs, NEW p \in Jobs, j # p,
         Elsewhere(js, js2, {j, p}), NEW u, NEW apart, SlotsFit(js, u, apart),
         apart = {} => ChargedAlike(js2[j], js[p]) /\ ChargedAlike(js2[p], js[j])
  PROVE  SlotsFit(js2, u, apart)
<1>1. ASSUME NEW h \in Hosts, In(js2[j], h) = In(js[p], h) /\ In(js2[p], h) = In(js[j], h)
      PROVE  Cardinality(Holding(js2, h)) = Cardinality(Holding(js, h))
  <2>1. In(js[p], h) \in {0, 1} /\ In(js[j], h) \in {0, 1}
    BY DEF In
  <2>2. In(js2[j], h) + In(js2[p], h) = In(js[j], h) + In(js[p], h)
    BY <1>1, <2>1
  <2> QED
    BY <2>2, TwoRowsMove
<1> QED
  BY <1>1 DEF SlotsFit, Charged, ChargedAlike

LEMMA AtMostTransitive ==
  ASSUME NEW a \in Nat, NEW b \in Nat, NEW c \in Nat, a <= b, b <= c
  PROVE  a <= c
OBVIOUS

StartedAs(new, row, r) ==
  new \in JobRow /\ new.st = "running" /\ new.m = cmd[r].m /\ new.r = r /\ row.n <= new.n

LEMMA StartedRow ==
  ASSUME NEW row \in JobRow, NEW r \in Runners, cmd \in [Runners -> CommandRow]
  PROVE  StartedAs(Started(row, r, TRUE), row, r) /\ StartedAs(Started(row, r, FALSE), row, r)
<1>1. cmd[r].m \in Hosts \cup {NoOne}
  BY DEF CommandRow
<1>2. row.n \in Nat /\ row.n + 1 \in Nat /\ row.n <= row.n + 1 /\ row.n <= row.n
  BY DEF JobRow
<1>3. Started(row, r, TRUE) = [row EXCEPT !.st = "running", !.m = cmd[r].m, !.r = r]
  BY DEF Started, JobRow
<1>4. Started(row, r, FALSE) = [row EXCEPT !.st = "running", !.m = cmd[r].m, !.r = r, !.n = row.n + 1]
  BY DEF Started, JobRow
<1>5. StartedAs(Started(row, r, TRUE), row, r)
  BY <1>1, <1>2, <1>3 DEF StartedAs, JobRow
<1> QED
  BY <1>1, <1>2, <1>4, <1>5 DEF StartedAs, JobRow

OwnStarts(js, j, r) == [js EXCEPT ![j] = Started(@, r, TRUE)]
Exchanged(js, j, r, p, q) == [js EXCEPT ![j] = Started(@, r, FALSE), ![p].m = cmd[q].m, ![p].r = q]
Displaced(js, j, r, p) ==
  [js EXCEPT ![j] = Started(@, r, FALSE), ![p].st = "queued", ![p].m = NoOne, ![p].r = NoOne]
TakenOver(j, r) == Discarded([cmd EXCEPT ![r].job = j], CommandsOf(j))

(* The runner's own job starts on it: it is charged where it was.              *)
LEMMA OwnAdopted ==
  ASSUME NEW js, NEW r \in Runners, NEW j \in Jobs, RowsFit(js, cmd, misled), SlotsFit(js, used, misled),
         cmd[r].job = j, js[j].st = "assigned", cmd[r].st \in {"pending", "claimed", "finished"}
  PROVE  RowsFit(OwnStarts(js, j, r), cmd, misled) /\ SlotsFit(OwnStarts(js, j, r), used, misled)
<1>0. PICK js2 : js2 = OwnStarts(js, j, r)
  OBVIOUS
<1>1. js \in [Jobs -> JobRow] /\ cmd \in [Runners -> CommandRow] /\ js[j] \in JobRow
      /\ ChargedOnly(js) /\ NamesSpent(js, cmd) /\ CancelledOver(js, cmd) /\ CommandsFit(js, cmd, misled)
  BY DEF RowsFit, RowsTyped
<1>2. /\ js2 \in [Jobs -> JobRow] /\ (\A i \in Jobs \ {j} : js2[i] = js[i])
      /\ js2[j].st = "running" /\ js2[j].m = cmd[r].m /\ js2[j].r = r /\ js[j].n <= js2[j].n
      /\ js[j].n \in Nat /\ js2[j].n \in Nat
  <2>1. js2[j] = Started(js[j], r, TRUE) /\ (\A i \in Jobs \ {j} : js2[i] = js[i])
    BY <1>0, <1>1 DEF OwnStarts
  <2>2. js2 \in [Jobs -> JobRow]
    BY <1>0, <1>1, <2>1, StartedRow DEF StartedAs, OwnStarts
  <2>3. js[j].n \in Nat /\ js2[j].n \in Nat
    BY <1>1, <2>2 DEF JobRow
  <2>4. js2[j].st = "running" /\ js2[j].m = cmd[r].m /\ js2[j].r = r /\ js[j].n <= js2[j].n
    <3>1. StartedAs(Started(js[j], r, TRUE), js[j], r)
      BY <1>1, StartedRow
    <3> QED
      BY <2>1, <3>1 DEF StartedAs
  <2> QED
    BY <2>1, <2>2, <2>3, <2>4
<1>3. \A k \in Runners : k[1] \in Jobs /\ k[2] \in Nat /\ cmd[k].job \in Jobs
  BY <1>1, JobsAssumption DEF CommandRow
<1>4. ChargedOnly(js2) /\ CancelledOver(js2, cmd)
  BY <1>1, <1>2, <1>3 DEF ChargedOnly, CancelledOver
<1>5. NamesSpent(js2, cmd)
  <2> SUFFICES ASSUME NEW k \in Runners, cmd[k].st # "none"
               PROVE  js2[k[1]].st = "ended" \/ k[2] <= js2[k[1]].n
    BY DEF NamesSpent
  <2>1. js[k[1]].st = "ended" \/ k[2] <= js[k[1]].n
    BY <1>1 DEF NamesSpent
  <2>2. CASE k[1] = j
    <3>1. k[2] \in Nat /\ k[2] <= js[j].n
      BY <1>3, <2>1, <2>2
    <3>2. js[j].n <= js2[j].n /\ js[j].n \in Nat /\ js2[j].n \in Nat
      BY <1>2
    <3>3. k[2] <= js2[j].n
      BY <3>1, <3>2, AtMostTransitive
    <3> QED
      BY <2>2, <3>3
  <2>3. CASE k[1] # j
    BY <1>2, <1>3, <2>1, <2>3
  <2> QED
    BY <2>2, <2>3
<1>6. CommandsFit(js2, cmd, misled)
  <2> SUFFICES ASSUME NEW k \in Runners, cmd[k].st \in {"pending", "claimed", "finished"}, cmd[k].job \notin misled
               PROVE  CommandFits(js2[cmd[k].job], cmd[k], k)
    BY DEF CommandsFit
  <2>1. CommandFits(js[cmd[k].job], cmd[k], k)
    BY <1>1 DEF CommandsFit
  <2>2. CommandFits(js[j], cmd[k], k) => k = js[j].r
    BY DEF CommandFits
  <2>3. j \notin misled => r = js[j].r
    BY <1>1 DEF CommandsFit, CommandFits
  <2> QED
    BY <1>2, <1>3, <2>1, <2>2, <2>3 DEF CommandFits
<1>7. SlotsFit(js2, used, misled)
  <2>1. misled = {} => js[j].m = cmd[r].m
    BY <1>1 DEF CommandsFit, CommandFits
  <2>2. misled = {} => ChargedAlike(js2[j], js[j])
    BY <1>2, <2>1 DEF In, ChargedAlike
  <2>3. Elsewhere(js, js2, {j})
    BY <1>2 DEF Elsewhere
  <2> QED
    BY <2>2, <2>3, SlotKept
<1> QED
  BY <1>0, <1>1, <1>2, <1>4, <1>5, <1>6, <1>7 DEF RowsFit, RowsTyped

(* Two jobs that wait for a runner change theirs, slots and all.               *)
LEMMA SwapAdopted ==
  ASSUME NEW js, NEW r \in Runners, NEW q \in Runners, NEW j \in Jobs, NEW p \in Jobs, j # p,
         RowsFit(js, cmd, misled), SlotsFit(js, used, misled),
         cmd[r].job = p, js[p].st = "assigned", cmd[r].st \in {"pending", "claimed", "finished"},
         js[j].st = "assigned", q = js[j].r, cmd[q].m = js[j].m, cmd[q].job = j, LiveCommand(cmd, q)
  PROVE  /\ RowsFit(Exchanged(js, j, r, p, q), Swapped(r, j, q, p), misled)
         /\ SlotsFit(Exchanged(js, j, r, p, q), used, misled)
<1>0. PICK js2, cs2 : js2 = Exchanged(js, j, r, p, q) /\ cs2 = Swapped(r, j, q, p)
  OBVIOUS
<1>1. js \in [Jobs -> JobRow] /\ cmd \in [Runners -> CommandRow] /\ js[j] \in JobRow /\ js[p] \in JobRow
      /\ ChargedOnly(js) /\ NamesSpent(js, cmd) /\ CancelledOver(js, cmd) /\ CommandsFit(js, cmd, misled)
      /\ r # q
  BY DEF RowsFit, RowsTyped
<1>2. /\ js2 \in [Jobs -> JobRow] /\ (\A i \in Jobs \ {j, p} : js2[i] = js[i])
      /\ js2[j].st = "running" /\ js2[j].m = cmd[r].m /\ js2[j].r = r /\ js[j].n <= js2[j].n
      /\ js2[p].st = "assigned" /\ js2[p].m = cmd[q].m /\ js2[p].r = q /\ js2[p].n = js[p].n
      /\ js[j].n \in Nat /\ js2[j].n \in Nat
  <2>1. /\ js2[j] = Started(js[j], r, FALSE) /\ (\A i \in Jobs \ {j, p} : js2[i] = js[i])
        /\ js2[p] = [js[p] EXCEPT !.m = cmd[q].m, !.r = q]
    BY <1>0, <1>1 DEF Exchanged
  <2>2. js2[p] \in JobRow /\ js2[p].st = "assigned" /\ js2[p].m = cmd[q].m /\ js2[p].r = q /\ js2[p].n = js[p].n
    <3>1. cmd[q].m \in Hosts \cup {NoOne}
      BY <1>1 DEF CommandRow
    <3> QED
      BY <1>1, <2>1, <3>1 DEF JobRow
  <2>3. js2[j] \in JobRow
    <3>1. StartedAs(Started(js[j], r, FALSE), js[j], r)
      BY <1>1, StartedRow
    <3> QED
      BY <2>1, <3>1 DEF StartedAs
  <2>4. js2 \in [Jobs -> JobRow]
    <3>1. \A i \in Jobs : js2[i] \in JobRow
      <4>1. \A i \in Jobs \ {j, p} : js2[i] \in JobRow
        BY <1>1, <2>1
      <4> QED
        BY <2>2, <2>3, <4>1
    <3>2. DOMAIN js2 = Jobs /\ js2 = [i \in Jobs |-> js2[i]]
      BY <1>0, <1>1 DEF Exchanged
    <3> QED
      BY <3>1, <3>2
  <2>5. js[j].n \in Nat /\ js2[j].n \in Nat
    BY <1>1, <2>3 DEF JobRow
  <2>6. js2[j].st = "running" /\ js2[j].m = cmd[r].m /\ js2[j].r = r /\ js[j].n <= js2[j].n
    <3>1. StartedAs(Started(js[j], r, FALSE), js[j], r)
      BY <1>1, StartedRow
    <3> QED
      BY <2>1, <3>1 DEF StartedAs
  <2> QED
    BY <2>1, <2>2, <2>4, <2>5, <2>6
<1>3. \A k \in Runners : k[1] \in Jobs /\ k[2] \in Nat /\ cmd[k].job \in Jobs
  BY <1>1, JobsAssumption DEF CommandRow
<1>4. /\ cs2 \in [Runners -> CommandRow] /\ cs2[r].job = j /\ cs2[q].job = p
      /\ (\A k \in Runners \ {r, q} : cs2[k] = cmd[k])
      /\ \A k \in Runners : cs2[k].st = cmd[k].st /\ cs2[k].m = cmd[k].m
  BY <1>0, <1>1 DEF Swapped, CommandRow
<1>5. ChargedOnly(js2) /\ CancelledOver(js2, cs2)
  <2>1. ChargedOnly(js2)
    BY <1>1, <1>2 DEF ChargedOnly
  <2>2. ASSUME NEW k \in Runners, cs2[k].st = "cancelled"  PROVE js2[cs2[k].job].st = "ended"
    <3>1. k # r /\ k # q
      BY <1>4, <2>2 DEF LiveCommand
    <3>2. js[cmd[k].job].st = "ended" /\ cs2[k].job = cmd[k].job
      BY <1>1, <1>4, <2>2, <3>1 DEF CancelledOver
    <3>3. cmd[k].job \in Jobs \ {j, p}
      BY <1>3, <3>2
    <3> QED
      BY <1>2, <3>2, <3>3
  <2> QED
    BY <2>1, <2>2 DEF CancelledOver
<1>6. NamesSpent(js2, cs2)
  <2> SUFFICES ASSUME NEW k \in Runners, cs2[k].st # "none"
               PROVE  js2[k[1]].st = "ended" \/ k[2] <= js2[k[1]].n
    BY DEF NamesSpent
  <2>1. js[k[1]].st = "ended" \/ k[2] <= js[k[1]].n
    BY <1>1, <1>4 DEF NamesSpent
  <2>2. CASE k[1] = j
    <3>1. k[2] \in Nat /\ k[2] <= js[j].n
      BY <1>3, <2>1, <2>2
    <3>2. js[j].n <= js2[j].n /\ js[j].n \in Nat /\ js2[j].n \in Nat
      BY <1>2
    <3>3. k[2] <= js2[j].n
      BY <3>1, <3>2, AtMostTransitive
    <3> QED
      BY <2>2, <3>3
  <2>3. CASE k[1] = p
    BY <1>2, <1>3, <2>1, <2>3
  <2>4. CASE k[1] \notin {j, p}
    BY <1>2, <1>3, <2>1, <2>4
  <2> QED
    BY <2>2, <2>3, <2>4
<1>7. CommandsFit(js2, cs2, misled)
  <2> SUFFICES ASSUME NEW k \in Runners, cs2[k].st \in {"pending", "claimed", "finished"}, cs2[k].job \notin misled
               PROVE  CommandFits(js2[cs2[k].job], cs2[k], k)
    BY DEF CommandsFit
  <2>1. CASE k = r
    BY <1>1, <1>2, <1>4, <2>1 DEF CommandFits
  <2>2. CASE k = q
    BY <1>1, <1>2, <1>4, <2>2 DEF CommandFits
  <2>3. CASE k # r /\ k # q
    <3>1. CommandFits(js[cmd[k].job], cmd[k], k) /\ cs2[k] = cmd[k]
      BY <1>1, <1>4, <2>3 DEF CommandsFit
    <3>2. cmd[k].job # j
      BY <2>3, <3>1 DEF CommandFits
    <3>3. cmd[k].job # p
      <4>1. p \notin misled => r = js[p].r
        BY <1>1 DEF CommandsFit, CommandFits
      <4> QED
        BY <2>3, <3>1, <4>1 DEF CommandFits
    <3> QED
      BY <1>2, <1>3, <3>1, <3>2, <3>3
  <2> QED
    BY <2>1, <2>2, <2>3
<1>8. SlotsFit(js2, used, misled)
  <2>1. misled = {} => js[p].m = cmd[r].m
    BY <1>1 DEF CommandsFit, CommandFits
  <2>2. misled = {} => ChargedAlike(js2[j], js[p]) /\ ChargedAlike(js2[p], js[j])
    BY <1>2, <2>1 DEF In, ChargedAlike
  <2>3. Elsewhere(js, js2, {j, p})
    BY <1>2 DEF Elsewhere
  <2> QED
    BY <2>2, <2>3, SlotsExchanged
<1> QED
  BY <1>0, <1>2, <1>4, <1>5, <1>6, <1>7, <1>8 DEF RowsFit, RowsTyped

(* A job takes the runner of another, which goes back to the queue; the        *)
(* commands and the slot of the first are given up.                            *)
LEMMA DisplacedAdopted ==
  ASSUME NEW js, NEW r \in Runners, NEW j \in Jobs, NEW p \in Jobs, j # p,
         RowsFit(js, cmd, misled), SlotsFit(js, used, misled),
         cmd[r].job = p, js[p].st = "assigned", cmd[r].st \in {"pending", "claimed", "finished"},
         js[j].st # "ended", js[j].st = "running" => js[j].m = NoOne
  PROVE  /\ RowsFit(Displaced(js, j, r, p), TakenOver(j, r), misled)
         /\ SlotsFit(Displaced(js, j, r, p), SlotsAfter(js, j), misled)
<1>0. PICK js2, cs2 : js2 = Displaced(js, j, r, p) /\ cs2 = TakenOver(j, r)
  OBVIOUS
<1>1. js \in [Jobs -> JobRow] /\ cmd \in [Runners -> CommandRow] /\ js[j] \in JobRow /\ js[p] \in JobRow
      /\ ChargedOnly(js) /\ NamesSpent(js, cmd) /\ CancelledOver(js, cmd) /\ CommandsFit(js, cmd, misled)
  BY DEF RowsFit, RowsTyped
<1>2. /\ js2 \in [Jobs -> JobRow] /\ (\A i \in Jobs \ {j, p} : js2[i] = js[i])
      /\ js2[j].st = "running" /\ js2[j].m = cmd[r].m /\ js2[j].r = r /\ js[j].n <= js2[j].n
      /\ js2[p].st = "queued" /\ js2[p].m = NoOne /\ js2[p].n = js[p].n
      /\ js[j].n \in Nat /\ js2[j].n \in Nat
  <2>1. /\ js2[j] = Started(js[j], r, FALSE) /\ (\A i \in Jobs \ {j, p} : js2[i] = js[i])
        /\ js2[p] = [js[p] EXCEPT !.st = "queued", !.m = NoOne, !.r = NoOne]
    BY <1>0, <1>1 DEF Displaced
  <2>2. js2[p] \in JobRow /\ js2[p].st = "queued" /\ js2[p].m = NoOne /\ js2[p].n = js[p].n
    BY <1>1, <2>1 DEF JobRow
  <2>3. js2[j] \in JobRow
    <3>1. StartedAs(Started(js[j], r, FALSE), js[j], r)
      BY <1>1, StartedRow
    <3> QED
      BY <2>1, <3>1 DEF StartedAs
  <2>4. js2 \in [Jobs -> JobRow]
    <3>1. \A i \in Jobs : js2[i] \in JobRow
      <4>1. \A i \in Jobs \ {j, p} : js2[i] \in JobRow
        BY <1>1, <2>1
      <4> QED
        BY <2>2, <2>3, <4>1
    <3>2. DOMAIN js2 = Jobs /\ js2 = [i \in Jobs |-> js2[i]]
      BY <1>0, <1>1 DEF Displaced
    <3> QED
      BY <3>1, <3>2
  <2>5. js[j].n \in Nat /\ js2[j].n \in Nat
    BY <1>1, <2>3 DEF JobRow
  <2>6. js2[j].st = "running" /\ js2[j].m = cmd[r].m /\ js2[j].r = r /\ js[j].n <= js2[j].n
    <3>1. StartedAs(Started(js[j], r, FALSE), js[j], r)
      BY <1>1, StartedRow
    <3> QED
      BY <2>1, <3>1 DEF StartedAs
  <2> QED
    BY <2>1, <2>2, <2>4, <2>5, <2>6
<1>3. \A k \in Runners : k[1] \in Jobs /\ k[2] \in Nat /\ cmd[k].job \in Jobs
  BY <1>1, JobsAssumption DEF CommandRow
<1>4. /\ cs2 \in [Runners -> CommandRow]
      /\ \A k \in Runners : cmd[k].job = j /\ cmd[k].st \notin {"none", "deleted"} => cs2[k].st = "deleted"
      /\ \A k \in Runners \ {r} : ~(cmd[k].job = j /\ cmd[k].st \notin {"none", "deleted"}) => cs2[k] = cmd[k]
      /\ cs2[r].job = j /\ cs2[r].st = cmd[r].st /\ cs2[r].m = cmd[r].m
  <2>1. \A k \in Runners : k \in CommandsOf(j) <=> cmd[k].job = j /\ cmd[k].st \notin {"none", "deleted"}
    BY DEF CommandsOf
  <2>2. r \notin CommandsOf(j)
    BY <2>1
  <2>3. \A k \in CommandsOf(j) : cs2[k] = [NoCommand(k) EXCEPT !.st = "deleted"]
    BY <1>0 DEF TakenOver, Discarded, CommandsOf
  <2>4. \A k \in Runners \ {r} : k \notin CommandsOf(j) => cs2[k] = cmd[k]
    BY <1>0, <1>1 DEF TakenOver, Discarded
  <2>5. cs2[r] = [cmd[r] EXCEPT !.job = j]
    BY <1>0, <1>1, <2>2 DEF TakenOver, Discarded
  <2>6. \A k \in CommandsOf(j) : cs2[k] \in CommandRow /\ cs2[k].st = "deleted"
    BY <1>3, <2>3 DEF NoCommand, CommandRow, CommandsOf
  <2>7. cs2[r] \in CommandRow /\ cs2[r].job = j /\ cs2[r].st = cmd[r].st /\ cs2[r].m = cmd[r].m
    BY <1>1, <2>5 DEF CommandRow
  <2>8. \A k \in Runners : cs2[k] \in CommandRow
    BY <1>1, <2>4, <2>6, <2>7
  <2>9. cs2 \in [Runners -> CommandRow]
    BY <1>0, <2>8 DEF TakenOver, Discarded
  <2> QED
    BY <2>1, <2>4, <2>6, <2>7, <2>9
<1>5. ChargedOnly(js2)
  BY <1>1, <1>2 DEF ChargedOnly
<1>6. CancelledOver(js2, cs2)
  <2> SUFFICES ASSUME NEW k \in Runners, cs2[k].st = "cancelled"  PROVE js2[cs2[k].job].st = "ended"
    BY DEF CancelledOver
  <2>1. cs2[k] = cmd[k]
    BY <1>4
  <2>2. js[cmd[k].job].st = "ended"
    BY <1>1, <2>1 DEF CancelledOver
  <2>3. cmd[k].job \in Jobs \ {j, p}
    BY <1>3, <2>2
  <2> QED
    BY <1>2, <2>1, <2>2, <2>3
<1>7. NamesSpent(js2, cs2)
  <2> SUFFICES ASSUME NEW k \in Runners, cs2[k].st # "none"
               PROVE  js2[k[1]].st = "ended" \/ k[2] <= js2[k[1]].n
    BY DEF NamesSpent
  <2>0. cmd[k].st # "none"
    BY <1>4
  <2>1. js[k[1]].st = "ended" \/ k[2] <= js[k[1]].n
    BY <1>1, <2>0 DEF NamesSpent
  <2>2. CASE k[1] = j
    <3>1. k[2] \in Nat /\ k[2] <= js[j].n
      BY <1>3, <2>1, <2>2
    <3>2. js[j].n <= js2[j].n /\ js[j].n \in Nat /\ js2[j].n \in Nat
      BY <1>2
    <3>3. k[2] <= js2[j].n
      BY <3>1, <3>2, AtMostTransitive
    <3> QED
      BY <2>2, <3>3
  <2>3. CASE k[1] = p
    BY <1>2, <1>3, <2>1, <2>3
  <2>4. CASE k[1] \notin {j, p}
    BY <1>2, <1>3, <2>1, <2>4
  <2> QED
    BY <2>2, <2>3, <2>4
<1>8. CommandsFit(js2, cs2, misled)
  <2> SUFFICES ASSUME NEW k \in Runners, cs2[k].st \in {"pending", "claimed", "finished"}, cs2[k].job \notin misled
               PROVE  CommandFits(js2[cs2[k].job], cs2[k], k)
    BY DEF CommandsFit
  <2>1. CASE k = r
    BY <1>2, <1>4, <2>1 DEF CommandFits
  <2>2. CASE k # r
    <3>1. cs2[k] = cmd[k] /\ cmd[k].job # j
      BY <1>4, <2>2
    <3>2. CommandFits(js[cmd[k].job], cmd[k], k)
      BY <1>1, <3>1 DEF CommandsFit
    <3>3. cmd[k].job # p
      <4>1. p \notin misled => r = js[p].r
        BY <1>1 DEF CommandsFit, CommandFits
      <4> QED
        BY <2>2, <3>1, <3>2, <4>1 DEF CommandFits
    <3> QED
      BY <1>2, <1>3, <3>1, <3>2, <3>3
  <2> QED
    BY <2>1, <2>2
<1>9. SlotsFit(js2, SlotsAfter(js, j), misled)
  <2>1. SlotsAfter(js, j) = Freed(used, js[j].m)
    BY <1>1 DEF SlotsAfter, Freed, ChargedOnly
  <2>2. PICK mid : mid = [js EXCEPT ![j] = EndedRow]
    OBVIOUS
  <2>3. mid[j].st = "ended" /\ mid[j].m = NoOne /\ mid[p] = js[p] /\ Elsewhere(js, mid, {j})
        /\ Elsewhere(mid, js2, {j, p})
    BY <1>1, <1>2, <2>2 DEF EndedRow, Absent, Elsewhere
  <2>4. SlotsFit(mid, Freed(used, js[j].m), misled)
    BY <1>1, <2>3, SlotFreed
  <2>5. misled = {} => js[p].m = cmd[r].m
    BY <1>1 DEF CommandsFit, CommandFits
  <2>6. misled = {} => ChargedAlike(js2[j], mid[p])
    BY <1>2, <2>3, <2>5 DEF In, ChargedAlike
  <2>7. ChargedAlike(js2[p], mid[j])
    BY <1>2, <2>3 DEF In, ChargedAlike
  <2>8. Elsewhere(mid, js2, {j, p})
    BY <2>3
  <2>9. SlotsFit(js2, Freed(used, js[j].m), misled)
    BY <2>4, <2>6, <2>7, <2>8, SlotsExchanged
  <2> QED
    BY <2>1, <2>9
<1> QED
  BY <1>0, <1>2, <1>4, <1>5, <1>6, <1>7, <1>8, <1>9 DEF RowsFit, RowsTyped

TablesFit(t) ==
  /\ t = [job |-> t.job, cmd |-> t.cmd, used |-> t.used, handed |-> t.handed]
  /\ RowsFit(t.job, t.cmd, misled) /\ SlotsFit(t.job, t.used, misled)

(* adoptRunnerAssignment, whatever it finds.                                   *)
LEMMA AdoptionFits ==
  ASSUME NEW js, NEW j \in Jobs, NEW r \in Runners \cup {NoOne},
         RowsFit(js, cmd, misled), SlotsFit(js, used, misled)
  PROVE  TablesFit(adoptRunnerAssignment(js, j, r))
<1>1. PICK t : t = adoptRunnerAssignment(js, j, r)
  OBVIOUS
<1>2. PICK p : p = cmd[r].job
  OBVIOUS
<1>3. PICK back : back = Crossed(js, j)
  OBVIOUS
<1>4. PICK q : q = CHOOSE e \in back : TRUE
  OBVIOUS
<1>5. CASE ~MayAdopt(js, j, r)
  BY <1>1, <1>5 DEF adoptRunnerAssignment, Tables, TablesFit
<1>6. CASE MayAdopt(js, j, r)
  <2>1. /\ r \in Runners /\ cmd[r].st \in {"pending", "claimed", "finished"} /\ p \in Jobs
        /\ js[p].st = "assigned" /\ js[j].st # "ended"
        /\ (p # j /\ js[j].st = "running") => js[j].m = NoOne
    BY <1>2, <1>6 DEF MayAdopt, RowsFit, RowsTyped, CommandRow
  <2>2. CASE p = j
    <3>1. t = Tables(OwnStarts(js, j, r))
      BY <1>1, <1>2, <1>6, <2>2 DEF adoptRunnerAssignment, OwnStarts
    <3>2. t.job = OwnStarts(js, j, r) /\ t.cmd = cmd /\ t.used = used
          /\ t = [job |-> t.job, cmd |-> t.cmd, used |-> t.used, handed |-> t.handed]
      BY <3>1 DEF Tables
    <3>3. RowsFit(t.job, cmd, misled) /\ SlotsFit(t.job, used, misled)
      BY <1>2, <2>1, <2>2, <3>2, OwnAdopted
    <3> QED
      BY <1>1, <3>2, <3>3 DEF TablesFit
  <2>3. CASE p # j /\ js[j].st = "assigned" /\ back # {}
    <3>1. t = [Tables(Exchanged(js, j, r, p, q))
                 EXCEPT !.cmd = Swapped(r, j, q, p)]
      BY <1>1, <1>2, <1>3, <1>4, <1>6, <2>3 DEF adoptRunnerAssignment, Exchanged
    <3>2. /\ t.job = Exchanged(js, j, r, p, q)
          /\ t.cmd = Swapped(r, j, q, p) /\ t.used = used
          /\ t = [job |-> t.job, cmd |-> t.cmd, used |-> t.used, handed |-> t.handed]
      BY <3>1 DEF Tables
    <3>3. q \in back
      BY <1>4, <2>3
    <3>4. /\ q \in Runners /\ q = js[j].r /\ cmd[q].m = js[j].m /\ LiveCommand(cmd, q) /\ cmd[q].job = j
      BY <1>3, <3>3 DEF Crossed, CommandsOf
    <3>5. RowsFit(t.job, t.cmd, misled) /\ SlotsFit(t.job, used, misled)
      BY <1>2, <2>1, <2>3, <3>2, <3>4, SwapAdopted
    <3> QED
      BY <1>1, <3>2, <3>5 DEF TablesFit
  <2>4. CASE p # j /\ ~(js[j].st = "assigned" /\ back # {})
    <3>1. t = [job |-> Displaced(js, j, r, p),
               cmd |-> TakenOver(j, r),
               used |-> SlotsAfter(js, j),
               handed |-> handed \cup Recorded(cmd, CommandsOf(j))]
      BY <1>1, <1>2, <1>3, <1>6, <2>4 DEF adoptRunnerAssignment, Displaced, TakenOver
    <3>2. /\ t.job = Displaced(js, j, r, p)
          /\ t.cmd = TakenOver(j, r) /\ t.used = SlotsAfter(js, j)
          /\ t = [job |-> t.job, cmd |-> t.cmd, used |-> t.used, handed |-> t.handed]
      BY <3>1
    <3>3. RowsFit(t.job, t.cmd, misled) /\ SlotsFit(t.job, t.used, misled)
      BY <1>2, <2>1, <2>4, <3>2, DisplacedAdopted
    <3> QED
      BY <1>1, <3>2, <3>3 DEF TablesFit
  <2> QED
    BY <2>2, <2>3, <2>4
<1> QED
  BY <1>5, <1>6

(* A job nothing was assigned to yet moves on, and is charged nowhere.         *)
LEMMA WaitingRowMoves ==
  ASSUME NEW js, NEW cs, NEW u, NEW apart, NEW j \in Jobs, RowsFit(js, cs, apart), SlotsFit(js, u, apart),
         js[j].st \in {"absent", "queued"}, NEW js2 \in [Jobs -> JobRow], Elsewhere(js, js2, {j}),
         js2[j].m = NoOne, js2[j].st = "ended" \/ js2[j].n = js[j].n
  PROVE  RowsFit(js2, cs, apart) /\ SlotsFit(js2, u, apart)
<1>1. RowsTyped(js, cs) /\ ChargedOnly(js) /\ NamesSpent(js, cs) /\ CancelledOver(js, cs) /\ CommandsFit(js, cs, apart)
  BY DEF RowsFit
<1>2. \A i \in Jobs \ {j} : js2[i] = js[i]
  BY DEF Elsewhere
<1>3. \A k \in Runners : k[1] \in Jobs /\ cs[k].job \in Jobs
  BY <1>1, JobsAssumption DEF RowsTyped, CommandRow
<1>4. ChargedOnly(js2)
  BY <1>1, <1>2 DEF ChargedOnly
<1>5. NamesSpent(js2, cs)
  BY <1>1, <1>2, <1>3 DEF NamesSpent
<1>6. CancelledOver(js2, cs)
  BY <1>1, <1>2, <1>3 DEF CancelledOver
<1>7. CommandsFit(js2, cs, apart)
  <2> SUFFICES ASSUME NEW k \in Runners, cs[k].st \in {"pending", "claimed", "finished"}, cs[k].job \notin apart
               PROVE  CommandFits(js2[cs[k].job], cs[k], k)
    BY DEF CommandsFit
  <2>1. CommandFits(js[cs[k].job], cs[k], k)
    BY <1>1 DEF CommandsFit
  <2>2. cs[k].job # j
    BY <2>1 DEF CommandFits
  <2> QED
    BY <1>2, <1>3, <2>1, <2>2
<1>8. SlotsFit(js2, u, apart)
  <2>1. js[j].m = NoOne
    BY <1>1 DEF ChargedOnly
  <2>2. ChargedAlike(js2[j], js[j])
    BY <2>1, JobsAssumption DEF ChargedAlike, In
  <2> QED
    BY <2>2, SlotKept
<1> QED
  BY <1>1, <1>4, <1>5, <1>6, <1>7, <1>8 DEF RowsFit, RowsTyped

(* in_progress: a job that was waiting runs.                                   *)
RunsNow(js, j) == [js EXCEPT ![j].st = IF @ \in {"assigned", "queued"} THEN "running" ELSE @]

LEMMA RunningFits ==
  ASSUME NEW js, NEW cs, NEW u, NEW apart, NEW j \in Jobs, RowsFit(js, cs, apart), SlotsFit(js, u, apart)
  PROVE  RowsFit(RunsNow(js, j), cs, apart) /\ SlotsFit(RunsNow(js, j), u, apart)
<1>0. PICK js2 : js2 = RunsNow(js, j)
  OBVIOUS
<1>1. js \in [Jobs -> JobRow] /\ js[j] \in JobRow /\ cs \in [Runners -> CommandRow] /\ ChargedOnly(js)
      /\ NamesSpent(js, cs) /\ CancelledOver(js, cs) /\ CommandsFit(js, cs, apart)
  BY DEF RowsFit, RowsTyped
<1>2. CASE js[j].st \notin {"assigned", "queued"}
  <2>1. js2 = js
    BY <1>0, <1>1, <1>2 DEF RunsNow, JobRow
  <2> QED
    BY <1>0, <2>1
<1>3. ASSUME js[j].st \in {"assigned", "queued"}
      PROVE  /\ js2 \in [Jobs -> JobRow] /\ Elsewhere(js, js2, {j})
             /\ js2[j].st = "running" /\ js2[j].m = js[j].m /\ js2[j].r = js[j].r /\ js2[j].n = js[j].n
  <2>1. js2 = [js EXCEPT ![j] = [js[j] EXCEPT !.st = "running"]]
    BY <1>0, <1>1, <1>3 DEF RunsNow
  <2>2. [js[j] EXCEPT !.st = "running"] \in JobRow
    BY <1>1 DEF JobRow
  <2> QED
    BY <1>1, <2>1, <2>2 DEF JobRow, Elsewhere
<1>4. CASE js[j].st = "queued"
  BY <1>0, <1>1, <1>3, <1>4, WaitingRowMoves DEF ChargedOnly
<1>5. CASE js[j].st = "assigned"
  <2>1. \A i \in Jobs \ {j} : js2[i] = js[i]
    BY <1>3, <1>5 DEF Elsewhere
  <2>2. \A k \in Runners : k[1] \in Jobs /\ cs[k].job \in Jobs
    BY <1>1, JobsAssumption DEF CommandRow
  <2>3. ChargedOnly(js2)
    BY <1>1, <1>3, <1>5, <2>1 DEF ChargedOnly
  <2>4. NamesSpent(js2, cs)
    BY <1>1, <1>3, <1>5, <2>1, <2>2 DEF NamesSpent
  <2>5. CancelledOver(js2, cs)
    BY <1>1, <1>5, <2>1, <2>2 DEF CancelledOver
  <2>6. CommandsFit(js2, cs, apart)
    <3> SUFFICES ASSUME NEW k \in Runners, cs[k].st \in {"pending", "claimed", "finished"}, cs[k].job \notin apart
                 PROVE  CommandFits(js2[cs[k].job], cs[k], k)
      BY DEF CommandsFit
    <3>1. CommandFits(js[cs[k].job], cs[k], k)
      BY <1>1 DEF CommandsFit
    <3>2. CASE cs[k].job = j
      BY <1>3, <1>5, <3>1, <3>2 DEF CommandFits
    <3>3. CASE cs[k].job # j
      BY <2>1, <2>2, <3>1, <3>3
    <3> QED
      BY <3>2, <3>3
  <2>7. ChargedAlike(js2[j], js[j])
    BY <1>3, <1>5 DEF ChargedAlike, In
  <2>8. Elsewhere(js, js2, {j}) /\ js2 \in [Jobs -> JobRow]
    BY <1>3, <1>5
  <2>9. SlotsFit(js2, u, apart)
    BY <2>7, <2>8, SlotKept
  <2> QED
    BY <1>0, <1>1, <2>3, <2>4, <2>5, <2>6, <2>8, <2>9 DEF RowsFit, RowsTyped
<1> QED
  BY <1>2, <1>4, <1>5

(* completed: the job is over, its live commands are cancelled, its slot free. *)
Ends(js, j) == [js EXCEPT ![j] = EndedRow]
Cancels(cs, j) ==
  LET taken == {c \in Runners : LiveCommand(cs, c) /\ cs[c].job = j} IN
  [c \in Runners |-> IF c \in taken THEN [cs[c] EXCEPT !.st = "cancelled"] ELSE cs[c]]

LEMMA EndedIsRow == EndedRow \in JobRow /\ EndedRow.st = "ended" /\ EndedRow.m = NoOne
BY DEF EndedRow, Absent, JobRow

LEMMA EndingFits ==
  ASSUME NEW js, NEW cs, NEW u, NEW apart, NEW j \in Jobs, RowsFit(js, cs, apart), SlotsFit(js, u, apart)
  PROVE  RowsFit(Ends(js, j), Cancels(cs, j), apart) /\ SlotsFit(Ends(js, j), Freed(u, js[j].m), apart)
<1>0. PICK js2, cs2 : js2 = Ends(js, j) /\ cs2 = Cancels(cs, j)
  OBVIOUS
<1>1. js \in [Jobs -> JobRow] /\ cs \in [Runners -> CommandRow] /\ ChargedOnly(js)
      /\ NamesSpent(js, cs) /\ CancelledOver(js, cs) /\ CommandsFit(js, cs, apart)
  BY DEF RowsFit, RowsTyped
<1>2. js2 \in [Jobs -> JobRow] /\ (\A i \in Jobs \ {j} : js2[i] = js[i]) /\ js2[j].st = "ended" /\ js2[j].m = NoOne
  BY <1>0, <1>1, EndedIsRow DEF Ends
<1>3. /\ cs2 \in [Runners -> CommandRow]
      /\ \A k \in Runners : cs2[k].job = cs[k].job /\ cs2[k].m = cs[k].m
      /\ \A k \in Runners : LiveCommand(cs, k) /\ cs[k].job = j => cs2[k].st = "cancelled"
      /\ \A k \in Runners : ~(LiveCommand(cs, k) /\ cs[k].job = j) => cs2[k] = cs[k]
  <2>1. \A k \in Runners : LiveCommand(cs, k) /\ cs[k].job = j => cs2[k] = [cs[k] EXCEPT !.st = "cancelled"]
    BY <1>0 DEF Cancels
  <2>2. \A k \in Runners : ~(LiveCommand(cs, k) /\ cs[k].job = j) => cs2[k] = cs[k]
    BY <1>0 DEF Cancels
  <2>3. \A k \in Runners : cs2[k] \in CommandRow /\ cs2[k].job = cs[k].job /\ cs2[k].m = cs[k].m
    <3> TAKE k \in Runners
    <3>1. CASE LiveCommand(cs, k) /\ cs[k].job = j
      <4>1. cs2[k] = [cs[k] EXCEPT !.st = "cancelled"] /\ cs[k] \in CommandRow
        BY <1>1, <2>1, <3>1
      <4> QED
        BY <4>1 DEF CommandRow
    <3>2. CASE ~(LiveCommand(cs, k) /\ cs[k].job = j)
      BY <1>1, <2>2, <3>2
    <3> QED
      BY <3>1, <3>2
  <2>4. cs2 \in [Runners -> CommandRow]
    BY <1>0, <2>3 DEF Cancels
  <2>5. \A k \in Runners : LiveCommand(cs, k) /\ cs[k].job = j => cs2[k].st = "cancelled"
    BY <1>1, <2>1 DEF CommandRow
  <2> QED
    BY <2>2, <2>3, <2>4, <2>5
<1>4. \A k \in Runners : k[1] \in Jobs /\ cs[k].job \in Jobs
  BY <1>1, JobsAssumption DEF CommandRow
<1>5. ChargedOnly(js2)
  BY <1>1, <1>2 DEF ChargedOnly
<1>6. NamesSpent(js2, cs2)
  BY <1>1, <1>2, <1>3, <1>4 DEF NamesSpent, LiveCommand
<1>7. CancelledOver(js2, cs2)
  BY <1>1, <1>2, <1>3, <1>4 DEF CancelledOver, LiveCommand
<1>8. CommandsFit(js2, cs2, apart)
  <2> SUFFICES ASSUME NEW k \in Runners, cs2[k].st \in {"pending", "claimed", "finished"}, cs2[k].job \notin apart
               PROVE  CommandFits(js2[cs2[k].job], cs2[k], k)
    BY DEF CommandsFit
  <2>1. cs2[k] = cs[k] /\ ~(LiveCommand(cs, k) /\ cs[k].job = j)
    BY <1>3
  <2>2. CommandFits(js[cs[k].job], cs[k], k)
    BY <1>1, <2>1 DEF CommandsFit
  <2>3. CASE cs[k].job = j
    BY <1>2, <2>1, <2>3 DEF CommandFits, LiveCommand
  <2>4. CASE cs[k].job # j
    BY <1>2, <1>4, <2>1, <2>2, <2>4
  <2> QED
    BY <2>3, <2>4
<1>9. SlotsFit(js2, Freed(u, js[j].m), apart)
  <2>1. Elsewhere(js, js2, {j})
    BY <1>2 DEF Elsewhere
  <2>2. js2[j].st \in {"queued", "ended"} /\ js2[j].m = NoOne
    BY <1>2
  <2> QED
    BY <1>1, <2>1, <2>2, SlotFreed
<1> QED
  BY <1>0, <1>2, <1>3, <1>5, <1>6, <1>7, <1>8, <1>9 DEF RowsFit, RowsTyped

LEMMA KnownFits ==
  ASSUME JobsInv, NEW j \in Jobs
  PROVE  RowsFit(Known(j), cmd, misled) /\ SlotsFit(Known(j), used, misled)
<1>1. jobs \in [Jobs -> JobRow] /\ ChargedOnly(jobs) /\ RowsFit(jobs, cmd, misled) /\ SlotsFit(jobs, used, misled)
  BY DEF JobsInv, RowsFit, RowsTyped
<1>2. CASE jobs[j].st # "absent"
  BY <1>1, <1>2 DEF Known
<1>3. CASE jobs[j].st = "absent"
  <2>0. PICK js2 : js2 = Known(j)
    OBVIOUS
  <2>1. js2 = [jobs EXCEPT ![j] = [jobs[j] EXCEPT !.st = "running"]]
    BY <1>1, <1>3, <2>0 DEF Known
  <2>2. [jobs[j] EXCEPT !.st = "running"] \in JobRow /\ jobs[j].m = NoOne
    BY <1>1, <1>3 DEF JobRow, ChargedOnly
  <2>3. js2 \in [Jobs -> JobRow] /\ Elsewhere(jobs, js2, {j}) /\ js2[j].m = NoOne /\ js2[j].n = jobs[j].n
    BY <1>1, <2>1, <2>2 DEF JobRow, Elsewhere
  <2> QED
    BY <1>1, <1>3, <2>0, <2>3, WaitingRowMoves
<1> QED
  BY <1>2, <1>3

LEMMA PutKeeps ==
  ASSUME JobsInv, NEW t, TablesFit(t), Put(t), inbox' \subseteq inbox
  PROVE  JobsInv'
<1>1. jobs' = t.job /\ cmd' = t.cmd /\ used' = t.used /\ misled' = misled
  BY DEF Put
<1>2. RowsFit(jobs', cmd', misled') /\ SlotsFit(jobs', used', misled')
  BY <1>1 DEF TablesFit
<1>3. RowsFit(jobs, cmd, misled)' /\ SlotsFit(jobs, used, misled)'
  BY <1>2 DEF RowsFit, SlotsFit, RowsTyped, ChargedOnly, NamesSpent, CancelledOver, CommandsFit, Charged
<1> QED
  BY <1>1, <1>3 DEF JobsInv

(* The three events, in any order.                                             *)
LEMMA EventsKeepJobs ==
  ASSUME JobsInv, NEW e \in inbox, processDelivery(e)
  PROVE  JobsInv'
<1>1. /\ inbox' \subseteq inbox /\ e.j \in Jobs /\ e.r \in Runners \cup {NoOne}
      /\ RowsFit(jobs, cmd, misled) /\ SlotsFit(jobs, used, misled)
  BY DEF JobsInv, processDelivery
<1>2. PICK j, r : j = e.j /\ r = e.r
  OBVIOUS
<1>3. CASE queuedEvent(j)
  <2>0. PICK js2 : js2 = IF jobs[j].st = "absent" THEN [jobs EXCEPT ![j].st = "queued"] ELSE jobs
    OBVIOUS
  <2>1. jobs \in [Jobs -> JobRow] /\ ChargedOnly(jobs)
    BY <1>1 DEF RowsFit, RowsTyped
  <2>2. RowsFit(js2, cmd, misled) /\ SlotsFit(js2, used, misled)
    <3>1. CASE jobs[j].st # "absent"
      BY <1>1, <2>0, <3>1
    <3>2. CASE jobs[j].st = "absent"
      <4>1. js2 = [jobs EXCEPT ![j] = [jobs[j] EXCEPT !.st = "queued"]]
        BY <2>0, <2>1, <3>2
      <4>2. [jobs[j] EXCEPT !.st = "queued"] \in JobRow /\ jobs[j].m = NoOne
        BY <1>1, <1>2, <2>1, <3>2 DEF JobRow, ChargedOnly
      <4>3. js2 \in [Jobs -> JobRow] /\ Elsewhere(jobs, js2, {j}) /\ js2[j].m = NoOne /\ js2[j].n = jobs[j].n
        BY <1>1, <1>2, <2>1, <4>1, <4>2 DEF JobRow, Elsewhere
      <4> QED
        BY <1>1, <1>2, <3>2, <4>3, WaitingRowMoves
    <3> QED
      BY <3>1, <3>2
  <2>3. Put(Tables(js2))
    BY <1>3, <2>0 DEF queuedEvent
  <2>4. TablesFit(Tables(js2))
    BY <2>2 DEF Tables, TablesFit
  <2> QED
    BY <1>1, <2>3, <2>4, PutKeeps
<1>4. RowsFit(Known(j), cmd, misled) /\ SlotsFit(Known(j), used, misled)
  BY <1>1, <1>2, KnownFits
<1>5. PICK t : t = adoptRunnerAssignment(Known(j), j, r)
  OBVIOUS
<1>6. TablesFit(t)
  BY <1>1, <1>2, <1>4, <1>5, AdoptionFits
<1>7. t.job \in [Jobs -> JobRow] /\ t = [job |-> t.job, cmd |-> t.cmd, used |-> t.used, handed |-> t.handed]
      /\ RowsFit(t.job, t.cmd, misled) /\ SlotsFit(t.job, t.used, misled)
  BY <1>6 DEF TablesFit, RowsFit, RowsTyped
<1>8. CASE inProgressEvent(j, r)
  <2>0. PICK t2 : t2 = [t EXCEPT !.job[j].st = IF @ \in {"assigned", "queued"} THEN "running" ELSE @]
    OBVIOUS
  <2>1. Put(t2)
    BY <1>5, <1>8, <2>0 DEF inProgressEvent
  <2>2. t2 = [job |-> RunsNow(t.job, j), cmd |-> t.cmd, used |-> t.used, handed |-> t.handed]
    BY <1>7, <2>0 DEF RunsNow
  <2>3. RowsFit(RunsNow(t.job, j), t.cmd, misled) /\ SlotsFit(RunsNow(t.job, j), t.used, misled)
    BY <1>1, <1>2, <1>7, RunningFits
  <2>4. TablesFit(t2)
    BY <2>2, <2>3 DEF TablesFit
  <2> QED
    BY <1>1, <2>1, <2>4, PutKeeps
<1>9. CASE completedEvent(j, r)
  <2>1. CASE jobs[j].st = "absent" /\ r = NoOne
    <3>0. PICK js2 : js2 = [jobs EXCEPT ![j] = EndedRow]
      OBVIOUS
    <3>1. Put(Tables(js2))
      BY <1>9, <2>1, <3>0 DEF completedEvent
    <3>2. js2 \in [Jobs -> JobRow] /\ Elsewhere(jobs, js2, {j}) /\ js2[j].m = NoOne /\ js2[j].st = "ended"
      BY <1>1, <1>2, <3>0, EndedIsRow DEF Elsewhere, RowsFit, RowsTyped
    <3>3. RowsFit(js2, cmd, misled) /\ SlotsFit(js2, used, misled)
      BY <1>1, <1>2, <2>1, <3>2, WaitingRowMoves
    <3>4. TablesFit(Tables(js2))
      BY <3>3 DEF Tables, TablesFit
    <3> QED
      BY <1>1, <3>1, <3>4, PutKeeps
  <2>2. CASE ~(jobs[j].st = "absent" /\ r = NoOne) /\ t.job[j].st = "ended"
    <3>1. Put(t)
      BY <1>5, <1>9, <2>2 DEF completedEvent
    <3> QED
      BY <1>1, <1>6, <3>1, PutKeeps
  <2>3. CASE ~(jobs[j].st = "absent" /\ r = NoOne) /\ t.job[j].st # "ended"
    <3>1. PICK back : Put([job |-> Ends(t.job, j), cmd |-> Cancels(t.cmd, j),
                           used |-> Freed(t.used, t.job[j].m), handed |-> back])
      BY <1>5, <1>9, <2>3 DEF completedEvent, Ends, Cancels
    <3>2. PICK t2 : t2 = [job |-> Ends(t.job, j), cmd |-> Cancels(t.cmd, j),
                          used |-> Freed(t.used, t.job[j].m), handed |-> back]
      OBVIOUS
    <3>3. RowsFit(Ends(t.job, j), Cancels(t.cmd, j), misled) /\ SlotsFit(Ends(t.job, j), Freed(t.used, t.job[j].m), misled)
      BY <1>1, <1>2, <1>7, EndingFits
    <3>4. TablesFit(t2)
      BY <3>2, <3>3 DEF TablesFit
    <3> QED
      BY <1>1, <3>1, <3>2, <3>4, PutKeeps
  <2> QED
    BY <2>1, <2>2, <2>3
<1> QED
  BY <1>2, <1>3, <1>8, <1>9 DEF processDelivery

(* Any state with rows that fit, whatever else the step did.                   *)
LEMMA RowsKeep ==
  ASSUME JobsInv, RowsFit(jobs', cmd', misled'), SlotsFit(jobs', used', misled'),
         misled' \subseteq Jobs, inbox' \subseteq inbox
  PROVE  JobsInv'
<1>1. RowsFit(jobs, cmd, misled)' /\ SlotsFit(jobs, used, misled)'
  BY DEF RowsFit, SlotsFit, RowsTyped, ChargedOnly, NamesSpent, CancelledOver, CommandsFit, Charged
<1> QED
  BY <1>1 DEF JobsInv

(* tryAssign: the name is new, and one more job is on the machine.             *)
LEMMA AssignKeepsJobs ==
  ASSUME JobsInv, NEW j \in Jobs, NEW m \in Hosts, tryAssign(j, m)
  PROVE  JobsInv'
<1>1. /\ jobs \in [Jobs -> JobRow] /\ cmd \in [Runners -> CommandRow] /\ used \in [Hosts -> Nat] /\ misled \subseteq Jobs
      /\ ChargedOnly(jobs) /\ NamesSpent(jobs, cmd) /\ CancelledOver(jobs, cmd) /\ CommandsFit(jobs, cmd, misled)
      /\ SlotsFit(jobs, used, misled)
  BY DEF JobsInv, RowsFit, RowsTyped, SlotsFit
<1>2. PICK n, r : n = jobs[j].n + 1 /\ r = <<j, n>>
  OBVIOUS
<1>3. /\ jobs[j].st = "queued" /\ r \in Runners /\ used' = [used EXCEPT ![m] = @ + 1]
      /\ jobs' = [jobs EXCEPT ![j].st = "assigned", ![j].m = m, ![j].r = r, ![j].n = n]
      /\ cmd' = [cmd EXCEPT ![r] = [NoCommand(r) EXCEPT !.st = "pending", !.m = m]]
      /\ misled' = misled /\ inbox' = inbox
  BY <1>2 DEF tryAssign
<1>4. jobs[j] \in JobRow /\ jobs[j].n \in Nat /\ n \in Nat /\ r[1] = j /\ r[2] = n /\ ~(n <= jobs[j].n) /\ jobs[j].n <= n
  BY <1>1, <1>2 DEF JobRow
<1>5. cmd[r].st = "none"
  BY <1>1, <1>3, <1>4 DEF NamesSpent
<1>6. /\ jobs' \in [Jobs -> JobRow] /\ (\A i \in Jobs \ {j} : jobs'[i] = jobs[i])
      /\ jobs'[j].st = "assigned" /\ jobs'[j].m = m /\ jobs'[j].r = r /\ jobs'[j].n = n
  <2>1. jobs' = [jobs EXCEPT ![j] = [jobs[j] EXCEPT !.st = "assigned", !.m = m, !.r = r, !.n = n]]
    BY <1>1, <1>3
  <2>2. [jobs[j] EXCEPT !.st = "assigned", !.m = m, !.r = r, !.n = n] \in JobRow
    BY <1>3, <1>4 DEF JobRow
  <2> QED
    BY <1>1, <1>4, <2>1, <2>2 DEF JobRow
<1>7. /\ cmd' \in [Runners -> CommandRow] /\ (\A k \in Runners \ {r} : cmd'[k] = cmd[k])
      /\ cmd'[r].st = "pending" /\ cmd'[r].job = j /\ cmd'[r].m = m
  <2>1. cmd'[r] = [NoCommand(r) EXCEPT !.st = "pending", !.m = m] /\ (\A k \in Runners \ {r} : cmd'[k] = cmd[k])
    BY <1>1, <1>3
  <2>2. cmd'[r] \in CommandRow /\ cmd'[r].st = "pending" /\ cmd'[r].job = j /\ cmd'[r].m = m
    BY <1>4, <2>1 DEF NoCommand, CommandRow
  <2> QED
    BY <1>1, <1>3, <2>1, <2>2
<1>8. \A k \in Runners : k[1] \in Jobs /\ k[2] \in Nat /\ cmd[k].job \in Jobs
  BY <1>1, JobsAssumption DEF CommandRow
<1>9. ChargedOnly(jobs')
  BY <1>1, <1>6 DEF ChargedOnly
<1>10. CancelledOver(jobs', cmd')
  <2> SUFFICES ASSUME NEW k \in Runners, cmd'[k].st = "cancelled"  PROVE jobs'[cmd'[k].job].st = "ended"
    BY DEF CancelledOver
  <2>1. cmd'[k] = cmd[k]
    BY <1>7
  <2>2. jobs[cmd[k].job].st = "ended"
    BY <1>1, <2>1 DEF CancelledOver
  <2>3. cmd[k].job \in Jobs \ {j}
    BY <1>3, <1>8, <2>2
  <2> QED
    BY <1>6, <2>1, <2>2, <2>3
<1>11. NamesSpent(jobs', cmd')
  <2> SUFFICES ASSUME NEW k \in Runners, cmd'[k].st # "none"
               PROVE  jobs'[k[1]].st = "ended" \/ k[2] <= jobs'[k[1]].n
    BY DEF NamesSpent
  <2>1. CASE k = r
    <3>1. n <= n
      BY <1>4
    <3> QED
      BY <1>4, <1>6, <2>1, <3>1
  <2>2. CASE k # r
    <3>1. jobs[k[1]].st = "ended" \/ k[2] <= jobs[k[1]].n
      BY <1>1, <1>7, <2>2 DEF NamesSpent
    <3>2. CASE k[1] = j
      <4>1. k[2] <= jobs[j].n /\ k[2] \in Nat
        BY <1>3, <1>8, <3>1, <3>2
      <4>2. k[2] <= n
        BY <1>4, <4>1, AtMostTransitive
      <4> QED
        BY <1>6, <3>2, <4>2
    <3>3. CASE k[1] # j
      BY <1>6, <1>8, <3>1, <3>3
    <3> QED
      BY <3>2, <3>3
  <2> QED
    BY <2>1, <2>2
<1>12. CommandsFit(jobs', cmd', misled)
  <2> SUFFICES ASSUME NEW k \in Runners, cmd'[k].st \in {"pending", "claimed", "finished"}, cmd'[k].job \notin misled
               PROVE  CommandFits(jobs'[cmd'[k].job], cmd'[k], k)
    BY DEF CommandsFit
  <2>1. CASE k = r
    BY <1>6, <1>7, <2>1 DEF CommandFits
  <2>2. CASE k # r
    <3>1. cmd'[k] = cmd[k]
      BY <1>7, <2>2
    <3>2. CommandFits(jobs[cmd[k].job], cmd[k], k)
      BY <1>1, <3>1 DEF CommandsFit
    <3>3. cmd[k].job # j
      BY <1>3, <3>2 DEF CommandFits
    <3> QED
      BY <1>6, <1>8, <3>1, <3>2, <3>3
  <2> QED
    BY <2>1, <2>2
<1>13. SlotsFit(jobs', used', misled)
  <2>1. used' \in [Hosts -> Nat]
    BY <1>1, <1>3
  <2>2. ASSUME misled = {}, NEW h \in Hosts
        PROVE  used'[h] = Cardinality(Holding(jobs', h))
    <3>1. Elsewhere(jobs, jobs', {j})
      BY <1>6 DEF Elsewhere
    <3>2. MovedBy(jobs, jobs', j, h)
      BY <3>1, OneRowMoves
    <3>3. In(jobs[j], h) = 0 /\ In(jobs'[j], h) = IF m = h THEN 1 ELSE 0
      BY <1>3, <1>6 DEF In
    <3>4. used[h] = Cardinality(Holding(jobs, h))
      BY <1>1, <2>2 DEF SlotsFit, Charged
    <3>5. used'[h] = IF m = h THEN used[h] + 1 ELSE used[h]
      BY <1>1, <1>3
    <3> QED
      BY <3>2, <3>3, <3>4, <3>5 DEF MovedBy
  <2> QED
    BY <2>1, <2>2 DEF SlotsFit, Charged
<1>14. RowsFit(jobs', cmd', misled') /\ SlotsFit(jobs', used', misled') /\ misled' \subseteq Jobs /\ inbox' \subseteq inbox
  BY <1>1, <1>3, <1>6, <1>7, <1>9, <1>10, <1>11, <1>12, <1>13 DEF RowsFit, RowsTyped
<1> QED
  BY <1>14, RowsKeep

(* A command on its way, for the same job on the same machine.                 *)
LEMMA CommandMoves ==
  ASSUME NEW js, NEW cs, NEW apart, NEW r \in Runners, RowsFit(js, cs, apart),
         NEW c \in CommandRow, c.job = cs[r].job, c.m = cs[r].m, c.st \in {"pending", "claimed", "finished"},
         cs[r].st \in {"pending", "claimed", "finished", "cancelled"},
         c.st # "finished" => cs[r].st \in {"pending", "claimed"}
  PROVE  RowsFit(js, [cs EXCEPT ![r] = c], apart)
<1>0. PICK cs2 : cs2 = [cs EXCEPT ![r] = c]
  OBVIOUS
<1>1. js \in [Jobs -> JobRow] /\ cs \in [Runners -> CommandRow] /\ ChargedOnly(js)
      /\ NamesSpent(js, cs) /\ CancelledOver(js, cs) /\ CommandsFit(js, cs, apart)
  BY DEF RowsFit, RowsTyped
<1>2. cs2 \in [Runners -> CommandRow] /\ cs2[r] = c /\ (\A k \in Runners \ {r} : cs2[k] = cs[k])
  BY <1>0, <1>1
<1>3. NamesSpent(js, cs2) /\ CancelledOver(js, cs2)
  BY <1>1, <1>2 DEF NamesSpent, CancelledOver
<1>4. CommandsFit(js, cs2, apart)
  <2> SUFFICES ASSUME NEW k \in Runners, cs2[k].st \in {"pending", "claimed", "finished"}, cs2[k].job \notin apart
               PROVE  CommandFits(js[cs2[k].job], cs2[k], k)
    BY DEF CommandsFit
  <2>1. CASE k # r
    BY <1>1, <1>2, <2>1 DEF CommandsFit
  <2>2. CASE k = r /\ cs[r].st = "cancelled"
    <3>1. js[c.job].st = "ended" /\ c.st = "finished"
      BY <1>1, <2>2 DEF CancelledOver
    <3> QED
      BY <1>2, <2>2, <3>1 DEF CommandFits
  <2>3. CASE k = r /\ cs[r].st # "cancelled"
    <3>1. CommandFits(js[c.job], cs[r], r)
      BY <1>1, <1>2, <2>3 DEF CommandsFit
    <3> QED
      BY <1>2, <2>3, <3>1 DEF CommandFits
  <2> QED
    BY <2>1, <2>2, <2>3
<1> QED
  BY <1>0, <1>1, <1>2, <1>3, <1>4 DEF RowsFit, RowsTyped

OnlyDeleted(cs, cs2, some) ==
  (\A k \in some : cs2[k].st = "deleted") /\ (\A k \in Runners \ some : cs2[k] = cs[k])

LEMMA DiscardFits ==
  ASSUME NEW js, NEW cs, NEW apart, NEW some \in SUBSET {k \in Runners : cs[k].st # "none"},
         RowsFit(js, cs, apart)
  PROVE  RowsFit(js, Discarded(cs, some), apart) /\ OnlyDeleted(cs, Discarded(cs, some), some)
<1>0. PICK cs2 : cs2 = Discarded(cs, some)
  OBVIOUS
<1>1. js \in [Jobs -> JobRow] /\ cs \in [Runners -> CommandRow] /\ ChargedOnly(js)
      /\ NamesSpent(js, cs) /\ CancelledOver(js, cs) /\ CommandsFit(js, cs, apart)
  BY DEF RowsFit, RowsTyped
<1>2. (\A k \in some : cs2[k] = [NoCommand(k) EXCEPT !.st = "deleted"]) /\ (\A k \in Runners \ some : cs2[k] = cs[k])
  BY <1>0 DEF Discarded
<1>3. \A k \in some : cs2[k] \in CommandRow /\ cs2[k].st = "deleted"
  <2> TAKE k \in some
  <2>1. k \in Runners /\ k[1] \in Jobs /\ cs2[k] = [NoCommand(k) EXCEPT !.st = "deleted"]
    BY <1>2, JobsAssumption
  <2> QED
    BY <2>1 DEF NoCommand, CommandRow
<1>4. cs2 \in [Runners -> CommandRow]
  <2>1. \A k \in Runners : cs2[k] \in CommandRow
    BY <1>1, <1>2, <1>3
  <2> QED
    BY <1>0, <2>1 DEF Discarded
<1>5. NamesSpent(js, cs2) /\ CancelledOver(js, cs2) /\ CommandsFit(js, cs2, apart)
  BY <1>1, <1>2, <1>3 DEF NamesSpent, CancelledOver, CommandsFit
<1> QED
  BY <1>0, <1>1, <1>2, <1>3, <1>4, <1>5 DEF RowsFit, RowsTyped, OnlyDeleted

LEMMA RetriedRow ==
  ASSUME NEW row \in JobRow
  PROVE  /\ Retried(row) \in JobRow /\ Retried(row).st \in {"queued", "ended"} /\ Retried(row).m = NoOne
         /\ Retried(row).st = "ended" \/ Retried(row).n = row.n
<1>1. CASE row.n >= MaxProvision
  BY <1>1, EndedIsRow DEF Retried
<1>2. CASE ~(row.n >= MaxProvision)
  BY <1>2 DEF Retried, JobRow
<1> QED
  BY <1>1, <1>2

Retries(js, j) == [js EXCEPT ![j] = Retried(@)]

(* An assigned job without a command is retried or given up.                   *)
LEMMA RetryFits ==
  ASSUME NEW js, NEW cs, NEW u, NEW apart, NEW j \in Jobs, RowsFit(js, cs, apart), SlotsFit(js, u, apart),
         js[j].st = "assigned",
         j \in apart \/ \A k \in Runners : cs[k].st \in {"pending", "claimed", "finished"} => cs[k].job # j
  PROVE  RowsFit(Retries(js, j), cs, apart) /\ SlotsFit(Retries(js, j), Freed(u, js[j].m), apart)
<1>0. PICK js2 : js2 = Retries(js, j)
  OBVIOUS
<1>1. js \in [Jobs -> JobRow] /\ cs \in [Runners -> CommandRow] /\ ChargedOnly(js) /\ js[j] \in JobRow
      /\ NamesSpent(js, cs) /\ CancelledOver(js, cs) /\ CommandsFit(js, cs, apart)
  BY DEF RowsFit, RowsTyped
<1>2. js2[j] = Retried(js[j]) /\ (\A i \in Jobs \ {j} : js2[i] = js[i])
  BY <1>0, <1>1 DEF Retries
<1>3. /\ js2[j] \in JobRow /\ js2[j].st \in {"queued", "ended"} /\ js2[j].m = NoOne
      /\ js2[j].st = "ended" \/ js2[j].n = js[j].n
  BY <1>1, <1>2, RetriedRow
<1>4. js2 \in [Jobs -> JobRow]
  BY <1>0, <1>1, <1>2, <1>3 DEF Retries
<1>5. \A k \in Runners : k[1] \in Jobs /\ cs[k].job \in Jobs
  BY <1>1, JobsAssumption DEF CommandRow
<1>6. ChargedOnly(js2)
  BY <1>1, <1>2, <1>3 DEF ChargedOnly
<1>7. NamesSpent(js2, cs)
  BY <1>1, <1>2, <1>3, <1>5 DEF NamesSpent
<1>8. CancelledOver(js2, cs)
  BY <1>1, <1>2, <1>5 DEF CancelledOver
<1>9. CommandsFit(js2, cs, apart)
  BY <1>1, <1>2, <1>5 DEF CommandsFit
<1>10. SlotsFit(js2, Freed(u, js[j].m), apart)
  <2>1. Elsewhere(js, js2, {j})
    BY <1>2 DEF Elsewhere
  <2> QED
    BY <1>1, <1>3, <2>1, SlotFreed
<1> QED
  BY <1>0, <1>1, <1>4, <1>6, <1>7, <1>8, <1>9, <1>10 DEF RowsFit, RowsTyped

(* failAttempt, for its own command or for one already gone.                   *)
LEMMA FailKeepsJobs ==
  ASSUME JobsInv, NEW r \in Runners, failAttempt(r), inbox' = inbox
  PROVE  JobsInv'
<1>1. /\ jobs \in [Jobs -> JobRow] /\ cmd \in [Runners -> CommandRow] /\ used \in [Hosts -> Nat] /\ misled \subseteq Jobs
      /\ RowsFit(jobs, cmd, misled) /\ SlotsFit(jobs, used, misled) /\ CommandsFit(jobs, cmd, misled)
  BY DEF JobsInv, RowsFit, RowsTyped, SlotsFit
<1>2. PICK j, gone : j = Owner(r) /\ gone = {r} \cap CommandsOf(cmd[r].job)
  OBVIOUS
<1>3. /\ cmd' = Discarded(cmd, gone)
      /\ IF jobs[j].st = "assigned"
         THEN jobs' = Retries(jobs, j) /\ used' = Freed(used, jobs[j].m)
         ELSE jobs' = jobs /\ used' = used
      /\ misled' = IF gone = {} /\ jobs[j].st = "assigned" THEN misled \cup {j} ELSE misled
  BY <1>2 DEF failAttempt, Retries
<1>4. j \in Jobs /\ gone \subseteq Runners /\ (\A k \in gone : cmd[k].st # "none") /\ cmd[r].job \in Jobs
  BY <1>1, <1>2, JobsAssumption DEF Owner, CommandsOf, CommandRow
<1>5. /\ RowsFit(jobs, cmd', misled) /\ (\A k \in gone : cmd'[k].st = "deleted")
      /\ (\A k \in Runners \ gone : cmd'[k] = cmd[k])
  <2>1. gone \in SUBSET {k \in Runners : cmd[k].st # "none"}
    BY <1>4
  <2>2. RowsFit(jobs, Discarded(cmd, gone), misled) /\ OnlyDeleted(cmd, Discarded(cmd, gone), gone)
    BY <1>1, <2>1, DiscardFits
  <2> QED
    BY <1>3, <2>2 DEF OnlyDeleted
<1>6. CASE jobs[j].st # "assigned"
  <2>1. RowsFit(jobs', cmd', misled') /\ SlotsFit(jobs', used', misled') /\ misled' \subseteq Jobs
    BY <1>1, <1>3, <1>5, <1>6
  <2> QED
    BY <2>1, RowsKeep
<1>7. CASE jobs[j].st = "assigned" /\ gone # {}
  <2>1. gone = {r} /\ cmd[r].job = j /\ misled' = misled /\ jobs' = Retries(jobs, j) /\ used' = Freed(used, jobs[j].m)
    BY <1>2, <1>3, <1>7 DEF Owner, CommandsOf
  <2>2. ASSUME j \notin misled, NEW k \in Runners, cmd'[k].st \in {"pending", "claimed", "finished"}
        PROVE  cmd'[k].job # j
    <3>1. k # r /\ cmd'[k] = cmd[k]
      BY <1>5, <2>1, <2>2
    <3>2. cmd[k].job = j => jobs[j].r = k
      BY <1>1, <1>7, <2>2, <3>1 DEF CommandsFit, CommandFits
    <3>3. CASE cmd[r].st \in {"pending", "claimed", "finished"}
      <4>1. jobs[j].r = r
        BY <1>1, <1>7, <2>1, <2>2, <3>3 DEF CommandsFit, CommandFits
      <4> QED
        BY <3>1, <3>2, <4>1
    <3>4. CASE cmd[r].st \notin {"pending", "claimed", "finished"}
      <4>1. cmd[r].st = "cancelled"
        <5>1. cmd[r].st \notin {"none", "deleted"}
          BY <1>2, <2>1 DEF CommandsOf
        <5>2. cmd[r] \in CommandRow
          BY <1>1
        <5> QED
          BY <3>4, <5>1, <5>2 DEF CommandRow
      <4>2. jobs[j].st = "ended"
        BY <1>1, <2>1, <4>1 DEF RowsFit, CancelledOver
      <4> QED
        BY <1>7, <4>2
    <3> QED
      BY <3>3, <3>4
  <2>3. RowsFit(jobs', cmd', misled) /\ SlotsFit(jobs', used', misled)
    BY <1>1, <1>4, <1>5, <1>7, <2>1, <2>2, RetryFits
  <2>4. RowsFit(jobs', cmd', misled') /\ SlotsFit(jobs', used', misled') /\ misled' \subseteq Jobs
    BY <1>1, <2>1, <2>3
  <2> QED
    BY <2>4, RowsKeep
<1>8. CASE jobs[j].st = "assigned" /\ gone = {}
  <2>0. PICK apart : apart = misled \cup {j}
    OBVIOUS
  <2>1. misled' = apart /\ j \in apart /\ apart \subseteq Jobs /\ jobs' = Retries(jobs, j)
        /\ used' = Freed(used, jobs[j].m)
    BY <1>1, <1>3, <1>4, <1>8, <2>0
  <2>2. RowsFit(jobs, cmd', apart) /\ SlotsFit(jobs, used, apart)
    BY <1>1, <1>5, <2>0, <2>1 DEF RowsFit, CommandsFit, SlotsFit
  <2>3. RowsFit(jobs', cmd', apart) /\ SlotsFit(jobs', used', apart)
    BY <1>4, <1>8, <2>1, <2>2, RetryFits
  <2> QED
    BY <2>1, <2>3, RowsKeep
<1> QED
  BY <1>6, <1>7, <1>8

(* reconcile: a whole pass, and the recount.                                   *)
LEMMA ReconcileKeepsJobs ==
  ASSUME JobsInv, NEW late \in SUBSET Jobs, NEW stale \in SUBSET Jobs, reconcile(late, stale)
  PROVE  JobsInv'
<1>1. /\ jobs \in [Jobs -> JobRow] /\ cmd \in [Runners -> CommandRow] /\ misled \subseteq Jobs
      /\ ChargedOnly(jobs) /\ NamesSpent(jobs, cmd) /\ CancelledOver(jobs, cmd) /\ CommandsFit(jobs, cmd, misled)
  BY DEF JobsInv, RowsFit, RowsTyped
<1>2. PICK lost, left, thrown, over, swept :
        /\ lost = {i \in Jobs : jobs[i].st = "assigned" /\ (silent[jobs[i].m] > 0 \/ i \in late)}
        /\ left = {i \in Jobs : jobs[i].st = "running" /\ (jobs[i].m = NoOne \/ silent[jobs[i].m] = 2)}
        /\ thrown = {k \in Runners : cmd[k].st \in {"pending", "claimed", "cancelled"} /\ cmd[k].job \in lost}
        /\ over = {k \in Runners : cmd[k].st \in {"pending", "claimed", "cancelled"} /\ cmd[k].job \in left}
        /\ swept = {k \in Runners : cmd[k].st = "finished"}
  OBVIOUS
<1>3. /\ stale \subseteq {i \in Jobs : jobs[i].st = "queued"}
      /\ jobs' = [i \in Jobs |-> IF i \in lost THEN Retried(jobs[i])
                                 ELSE IF i \in left \cup stale THEN EndedRow ELSE jobs[i]]
      /\ cmd' = [k \in Runners |-> IF k \in over THEN [cmd[k] EXCEPT !.st = "finished"]
                                   ELSE Discarded(cmd, thrown \cup swept)[k]]
      /\ used' = [h \in Hosts |-> Cardinality(Holding(jobs', h))]
      /\ misled' = misled /\ inbox' = inbox
  BY <1>2 DEF reconcile, Holding
<1>4. /\ \A i \in Jobs : jobs'[i] \in JobRow
      /\ \A i \in lost : jobs[i].st = "assigned" /\ jobs'[i].st \in {"queued", "ended"} /\ jobs'[i].m = NoOne
                           /\ (jobs'[i].st = "ended" \/ jobs'[i].n = jobs[i].n)
      /\ \A i \in left \cup stale : jobs[i].st \in {"running", "queued"} /\ jobs'[i].st = "ended" /\ jobs'[i].m = NoOne
      /\ \A i \in Jobs \ (lost \cup left \cup stale) : jobs'[i] = jobs[i]
  <2>1. \A i \in lost : jobs'[i] = Retried(jobs[i]) /\ jobs[i] \in JobRow /\ jobs[i].st = "assigned"
    BY <1>1, <1>2, <1>3
  <2>2. \A i \in left \cup stale : jobs'[i] = EndedRow /\ jobs[i].st \in {"running", "queued"}
    BY <1>1, <1>2, <1>3
  <2>3. \A i \in Jobs \ (lost \cup left \cup stale) : jobs'[i] = jobs[i] /\ jobs'[i] \in JobRow
    BY <1>1, <1>3
  <2>4. \A i \in lost : jobs'[i] \in JobRow /\ jobs'[i].st \in {"queued", "ended"} /\ jobs'[i].m = NoOne
                           /\ (jobs'[i].st = "ended" \/ jobs'[i].n = jobs[i].n)
    BY <2>1, RetriedRow
  <2>5. \A i \in left \cup stale : jobs'[i] \in JobRow /\ jobs'[i].st = "ended" /\ jobs'[i].m = NoOne
    BY <2>2, EndedIsRow
  <2> QED
    BY <2>1, <2>2, <2>3, <2>4, <2>5
<1>5. jobs' \in [Jobs -> JobRow]
  BY <1>3, <1>4
<1>6. \A k \in Runners : k[1] \in Jobs /\ cmd[k].job \in Jobs /\ cmd[k] \in CommandRow
  BY <1>1, JobsAssumption DEF CommandRow
<1>7. /\ \A k \in over : cmd'[k] \in CommandRow /\ cmd'[k].st = "finished" /\ cmd'[k].job = cmd[k].job
      /\ \A k \in (thrown \cup swept) \ over : cmd'[k] \in CommandRow /\ cmd'[k].st = "deleted"
      /\ \A k \in Runners \ (over \cup thrown \cup swept) : cmd'[k] = cmd[k]
  <2>1. \A k \in over : k \in Runners /\ cmd'[k] = [cmd[k] EXCEPT !.st = "finished"]
    BY <1>2, <1>3
  <2>2. \A k \in (thrown \cup swept) \ over : k \in Runners /\ cmd'[k] = [NoCommand(k) EXCEPT !.st = "deleted"]
    BY <1>2, <1>3 DEF Discarded
  <2>3. \A k \in Runners \ (over \cup thrown \cup swept) : cmd'[k] = cmd[k]
    BY <1>3 DEF Discarded
  <2>4. \A k \in over : cmd'[k] \in CommandRow /\ cmd'[k].st = "finished" /\ cmd'[k].job = cmd[k].job
    <3> TAKE k \in over
    <3>1. cmd'[k] = [cmd[k] EXCEPT !.st = "finished"] /\ cmd[k] \in CommandRow
      BY <1>6, <2>1
    <3> QED
      BY <3>1 DEF CommandRow
  <2>5. \A k \in (thrown \cup swept) \ over : cmd'[k] \in CommandRow /\ cmd'[k].st = "deleted"
    <3> TAKE k \in (thrown \cup swept) \ over
    <3>1. k[1] \in Jobs /\ cmd'[k] = [NoCommand(k) EXCEPT !.st = "deleted"]
      BY <1>6, <2>2
    <3>2. cmd'[k] = [st |-> "deleted", job |-> k[1], m |-> NoOne, jit |-> FALSE, id |-> FALSE]
      BY <3>1 DEF NoCommand
    <3>3. PICK j \in Jobs : j = k[1]
      BY <3>1
    <3>4. PICK row : row = [st |-> "deleted", job |-> j, m |-> NoOne, jit |-> FALSE, id |-> FALSE]
      OBVIOUS
    <3>5. row \in CommandRow
      BY <3>4 DEF CommandRow
    <3>6. row.st = "deleted"
      BY <3>4
    <3> QED
      BY <3>2, <3>3, <3>4, <3>5, <3>6
  <2> QED
    BY <2>3, <2>4, <2>5
<1>8. cmd' \in [Runners -> CommandRow]
  <2>1. \A k \in Runners : cmd'[k] \in CommandRow
    BY <1>2, <1>6, <1>7
  <2> QED
    BY <1>3, <2>1
<1>9. ChargedOnly(jobs')
  BY <1>1, <1>4 DEF ChargedOnly
<1>10. \A k \in Runners : cmd'[k].st # "none" => cmd[k].st # "none"
  BY <1>2, <1>7
<1>11. NamesSpent(jobs', cmd')
  <2> SUFFICES ASSUME NEW k \in Runners, cmd'[k].st # "none"
               PROVE  jobs'[k[1]].st = "ended" \/ k[2] <= jobs'[k[1]].n
    BY DEF NamesSpent
  <2>1. k[1] \in Jobs /\ (jobs[k[1]].st = "ended" \/ k[2] <= jobs[k[1]].n)
    BY <1>1, <1>6, <1>10 DEF NamesSpent
  <2>2. PICK i : i = k[1]
    OBVIOUS
  <2>3. CASE i \in lost
    BY <1>4, <2>1, <2>2, <2>3
  <2>4. CASE i \in left \cup stale
    BY <1>4, <2>2, <2>4
  <2>5. CASE i \notin lost \cup left \cup stale
    BY <1>4, <2>1, <2>2, <2>5
  <2> QED
    BY <2>3, <2>4, <2>5
<1>12. CancelledOver(jobs', cmd')
  <2> SUFFICES ASSUME NEW k \in Runners, cmd'[k].st = "cancelled"  PROVE jobs'[cmd'[k].job].st = "ended"
    BY DEF CancelledOver
  <2>1. cmd'[k] = cmd[k]
    BY <1>7
  <2>2. jobs[cmd[k].job].st = "ended"
    BY <1>1, <2>1 DEF CancelledOver
  <2>3. cmd[k].job \in Jobs \ (lost \cup left \cup stale)
    BY <1>4, <1>6, <2>2
  <2> QED
    BY <1>4, <2>1, <2>2, <2>3
<1>13. CommandsFit(jobs', cmd', misled)
  <2> SUFFICES ASSUME NEW k \in Runners, cmd'[k].st \in {"pending", "claimed", "finished"}, cmd'[k].job \notin misled
               PROVE  CommandFits(jobs'[cmd'[k].job], cmd'[k], k)
    BY DEF CommandsFit
  <2>1. CASE k \in over
    <3>1. cmd'[k].st = "finished" /\ jobs'[cmd'[k].job].st = "ended"
      BY <1>2, <1>4, <1>7, <2>1
    <3> QED
      BY <3>1 DEF CommandFits
  <2>2. CASE k \notin over
    <3>1. k \notin thrown \cup swept /\ cmd'[k] = cmd[k]
      BY <1>7, <2>2
    <3>2. cmd[k].st \in {"pending", "claimed"} /\ cmd[k].job \notin lost \cup left
      BY <1>2, <2>2, <3>1
    <3>3. CommandFits(jobs[cmd[k].job], cmd[k], k)
      BY <1>1, <3>1 DEF CommandsFit
    <3>4. cmd[k].job \notin stale
      BY <1>3, <3>3 DEF CommandFits
    <3> QED
      BY <1>4, <1>6, <3>1, <3>2, <3>3, <3>4
  <2> QED
    BY <2>1, <2>2
<1>14. SlotsFit(jobs', used', misled)
  <2>1. \A h \in Hosts : IsFiniteSet(Holding(jobs', h))
    BY JobsAssumption, FS_Subset DEF Holding
  <2>2. \A h \in Hosts : Cardinality(Holding(jobs', h)) \in Nat
    BY <2>1, FS_CardinalityType
  <2> QED
    BY <1>3, <2>2 DEF SlotsFit, Charged
<1>15. RowsFit(jobs', cmd', misled') /\ SlotsFit(jobs', used', misled') /\ misled' \subseteq Jobs /\ inbox' \subseteq inbox
  BY <1>1, <1>3, <1>5, <1>8, <1>9, <1>11, <1>12, <1>13, <1>14 DEF RowsFit, RowsTyped
<1> QED
  BY <1>15, RowsKeep

LEMMA JobsInitInv == JobsInit => JobsInv
<1> SUFFICES ASSUME JobsInit  PROVE JobsInv
  OBVIOUS
<1> USE DEF JobsInit
<1>1. jobs \in [Jobs -> JobRow] /\ \A i \in Jobs : jobs[i].st = "absent" /\ jobs[i].m = NoOne
  BY DEF Absent, JobRow
<1>2. cmd \in [Runners -> CommandRow] /\ \A k \in Runners : cmd[k].st = "none"
  BY JobsAssumption DEF NoCommand, CommandRow
<1>3. RowsFit(jobs, cmd, misled)
  BY <1>1, <1>2 DEF RowsFit, RowsTyped, ChargedOnly, NamesSpent, CancelledOver, CommandsFit
<1>4. SlotsFit(jobs, used, misled)
  <2>1. \A h \in Hosts : Holding(jobs, h) = {}
    BY <1>1 DEF Holding
  <2>2. Cardinality({}) = 0
    BY FS_EmptySet
  <2> QED
    BY <2>1, <2>2 DEF SlotsFit, Charged
<1> QED
  BY <1>3, <1>4 DEF JobsInv

LEMMA JobsStep == JobsInv /\ [JobsNext]_jobVars => JobsInv'
<1> SUFFICES ASSUME JobsInv, [JobsNext]_jobVars  PROVE JobsInv'
  OBVIOUS
<1> DEFINE Events == [a : {"queued", "in_progress", "completed"}, j : Jobs, r : Runners \cup {NoOne}]
<1>0. /\ jobs \in [Jobs -> JobRow] /\ cmd \in [Runners -> CommandRow] /\ misled \subseteq Jobs
      /\ RowsFit(jobs, cmd, misled) /\ SlotsFit(jobs, used, misled) /\ inbox \subseteq Events
  BY DEF JobsInv, RowsFit, RowsTyped
<1>1. ASSUME jobs' = jobs, cmd' = cmd, used' = used, misled' = misled, inbox' \subseteq Events
      PROVE  JobsInv'
  <2>1. RowsFit(jobs, cmd, misled)' /\ SlotsFit(jobs, used, misled)'
    BY <1>0, <1>1 DEF RowsFit, SlotsFit, RowsTyped, ChargedOnly, NamesSpent, CancelledOver, CommandsFit, Charged
  <2> QED
    BY <1>0, <1>1, <2>1 DEF JobsInv
<1>2. ASSUME NEW r \in Runners, NEW c \in CommandRow, cmd' = [cmd EXCEPT ![r] = c],
             c.job = cmd[r].job, c.m = cmd[r].m, c.st \in {"pending", "claimed", "finished"},
             cmd[r].st \in {"pending", "claimed", "finished", "cancelled"},
             c.st # "finished" => cmd[r].st \in {"pending", "claimed"},
             jobs' = jobs, used' = used, misled' = misled, inbox' = inbox
      PROVE  JobsInv'
  <2>1. RowsFit(jobs, [cmd EXCEPT ![r] = c], misled)
    BY <1>0, <1>2, CommandMoves
  <2>2. RowsFit(jobs', cmd', misled') /\ SlotsFit(jobs', used', misled') /\ misled' \subseteq Jobs /\ inbox' \subseteq inbox
    BY <1>0, <1>2, <2>1
  <2> QED
    BY <2>2, RowsKeep
<1>3. CASE UNCHANGED jobVars
  BY <1>0, <1>1, <1>3 DEF jobVars, tableVars
<1>4. ASSUME NEW j \in Jobs, jobRequested(j) \/ jobCancelled(j)  PROVE JobsInv'
  <2>1. inbox' \subseteq Events
    BY <1>0, <1>4 DEF jobRequested, jobCancelled, Sent
  <2> QED
    BY <1>1, <1>4, <2>1 DEF jobRequested, jobCancelled, tableVars
<1>5. ASSUME NEW j \in Jobs, NEW r \in Runners, jobStarts(j, r) \/ jobEnds(j, r)  PROVE JobsInv'
  <2>1. inbox' \subseteq Events
    BY <1>0, <1>5 DEF jobStarts, jobEnds, Sent
  <2> QED
    BY <1>1, <1>5, <2>1 DEF jobStarts, jobEnds, tableVars
<1>6. ASSUME NEW e \in inbox, processDelivery(e)  PROVE JobsInv'
  BY <1>6, EventsKeepJobs
<1>7. ASSUME NEW j \in Jobs, NEW m \in Hosts, tryAssign(j, m)  PROVE JobsInv'
  BY <1>7, AssignKeepsJobs
<1>8. ASSUME NEW r \in Runners, storeJitConfig(r)  PROVE JobsInv'
  <2>1. CASE cmd[r].st = "pending"
    <3>1. PICK c : c = [cmd[r] EXCEPT !.jit = TRUE, !.id = TRUE]
      OBVIOUS
    <3>2. c \in CommandRow /\ c.job = cmd[r].job /\ c.m = cmd[r].m /\ c.st = "pending"
      <4>1. cmd[r] \in CommandRow
        BY <1>0
      <4> QED
        BY <2>1, <3>1, <4>1 DEF CommandRow
    <3>3. cmd' = [cmd EXCEPT ![r] = c]
      BY <1>0, <1>8, <2>1, <3>1 DEF storeJitConfig
    <3> QED
      BY <1>2, <1>8, <2>1, <3>2, <3>3 DEF storeJitConfig
  <2>2. CASE cmd[r].st # "pending"
    BY <1>0, <1>1, <1>8, <2>2 DEF storeJitConfig
  <2> QED
    BY <2>1, <2>2
<1>9. ASSUME NEW r \in Runners, mintFails(r)  PROVE JobsInv'
  BY <1>9, FailKeepsJobs DEF mintFails
<1>10. ASSUME NEW r \in Runners, drainRunnerDeletions(r)  PROVE JobsInv'
  BY <1>0, <1>1, <1>10 DEF drainRunnerDeletions
<1>11. ASSUME NEW r \in Runners, claim(r)  PROVE JobsInv'
  <2>1. PICK c : c = [cmd[r] EXCEPT !.st = "claimed", !.jit = FALSE]
    OBVIOUS
  <2>2. c \in CommandRow /\ c.job = cmd[r].job /\ c.m = cmd[r].m /\ c.st = "claimed"
    <3>1. cmd[r] \in CommandRow
      BY <1>0
    <3> QED
      BY <2>1, <3>1 DEF CommandRow
  <2>3. cmd' = [cmd EXCEPT ![r] = c]
    BY <1>0, <1>11, <2>1 DEF claim
  <2> QED
    BY <1>2, <1>11, <2>2, <2>3 DEF claim
<1>12. ASSUME NEW r \in Runners, provisionerFails(r)  PROVE JobsInv'
  BY <1>0, <1>1, <1>12 DEF provisionerFails, tableVars
<1>13. ASSUME NEW r \in Runners, tearDown(r)  PROVE JobsInv'
  <2>1. inbox' \subseteq Events
    BY <1>0, <1>13 DEF tearDown
  <2> QED
    BY <1>1, <1>13, <2>1 DEF tearDown, tableVars
<1>14. ASSUME NEW r \in Runners, report(r)  PROVE JobsInv'
  <2>1. CASE UNCHANGED tableVars
    BY <1>0, <1>1, <1>14, <2>1 DEF report, tableVars
  <2>2. CASE failAttempt(r)
    BY <1>14, <2>2, FailKeepsJobs DEF report
  <2>3. CASE /\ cmd[r].st \notin {"none", "deleted", "pending"} /\ cmd' = [cmd EXCEPT ![r].st = "finished"]
             /\ UNCHANGED <<jobs, used, handed, misled>>
    <3>1. PICK c : c = [cmd[r] EXCEPT !.st = "finished"]
      OBVIOUS
    <3>2. cmd[r] \in CommandRow
      BY <1>0
    <3>3. c \in CommandRow /\ c.job = cmd[r].job /\ c.m = cmd[r].m /\ c.st = "finished"
      BY <3>1, <3>2 DEF CommandRow
    <3>4. cmd' = [cmd EXCEPT ![r] = c]
      BY <1>0, <2>3, <3>1
    <3>5. cmd[r].st \in {"pending", "claimed", "finished", "cancelled"}
      BY <2>3, <3>2 DEF CommandRow
    <3>6. inbox' = inbox
      BY <1>14 DEF report
    <3> QED
      BY <1>2, <2>3, <3>3, <3>4, <3>5, <3>6
  <2> QED
    BY <1>14, <2>1, <2>2, <2>3 DEF report
<1>15. ASSUME NEW m \in Hosts, agentHeartbeat(m) \/ silence(m)  PROVE JobsInv'
  BY <1>0, <1>1, <1>15 DEF agentHeartbeat, silence, tableVars
<1>16. ASSUME NEW late \in SUBSET Jobs, NEW stale \in SUBSET Jobs, reconcile(late, stale)  PROVE JobsInv'
  BY <1>16, ReconcileKeepsJobs
<1> QED
  BY <1>3, <1>4, <1>5, <1>6, <1>7, <1>8, <1>9, <1>10, <1>11, <1>12, <1>13, <1>14, <1>15, <1>16 DEF JobsNext

LEMMA JobsInvRight == JobsInv => JobsRight
<1> SUFFICES ASSUME JobsInv  PROVE JobsRight
  OBVIOUS
<1>1. misled = {} => JobSlotsExact
  BY DEF JobsInv, SlotsFit, Charged, JobSlotsExact, Holding, Holds
<1>2. ASSUME NEW j \in Jobs, j \notin misled  PROVE Single(j)
  <2>1. PICK live : live = {r \in Runners : LiveCommand(cmd, r) /\ cmd[r].job = j}
    OBVIOUS
  <2>2. \A r \in live : jobs[j].st \in {"assigned", "running"} /\ r = jobs[j].r
    BY <1>2, <2>1 DEF JobsInv, RowsFit, CommandsFit, CommandFits, LiveCommand
  <2>3. CASE jobs[j].st \in {"assigned", "running"}
    <3>1. live \subseteq {jobs[j].r}
      BY <2>2
    <3>2. IsFiniteSet({jobs[j].r}) /\ Cardinality({jobs[j].r}) = 1
      BY FS_Singleton
    <3>3. Cardinality(live) <= 1
      BY <3>1, <3>2, FS_Subset
    <3> QED
      BY <2>1, <2>3, <3>3 DEF Single
  <2>4. CASE jobs[j].st \notin {"assigned", "running"}
    <3>1. live = {}
      BY <2>2, <2>4
    <3>2. Cardinality(live) <= 0
      BY <3>1, FS_EmptySet
    <3> QED
      BY <2>1, <2>4, <3>2 DEF Single
  <2> QED
    BY <2>3, <2>4
<1> QED
  BY <1>1, <1>2 DEF JobsRight, OneLiveCommandApart

(* Through events in any order, runners that start each other's jobs, failed   *)
(* mints, silent machines, retries and the reconciler: a machine is charged    *)
(* for exactly what runs on it and no job has two runners, for any jobs,       *)
(* machines, slots and attempts, as long as no late issueJit has failed        *)
(* another assignment of its job (jobs.ts, scheduler.ts, reconcile.ts).        *)
THEOREM JobsStayRight == JobsSpec => []JobsRight
BY JobsInitInv, JobsStep, JobsInvRight, PTL DEF JobsSpec
=============================================================================
