----------------------------- MODULE MeshState -----------------------------
(* What Convex tells each Node of the mesh and the public ingress             *)
(* (packages/backend/convex/infra/nodes.ts, nodeState.ts, ingress.ts,         *)
(* ports.ts, apps.ts and the link and App bodies of operator.ts).             *)
(*                                                                            *)
(* A Node is enrolled with credentials and proves the key of its mesh         *)
(* endpoint by signing a challenge. The desired state of a Node is derived,   *)
(* in one query, from the rows of the moment: an App's Node exposes each of   *)
(* its routes to the gateways, a gateway links to each of them. Every Node    *)
(* polls for its own desired state when it likes, so two Nodes may act on     *)
(* snapshots of different moments. Each App here has one routed service, the  *)
(* label being the App's name; the App `Bare` is a single container that the  *)
(* Hub deployed, with a route row and no App row. The per-snapshot budgets of *)
(* 128 links and exposures are not reached.                                   *)
EXTENDS Naturals, FiniteSets, TLC

CONSTANTS
  MeshNodes,      \* Nodes
  Creds,          \* credentials a Node may be issued
  Keys,           \* endpoint keys
  KeyAtStart,     \* the key each Node has proven at the start
  Labels,         \* Apps, each with one routed service
  Bare,           \* the App that the Hub deployed as a single container
  MeshPorts,      \* the ports Convex allocates, a range of numbers
  Nil,            \* nothing there
  MaxMeshActs     \* changes made to the rows

ASSUME MeshAssumption ==
  /\ Creds # {} /\ KeyAtStart \in [MeshNodes -> Keys]
  /\ \A a, b \in MeshNodes : KeyAtStart[a] = KeyAtStart[b] => a = b
  /\ Bare \notin Labels /\ MeshPorts \subseteq Nat /\ MaxMeshActs \in Nat

VARIABLES
  node,        \* per Node: live credentials, endpoint, proven address, gateway role
  challenge,   \* per Node: the outstanding challenge, with the resets it was issued after
  resets,      \* history: times the endpoint was reset or lost with the last credential
  basis,       \* history: the resets behind the proof of the present address
  appRow,      \* App rows: where the service runs, and its port
  routeRow,    \* route rows, one per label
  alloc,       \* per Node and port, the App that holds it
  meshLink,    \* a standalone link: provider, consumer and the consumer's port
  applied,     \* per Node: the snapshot it acts on
  meshActs

nodeRows == <<node, challenge, resets, basis>>
meshRows == <<appRow, routeRow, alloc, meshLink>>
meshVars == <<nodeRows, meshRows, applied, meshActs>>

AllLabels == Labels \cup {Bare}

(* A fleet at work: every Node is enrolled and has proven its key, and some   *)
(* are gateways.                                                              *)
MeshInit ==
  \E gates \in SUBSET MeshNodes :
    /\ node = [n \in MeshNodes |->
                 [creds |-> {CHOOSE c \in Creds : TRUE}, id |-> KeyAtStart[n],
                  addr |-> KeyAtStart[n], gateway |-> n \in gates]]
    /\ challenge = [n \in MeshNodes |-> Nil]
    /\ resets = [n \in MeshNodes |-> 0]
    /\ basis = [n \in MeshNodes |-> 0]
    /\ appRow = [a \in Labels |-> Nil]
    /\ routeRow = [l \in AllLabels |-> Nil]
    /\ alloc = [n \in MeshNodes |-> [p \in MeshPorts |-> Nil]]
    /\ meshLink = Nil
    /\ applied = [n \in MeshNodes |-> [links |-> [l \in {} |-> Nil], exposes |-> [l \in {} |-> Nil]]]
    /\ meshActs = 0

Act == meshActs < MaxMeshActs /\ meshActs' = meshActs + 1 /\ UNCHANGED applied

-----------------------------------------------------------------------------
(* Credentials and endpoints.                                                 *)

EnrollNode(n, c) ==
  /\ Act /\ c \notin node[n].creds
  /\ node' = [node EXCEPT ![n].creds = @ \cup {c}]
  /\ UNCHANGED <<challenge, resets, basis, meshRows>>

KeepsChallenge(n, creds) ==   \* a mutant: challenges outlive the reset
  /\ node' = [node EXCEPT ![n].creds = creds, ![n].id = Nil, ![n].addr = Nil]
  /\ resets' = [resets EXCEPT ![n] = @ + 1]
  /\ UNCHANGED challenge

(* Forgets the endpoint and every challenge issued for it.                    *)
ClearEndpoint(n, creds) ==
  /\ node' = [node EXCEPT ![n].creds = creds, ![n].id = Nil, ![n].addr = Nil]
  /\ resets' = [resets EXCEPT ![n] = @ + 1]
  /\ challenge' = [challenge EXCEPT ![n] = Nil]

(* Revoking the last live credential revokes the mesh identity with it.       *)
RevokeLast(n, c) ==
  /\ Act /\ node[n].creds = {c} /\ ClearEndpoint(n, {})
  /\ UNCHANGED <<basis, meshRows>>

RevokeOne(n, c) ==
  /\ Act /\ c \in node[n].creds /\ node[n].creds # {c}
  /\ node' = [node EXCEPT ![n].creds = @ \ {c}]
  /\ UNCHANGED <<challenge, resets, basis, meshRows>>

ResetNodeEndpoint(n) == Act /\ ClearEndpoint(n, node[n].creds) /\ UNCHANGED <<basis, meshRows>>

SetPlacementRoles(n) ==
  /\ Act /\ node' = [node EXCEPT ![n].gateway = ~@]
  /\ UNCHANGED <<challenge, resets, basis, meshRows>>

(* A key may be published where no other Node holds it and the Node has no    *)
(* other one.                                                                 *)
EndpointAvailable(n, k) ==
  /\ node[n].id \in {Nil, k}
  /\ \A m \in MeshNodes \ {n} : node[m].id # k

Unchecked(n, k) == node[n].id \in {Nil, k}   \* a mutant: other Nodes are not asked

(* Asked with a live credential; replaces the challenge before it.            *)
Challenge(n, c, k) ==
  /\ Act /\ c \in node[n].creds /\ EndpointAvailable(n, k)
  /\ challenge' = [challenge EXCEPT ![n] = [cred |-> c, key |-> k, after |-> resets[n]]]
  /\ UNCHANGED <<node, resets, basis, meshRows>>

(* The signed answer, with the same credential, before the challenge expires. *)
AvailableStill(n, k) == EndpointAvailable(n, k)
Publish(n) ==
  /\ challenge[n] # Nil /\ challenge[n].cred \in node[n].creds
  /\ AvailableStill(n, challenge[n].key)
  /\ node' = [node EXCEPT ![n].id = challenge[n].key, ![n].addr = challenge[n].key]
  /\ basis' = [basis EXCEPT ![n] = challenge[n].after]
  /\ challenge' = [challenge EXCEPT ![n] = Nil]
  /\ UNCHANGED <<resets, meshRows, applied, meshActs>>

ChallengeExpires(n) ==
  /\ challenge[n] # Nil /\ challenge' = [challenge EXCEPT ![n] = Nil]
  /\ UNCHANGED <<node, resets, basis, meshRows, applied, meshActs>>

(* The registration of phase 2a: an id with no proof.                         *)
RegisterEndpoint(n, k) ==
  /\ Act /\ EndpointAvailable(n, k) /\ node' = [node EXCEPT ![n].id = k]
  /\ UNCHANGED <<challenge, resets, basis, meshRows>>

-----------------------------------------------------------------------------
(* Apps, routes, ports and links.                                             *)

Held(n, l) == {p \in MeshPorts : alloc[n][p] = l}
FreePorts(n) == {p \in MeshPorts : alloc[n][p] = Nil}
LowestFree(S) == CHOOSE p \in S : \A q \in S : p <= q

(* A deploy or failover planned on a Node allocates its port, which is the    *)
(* one it already holds there if any ...                                      *)
AllocatePort(n, a) ==
  /\ Act /\ Held(n, a) = {} /\ FreePorts(n) # {}
  /\ alloc' = [alloc EXCEPT ![n][LowestFree(FreePorts(n))] = a]
  /\ UNCHANGED <<nodeRows, appRow, routeRow, meshLink>>

LeavesRoute(n, a) ==   \* a mutant: the route row does not follow
  /\ Act /\ Held(n, a) # {}
  /\ appRow' = [appRow EXCEPT ![a] = [at |-> n, port |-> LowestFree(Held(n, a))]]
  /\ routeRow' = IF routeRow[a] = Nil
                 THEN [routeRow EXCEPT ![a] = [at |-> n, port |-> LowestFree(Held(n, a))]] ELSE routeRow
  /\ UNCHANGED <<nodeRows, alloc, meshLink>>

(* ... and once it runs there, the App row and the route take the Node and    *)
(* the port of the placement in one transaction.                              *)
CommitRoute(n, a) ==
  /\ Act /\ Held(n, a) # {}
  /\ appRow' = [appRow EXCEPT ![a] = [at |-> n, port |-> LowestFree(Held(n, a))]]
  /\ routeRow' = [routeRow EXCEPT ![a] = [at |-> n, port |-> LowestFree(Held(n, a))]]
  /\ UNCHANGED <<nodeRows, alloc, meshLink>>

RemoveApp(a) ==
  /\ Act /\ appRow[a] # Nil
  /\ appRow' = [appRow EXCEPT ![a] = Nil]
  /\ routeRow' = [routeRow EXCEPT ![a] = Nil]
  /\ alloc' = [n \in MeshNodes |-> [p \in MeshPorts |-> IF alloc[n][p] = a THEN Nil ELSE alloc[n][p]]]
  /\ UNCHANGED <<nodeRows, meshLink>>

(* The importer writes what the Hub last knew, of a single container and of   *)
(* an App alike: its Node and port may be anybody's by now.                   *)
ImportRoute(l, n, p) ==
  /\ Act /\ (l \in Labels => appRow[l] = Nil)
  /\ routeRow' = [routeRow EXCEPT ![l] = [at |-> n, port |-> p]]
  /\ UNCHANGED <<nodeRows, appRow, alloc, meshLink>>

DeclareLink(from, to, p) ==
  /\ Act /\ from # to
  /\ meshLink' = [from |-> from, to |-> to, port |-> p]
  /\ UNCHANGED <<nodeRows, appRow, routeRow, alloc>>

RemoveLink ==
  /\ Act /\ meshLink # Nil /\ meshLink' = Nil
  /\ UNCHANGED <<nodeRows, appRow, routeRow, alloc>>

-----------------------------------------------------------------------------
(* The desired state of a Node.                                               *)

(* Its address, if it may be granted anything.                                *)
Grantable(n) == node[n].addr # Nil /\ node[n].id = node[n].addr /\ node[n].creds # {}

(* A route is served while its row names the placement that the App runs. A   *)
(* single container is served while nothing Convex knows of holds its port.   *)
ServesPlacement(l) ==
  LET r == routeRow[l] IN
  /\ r # Nil
  /\ IF l \in Labels
     THEN appRow[l] = r /\ alloc[r.at][r.port] = l
     ELSE /\ alloc[r.at][r.port] = Nil
          /\ meshLink = Nil \/ <<meshLink.to, meshLink.port>> # <<r.at, r.port>>

Gateways == {g \in MeshNodes : node[g].gateway}

(* The provider's side: its own routes, to the gateways that can be granted.  *)
AllowedPeers(n) == {node[g].addr : g \in {g \in Gateways \ {n} : Grantable(g)}}
Exposures(n) ==
  LET hosted == {l \in AllLabels : ServesPlacement(l) /\ routeRow[l].at = n} IN
  [l \in IF AllowedPeers(n) = {} THEN {} ELSE hosted |->
     [target |-> routeRow[l].port, peers |-> AllowedPeers(n)]]

(* A mutant: a link for a route whose Node refuses it.                        *)
LinksToEvery(g) ==
  LET served == {l \in AllLabels : routeRow[l] # Nil} IN
  [l \in IF node[g].gateway THEN {l \in served : routeRow[l].at # g} ELSE {} |->
     node[routeRow[l].at].addr]

(* The gateway's side: every accepted route, through a peer or by itself.     *)
IngressLinks(g) ==
  LET served == {l \in AllLabels : ServesPlacement(l) /\ Grantable(routeRow[l].at)
                                     /\ routeRow[l].at # g} IN
  [l \in IF node[g].gateway THEN served ELSE {} |-> node[routeRow[l].at].addr]

Desired(n) == [links |-> IngressLinks(n), exposes |-> Exposures(n)]

(* A poll with a live credential. An unchanged revision changes nothing.      *)
Poll(n) ==
  /\ node[n].creds # {} /\ applied[n] # Desired(n)
  /\ applied' = [applied EXCEPT ![n] = Desired(n)]
  /\ UNCHANGED <<nodeRows, meshRows, meshActs>>

MeshNext ==
  \/ \E n \in MeshNodes, c \in Creds :
       EnrollNode(n, c) \/ RevokeLast(n, c) \/ RevokeOne(n, c)
  \/ \E n \in MeshNodes :
       ResetNodeEndpoint(n) \/ SetPlacementRoles(n) \/ Publish(n) \/ ChallengeExpires(n) \/ Poll(n)
  \/ \E n \in MeshNodes, k \in Keys : RegisterEndpoint(n, k)
  \/ \E n \in MeshNodes, c \in Creds, k \in Keys : Challenge(n, c, k)
  \/ \E n \in MeshNodes, a \in Labels : AllocatePort(n, a) \/ CommitRoute(n, a)
  \/ \E a \in Labels : RemoveApp(a)
  \/ \E l \in AllLabels, n \in MeshNodes, p \in MeshPorts : ImportRoute(l, n, p)
  \/ \E from, to \in MeshNodes, p \in MeshPorts : DeclareLink(from, to, p)
  \/ RemoveLink

MeshSpec == MeshInit /\ [][MeshNext]_meshVars

(* The Infra Agent polls for as long as it runs.                              *)
MeshFairness == \A n \in MeshNodes : WF_meshVars(Poll(n))

-----------------------------------------------------------------------------
(* A Node that is granted anything has proven its key since it was last reset *)
(* or lost its credentials, and no two Nodes ever hold the same key: a        *)
(* challenge signed before the reset, or answered after another Node took the *)
(* key, restores nothing (nodes.ts clearEndpoint, nodeState.ts publish).      *)
IdentityProven ==
  /\ \A n \in MeshNodes : Grantable(n) => basis[n] = resets[n]
  /\ \A n, m \in MeshNodes : n # m /\ node[n].id # Nil => node[n].id # node[m].id

(* The two ends agree: of the snapshots of one moment, a gateway that can be  *)
(* granted links to a route on another Node exactly when that Node exposes it *)
(* to that gateway, to the port the App holds there (or nobody does).         *)
GrantsMatch ==
  \A g, n \in MeshNodes, l \in AllLabels :
    (n # g /\ Grantable(g) /\ Grantable(n) /\ node[g].gateway) =>
      ((l \in DOMAIN IngressLinks(g) /\ IngressLinks(g)[l] = node[n].addr)
        <=> (l \in DOMAIN Exposures(n) /\ node[g].addr \in Exposures(n)[l].peers))

(* Grants follow proven keys, and both ends of a grant agree.                 *)
GrantsSound == IdentityProven /\ GrantsMatch

(* Once changes stop, the Nodes that may poll act on grants that meet: every  *)
(* deployed App is reached from every gateway at the port it holds, and a     *)
(* removed one from nowhere.                                                  *)
Reached(g, a) ==
  LET n == appRow[a].at IN
  \/ n = g
  \/ /\ a \in DOMAIN applied[g].links /\ applied[g].links[a] = node[n].addr
     /\ a \in DOMAIN applied[n].exposes
     /\ node[g].addr \in applied[n].exposes[a].peers
     /\ alloc[n][applied[n].exposes[a].target] = a
IngressAgrees ==
  \A g \in Gateways, a \in Labels :
    Grantable(g) =>
      IF appRow[a] = Nil THEN a \notin DOMAIN applied[g].links
      ELSE Grantable(appRow[a].at) => Reached(g, a)
=============================================================================
