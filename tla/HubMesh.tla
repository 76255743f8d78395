------------------------------- MODULE HubMesh -------------------------------
(* The Hub's mesh links: one serial pass after another brings the Nodes to    *)
(* the links the Hub keeps, over erainfra-mesh where both ends have its       *)
(* sidecar and over dumbpipe where one has not, and moves a link from the     *)
(* second to the first (src/apps/hub/src/runtime/{meshControl,links,          *)
(* appdeploy}.ts, the mesh routes of src/apps/hub/src/router.ts). A sidecar   *)
(* keeps its grants and listeners when its agent restarts; dumbpipe processes *)
(* end with the agent. Link names are distinct, so no two links conflict.     *)
EXTENDS Naturals, FiniteSets

CONSTANTS
  Peers,         \* Nodes
  Links,
  Provider, Consumer,   \* the ends of each link
  Broken,        \* Nodes whose sidecar answers no command
  Cloned,        \* Nodes whose status is not accepted, or repeats another's
  Require,       \* ERAINFRA_MESH_REQUIRE
  MaxFaults,     \* commands lost on other Nodes, before or after their effect
  MaxHellos,     \* connections, losses of them and restarts of the Hub
  MaxRequests    \* requests to link or unlink

ASSUME MeshAssumption ==
  /\ Provider \in [Links -> Peers] /\ Consumer \in [Links -> Peers]
  /\ \A l \in Links : Provider[l] # Consumer[l]
  /\ Broken \subseteq Peers /\ Cloned \subseteq Peers
  /\ Require \in BOOLEAN
  /\ MaxFaults \in Nat /\ MaxHellos \in Nat /\ MaxRequests \in Nat

VARIABLES
  stored,      \* links: the ones the Hub keeps
  transport,   \* link_transports
  legacyUp,    \* dumbpipe pairs this Hub process knows to be up
  connected,   \* Nodes with a control connection
  capable,     \* the ones that advertise erainfra-mesh/v1
  granted,     \* links whose consumer the provider's sidecar admits
  listening,   \* links the consumer's sidecar listens for
  shared,      \* links with a dumbpipe share on the provider
  piped,       \* links with a dumbpipe listener on the consumer
  pass,        \* the pass in progress
  drops,       \* meshDrop commands of unlink still to send
  faults, hellos, requests

meshVars == <<stored, transport, legacyUp, connected, capable, granted, listening,
              shared, piped, pass, drops, faults, hellos, requests>>
sidecars == <<granted, listening>>
pipes == <<shared, piped>>
counters == <<faults, hellos, requests>>
presence == <<connected, capable>>

NoPass == [at |-> "idle", links |-> {}, extra |-> {}, seen |-> {}, capable |-> {}, todo |-> {},
           endpoints |-> {}, authorized |-> {}, after |-> {}, ok |-> {}]

Ends(l) == {Provider[l], Consumer[l]}

MeshInit ==
  /\ stored = {} /\ transport = [l \in Links |-> "none"] /\ legacyUp = {}
  /\ connected = {} /\ capable = {}
  /\ granted = {} /\ listening = {} /\ shared = {} /\ piped = {}
  /\ pass = NoPass /\ drops = {}
  /\ faults = 0 /\ hellos = 0 /\ requests = 0

-----------------------------------------------------------------------------
(* A command of the pass to Node n: it is done; it has no effect and is       *)
(* reported failed, as always on a Node that left or whose sidecar is broken; *)
(* or it has its effect and its answer is lost.                               *)
Done(n) == n \in connected \ Broken /\ UNCHANGED faults
Lost(n) ==
  \/ n \notin connected \ Broken /\ UNCHANGED faults
  \/ n \in connected \ Broken /\ faults < MaxFaults /\ faults' = faults + 1
Late(n) == n \in connected \ Broken /\ faults < MaxFaults /\ faults' = faults + 1

At(phase) == pass.at = phase
Goto(phase, todo) == pass' = [pass EXCEPT !.at = phase, !.todo = todo]

-----------------------------------------------------------------------------
(* Connections and requests.                                                  *)

(* A hello, of a Node with a sidecar or without. Its dumbpipe pairs are no    *)
(* longer known to be up, and are gone if the agent restarted.                *)
meshHello(n, withMesh, restarted) ==
  LET mine == {l \in Links : n \in Ends(l)} IN
  /\ hellos < MaxHellos
  /\ hellos' = hellos + 1
  /\ connected' = connected \cup {n}
  /\ capable' = IF withMesh THEN capable \cup {n} ELSE capable \ {n}
  /\ legacyUp' = legacyUp \ mine
  /\ shared' = IF restarted THEN {l \in shared : Provider[l] # n} ELSE shared
  /\ piped' = IF restarted THEN {l \in piped : Consumer[l] # n} ELSE piped
  /\ UNCHANGED <<stored, transport, sidecars, pass, drops, faults, requests>>

goodbye(n) ==
  /\ n \in connected /\ hellos < MaxHellos
  /\ hellos' = hellos + 1
  /\ connected' = connected \ {n} /\ capable' = capable \ {n}
  /\ UNCHANGED <<stored, transport, legacyUp, sidecars, pipes, pass, drops, faults, requests>>

(* A restart of the Hub: the pass, the pairs it knew of and the connections.  *)
boot ==
  /\ hellos < MaxHellos /\ hellos' = hellos + 1
  /\ connected' = {} /\ capable' = {} /\ legacyUp' = {}
  /\ pass' = NoPass /\ drops' = {}
  /\ UNCHANGED <<stored, transport, sidecars, pipes, faults, requests>>

(* unlink deletes the link first; a dumbpipe pair is ended on both ends, best *)
(* effort, and a pass, or the healer's next one, revokes the mesh half.       *)
unlink(l) ==
  /\ l \in stored /\ requests < MaxRequests
  /\ requests' = requests + 1
  /\ stored' = stored \ {l}
  /\ drops' = IF transport[l] = "mesh" THEN drops
              ELSE drops \cup ({l} \X {"consumer", "provider"})
  /\ UNCHANGED <<transport, legacyUp, presence, sidecars, pipes, pass, faults, hellos>>

(* The dumbpipe half of link l on the given ends, after commands that may be  *)
(* lost: their failure is ignored.                                            *)
Dropped(ends) ==
  \E gone \in SUBSET ends :
    /\ \A e \in gone : (IF e[2] = "provider" THEN Provider[e[1]] ELSE Consumer[e[1]]) \in connected
    /\ \/ gone = {e \in ends : (IF e[2] = "provider" THEN Provider[e[1]] ELSE Consumer[e[1]])
                                  \in connected} /\ UNCHANGED faults
       \/ faults < MaxFaults /\ faults' = faults + 1
    /\ shared' = shared \ {l \in Links : <<l, "provider">> \in gone}
    /\ piped' = piped \ {l \in Links : <<l, "consumer">> \in gone}

meshDrop(e) ==
  /\ e \in drops
  /\ drops' = drops \ {e}
  /\ Dropped({e})
  /\ UNCHANGED <<stored, transport, legacyUp, presence, sidecars, pass, hellos, requests>>

-----------------------------------------------------------------------------
(* The pass (reconcileOnce).                                                  *)

(* reconcileMesh: passes run one at a time and read the links when they       *)
(* start; the healer's timer, a hello and a removal start one, and so does    *)
(* establishLink, which adds a link the Hub does not keep yet.                *)
begin(extra) ==
  /\ At("idle")
  /\ pass' = [NoPass EXCEPT !.at = "status", !.links = stored \cup extra, !.extra = extra,
                            !.seen = connected, !.capable = capable, !.todo = capable]
sweep ==
  /\ begin({})
  /\ UNCHANGED <<stored, transport, legacyUp, presence, sidecars, pipes, drops, counters>>
establishLink(l) ==
  /\ requests < MaxRequests /\ begin({l})
  /\ requests' = requests + 1
  /\ UNCHANGED <<stored, transport, legacyUp, presence, sidecars, pipes, drops, faults, hellos>>

(* Mutant of meshStatus: a Node that fails to answer ends the pass.          *)
meshStatusAborts(n) ==
  /\ At("status") /\ n \in pass.todo
  /\ \/ Done(n) /\ pass' = [pass EXCEPT !.todo = @ \ {n}, !.endpoints = @ \cup {n}]
     \/ Lost(n) /\ pass' = NoPass
  /\ UNCHANGED <<stored, transport, legacyUp, presence, sidecars, pipes, drops, hellos, requests>>

(* The first round. A Node that fails to answer is left out, which takes its  *)
(* links' grants away everywhere; an answer that is not a status, or names an *)
(* endpoint already named, ends the whole pass.                               *)
meshStatus(n) ==
  /\ At("status") /\ n \in pass.todo
  /\ \/ /\ Done(n) /\ n \notin Cloned
        /\ pass' = [pass EXCEPT !.todo = @ \ {n}, !.endpoints = @ \cup {n}]
     \/ /\ Done(n) /\ n \in Cloned
        /\ pass' = NoPass
     \/ /\ Lost(n)
        /\ pass' = [pass EXCEPT !.todo = @ \ {n}]
  /\ UNCHANGED <<stored, transport, legacyUp, presence, sidecars, pipes, drops, hellos, requests>>
BothCapable(l) == Ends(l) \subseteq pass.capable
OnMesh == {l \in pass.links : transport[l] = "mesh" \/ BothCapable(l)}
OnLegacy == pass.links \ OnMesh

(* meshDesired: what Node n is to expose and to listen for, among the links   *)
(* whose two ends answered.                                                   *)
Exposures(n, ls) == {l \in ls : Provider[l] = n /\ Consumer[l] \in pass.endpoints}
Listeners(n, ls) == {l \in ls : Consumer[l] = n /\ Provider[l] \in pass.endpoints}

authorizeAll ==
  /\ At("status") /\ pass.todo = {}
  /\ Goto("authorize", pass.endpoints)
  /\ UNCHANGED <<stored, transport, legacyUp, presence, sidecars, pipes, drops, counters>>

(* The authorize stage on one Node: absent exposures and listeners go, then   *)
(* the wanted exposures come. It may stop after the first half.               *)
Revoked(n) ==
  /\ granted' = {l \in granted : Provider[l] = n => l \in Exposures(n, OnMesh)}
  /\ listening' = {l \in listening : Consumer[l] = n => l \in Listeners(n, OnMesh)}
Authorized(n) ==
  /\ granted' = {l \in granted : Provider[l] # n} \cup Exposures(n, OnMesh)
  /\ listening' = {l \in listening : Consumer[l] = n => l \in Listeners(n, OnMesh)}

authorize(n) ==
  /\ At("authorize") /\ n \in pass.todo
  /\ \/ /\ Done(n) /\ Authorized(n)
        /\ pass' = [pass EXCEPT !.todo = @ \ {n}, !.authorized = @ \cup {n}]
     \/ /\ \/ Lost(n) /\ UNCHANGED sidecars
           \/ Late(n) /\ (Authorized(n) \/ Revoked(n))
        /\ pass' = [pass EXCEPT !.todo = @ \ {n}]
  /\ UNCHANGED <<stored, transport, legacyUp, presence, pipes, drops, hellos, requests>>

(* Mutant of HeldBack: links go on whatever their ends answered.             *)
HeldNone == {}
(* A link that moves to the mesh stays off the second stage unless both its   *)
(* ends were authorized; the others' dumbpipe listeners make room.            *)
HeldBack == {l \in OnMesh : transport[l] # "mesh" /\ ~(Ends(l) \subseteq pass.authorized)}

Moving == {l \in OnMesh \ HeldBack : transport[l] # "mesh"}

freePorts ==
  /\ At("authorize") /\ pass.todo = {}
  /\ Dropped({<<l, "consumer">> : l \in Moving})
  /\ Goto("links", pass.authorized)
  /\ UNCHANGED <<stored, transport, legacyUp, presence, sidecars, drops, hellos, requests>>

(* The links stage on one Node: its listeners open, unless a dumbpipe that    *)
(* could not be dropped still holds a port.                                   *)
openListeners(n) ==
  LET wanted == Listeners(n, OnMesh \ HeldBack)
      free == wanted \ piped IN
  /\ At("links") /\ n \in pass.todo
  /\ \/ /\ Done(n) /\ wanted = free
        /\ listening' = listening \cup wanted
        /\ pass' = [pass EXCEPT !.todo = @ \ {n}, !.after = @ \cup {n}]
     \/ /\ \/ Lost(n) /\ UNCHANGED listening
           \/ Late(n) /\ listening' = listening \cup free
           \/ Done(n) /\ wanted # free /\ listening' \in {listening, listening \cup free}
        /\ pass' = [pass EXCEPT !.todo = @ \ {n}]
  /\ UNCHANGED <<stored, transport, legacyUp, presence, granted, pipes, drops, hellos, requests>>

(* Mutant of meshLinkVerified: what was sent is taken to be in place.        *)
linkAssumed(l) == Ends(l) \subseteq pass.authorized
(* Both sidecars report the grant and the listener.                           *)
meshLinkVerified(l) == Ends(l) \subseteq pass.after /\ l \in granted /\ l \in listening

verifyAll ==
  /\ At("links") /\ pass.todo = {}
  /\ Goto("verify", OnMesh)
  /\ UNCHANGED <<stored, transport, legacyUp, presence, sidecars, pipes, drops, counters>>

(* A confirmed link leaves dumbpipe for good and is recorded.                 *)
verify(l) ==
  /\ At("verify") /\ l \in pass.todo
  /\ pass' = [pass EXCEPT !.todo = @ \ {l}, !.ok = IF meshLinkVerified(l) THEN @ \cup {l} ELSE @]
  /\ IF meshLinkVerified(l) /\ transport[l] # "mesh"
       THEN /\ Dropped({<<l, "provider">>})
            /\ legacyUp' = legacyUp \ {l}
            /\ transport' = [transport EXCEPT ![l] = "mesh"]
       ELSE UNCHANGED <<pipes, faults, legacyUp, transport>>
  /\ UNCHANGED <<stored, presence, sidecars, drops, hellos, requests>>

legacyAll ==
  /\ At("verify") /\ pass.todo = {}
  /\ Goto("legacy", OnLegacy)
  /\ UNCHANGED <<stored, transport, legacyUp, presence, sidecars, pipes, drops, counters>>

(* LinkTransportStore.set: "mesh" is final.                                   *)
transportSet(l, t) == [transport EXCEPT ![l] = IF @ = "mesh" THEN @ ELSE t]

(* The links with an end that has no sidecar: refused, left alone when an end *)
(* is away or the pair is known to be up, and otherwise set up.               *)
legacy(l) ==
  LET p == Provider[l]
      c == Consumer[l] IN
  /\ At("legacy") /\ l \in pass.todo
  /\ \/ /\ Require
        /\ pass' = [pass EXCEPT !.todo = @ \ {l}]
        /\ IF l \in legacyUp
             THEN Dropped({l} \X {"consumer", "provider"}) /\ legacyUp' = legacyUp \ {l}
             ELSE UNCHANGED <<pipes, faults, legacyUp>>
        /\ UNCHANGED transport
     \/ /\ ~Require /\ (~(Ends(l) \subseteq pass.seen) \/ l \in legacyUp)
        /\ pass' = [pass EXCEPT !.todo = @ \ {l},
                                !.ok = IF Ends(l) \subseteq pass.seen THEN @ \cup {l} ELSE @]
        /\ UNCHANGED <<pipes, faults, legacyUp, transport>>
     \/ /\ ~Require /\ Ends(l) \subseteq pass.seen /\ l \notin legacyUp
        /\ \/ (* Both commands are done. *)
              /\ Ends(l) \subseteq connected
              /\ shared' = shared \cup {l} /\ piped' = piped \cup {l}
              /\ legacyUp' = legacyUp \cup {l} /\ transport' = transportSet(l, "legacy")
              /\ pass' = [pass EXCEPT !.todo = @ \ {l}, !.ok = @ \cup {l}]
              /\ UNCHANGED faults
           \/ (* One of them fails; the ones before it, and itself if only its answer was lost, had effect. *)
              /\ \/ ~(Ends(l) \subseteq connected) /\ UNCHANGED faults
                 \/ faults < MaxFaults /\ faults' = faults + 1
              /\ \/ UNCHANGED pipes
                 \/ p \in connected /\ shared' = shared \cup {l} /\ UNCHANGED piped
                 \/ Ends(l) \subseteq connected
                      /\ shared' = shared \cup {l} /\ piped' = piped \cup {l}
              /\ pass' = [pass EXCEPT !.todo = @ \ {l}]
              /\ UNCHANGED <<legacyUp, transport>>
  /\ UNCHANGED <<stored, presence, sidecars, drops, hellos, requests>>

(* The pairs and the transports of links no longer wanted are forgotten; a    *)
(* link the pass established is kept from now on.                             *)
finish ==
  /\ At("legacy") /\ pass.todo = {}
  /\ Dropped((legacyUp \ pass.links) \X {"consumer", "provider"})
  /\ legacyUp' = legacyUp \cap pass.links
  /\ transport' = [l \in Links |-> IF l \in pass.links THEN transport[l] ELSE "none"]
  /\ stored' = stored \cup (pass.extra \cap pass.ok)
  /\ pass' = NoPass
  /\ UNCHANGED <<presence, sidecars, drops, hellos, requests>>

PassStep ==
  \/ \E n \in Peers : meshStatus(n) \/ authorize(n) \/ openListeners(n)
  \/ \E l \in Links : verify(l) \/ legacy(l)
  \/ authorizeAll \/ freePorts \/ verifyAll \/ legacyAll \/ finish

MeshNext ==
  \/ \E n \in Peers, withMesh, restarted \in BOOLEAN : meshHello(n, withMesh, restarted)
  \/ \E n \in Peers : goodbye(n)
  \/ \E l \in Links : unlink(l) \/ establishLink(l)
  \/ \E e \in drops : meshDrop(e)
  \/ sweep \/ boot \/ PassStep

MeshSpec == MeshInit /\ [][MeshNext]_meshVars

(* Commands end, by an answer or by their timeouts, and the healer's timer    *)
(* starts a pass every minute; without a connected Node it would change       *)
(* nothing on any.                                                            *)
MeshFairness ==
  /\ WF_meshVars(PassStep)
  /\ WF_meshVars(connected # {} /\ sweep)
  /\ WF_meshVars(\E e \in drops : meshDrop(e))

-----------------------------------------------------------------------------
(* A capable Node is a connected one, and the link tables have their types.   *)
MeshTypeOK ==
  /\ stored \subseteq Links /\ legacyUp \subseteq Links
  /\ transport \in [Links -> {"none", "legacy", "mesh"}]
  /\ connected \subseteq Peers /\ capable \subseteq connected
  /\ granted \cup listening \cup shared \cup piped \subseteq Links

(* A link recorded as mesh has no dumbpipe listener left on its consumer,     *)
(* although the command that drops it may fail unnoticed: the listener would  *)
(* keep the port, and the sidecar could not confirm the link.                 *)
PortsFreed == \A l \in Links : transport[l] = "mesh" => l \notin piped

(* A link that moves to the mesh listens only once its provider admits its    *)
(* consumer: "every provider's grants are in place before any consumer        *)
(* listens" (meshControl.ts).                                                 *)
ListensAfterGrant ==
  [][\A l \in Links : l \in listening' \ listening /\ transport[l] # "mesh" => l \in granted]_meshVars

(* "One unreachable Node must not keep a revoked grant alive on every other   *)
(* provider" (meshControl.ts): once requests and faults stop, a link the Hub  *)
(* does not keep has no grant on a provider that answers, whatever the other  *)
(* Nodes do.                                                                  *)
Answers(n) == n \in capable \ Broken
GrantsRevoked == <>[](\A l \in Links \ stored : Answers(Provider[l]) => l \notin granted)

(* A link the Hub keeps ends up on the mesh, admitted and listened for, when  *)
(* both its ends answer: one that dumbpipe carried has moved.                 *)
LinksSecured ==
  <>[](\A l \in stored : (\A n \in Ends(l) : Answers(n))
         => l \in granted \cap listening /\ transport[l] = "mesh")
=============================================================================
