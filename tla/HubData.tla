------------------------------- MODULE HubData -------------------------------
(* The Hub's data plane: every Node dials one data socket, and the Hub sends  *)
(* many HTTP requests over it at once (src/apps/hub/src/runtime/dataplane.ts, *)
(* driven by proxyAppRequest and the /data route of src/apps/hub/src/         *)
(* server.ts). A socket the Hub closes says so later, in an event of its own, *)
(* by when its Node may have dialled again.                                   *)
EXTENDS Naturals, FiniteSets

CONSTANTS
  Sites,         \* Nodes
  Sockets,       \* data sockets, each used once
  SiteOf,        \* SiteOf[s]: the Node that dials s
  Requests,      \* HTTP requests of clients, each for an App on one Node
  AppSite,       \* AppSite[r]: the Node the route table names for r
  MaxInflight,   \* MAX_INFLIGHT_PER_NODE
  NoSocket

ASSUME DataAssumption ==
  /\ SiteOf \in [Sockets -> Sites]
  /\ AppSite \in [Requests -> Sites]
  /\ MaxInflight \in Nat \ {0}
  /\ NoSocket \notin Sockets

VARIABLES
  wire,       \* of each socket: unused, open, closing (the Hub asked), closed
  idOf,       \* the sockets the gateway has a Node id for
  byId,       \* each Node's registered socket
  inflight,   \* the ids in each Node's entry
  quiet,      \* Nodes heard from too long ago for the reaper
  asked,      \* the socket each request was sent over
  request     \* new, waiting (pending), answered, failed, shed, offline, lost

dataVars == <<wire, idOf, byId, inflight, quiet, asked, request>>

Pending == {r \in Requests : request[r] = "waiting"}

DataInit ==
  /\ wire = [s \in Sockets |-> "unused"]
  /\ idOf = {}
  /\ byId = [n \in Sites |-> NoSocket]
  /\ inflight = [n \in Sites |-> {}]
  /\ quiet = {}
  /\ asked = [r \in Requests |-> NoSocket]
  /\ request = [r \in Requests |-> "new"]

Live(s) == wire[s] \in {"open", "closing"}
isConnected(n) == byId[n] # NoSocket

(* Mutant of rejectSocket: a closing socket leaves its requests waiting.     *)
rejectNone(s) == {}
(* What rejectSocket fails: the requests of the socket's Node; of every Node, *)
(* when the gateway has no id for the socket.                                 *)
rejectSocket(s) ==
  {r \in Pending : s \in idOf => AppSite[r] = SiteOf[s]}
Failed(rs, why) == [r \in Requests |-> IF r \in rs THEN why ELSE request[r]]

dial(s) ==
  /\ wire[s] = "unused"
  /\ wire' = [wire EXCEPT ![s] = "open"]
  /\ UNCHANGED <<idOf, byId, inflight, quiet, asked, request>>

(* The first frame: it replaces the Node's socket, whose id the gateway keeps.*)
dataHello(s) ==
  LET n == SiteOf[s]
      prev == byId[n] IN
  /\ wire[s] = "open" /\ s \notin idOf
  /\ byId' = [byId EXCEPT ![n] = s]
  /\ idOf' = idOf \cup {s}
  /\ inflight' = [inflight EXCEPT ![n] = {}]
  /\ quiet' = quiet \ {n}
  /\ IF prev = NoSocket
       THEN UNCHANGED <<wire, request>>
       ELSE /\ wire' = [wire EXCEPT ![prev] = IF @ = "open" THEN "closing" ELSE @]
            /\ request' = Failed(rejectSocket(prev), "failed")
  /\ UNCHANGED asked

(* No frame of the Node for longer than the reaper allows.                    *)
silence(n) ==
  /\ isConnected(n) /\ n \notin quiet
  /\ quiet' = quiet \cup {n}
  /\ UNCHANGED <<wire, idOf, byId, inflight, asked, request>>

(* Any frame, and a WebSocket ping, of a socket with an id.                   *)
touch(s) == IF s \in idOf THEN quiet \ {SiteOf[s]} ELSE quiet

ping(s) ==
  /\ Live(s) /\ touch(s) # quiet
  /\ quiet' = touch(s)
  /\ UNCHANGED <<wire, idOf, byId, inflight, asked, request>>

(* resp and err frames: whichever socket they come on, they settle a pending  *)
(* request and free its place in its Node's present entry.                    *)
reply(s, r) ==
  /\ Live(s) /\ asked[r] = s
  /\ quiet' = touch(s)
  /\ asked' = [asked EXCEPT ![r] = NoSocket]
  /\ IF r \in Pending
       THEN /\ request' = [request EXCEPT ![r] = "answered"]
            /\ inflight' = [inflight EXCEPT ![AppSite[r]] = @ \ {r}]
       ELSE UNCHANGED <<request, inflight>>
  /\ UNCHANGED <<wire, idOf, byId>>

(* What onClose does to the gateway's tables.                                 *)
Forgotten(s) ==
  /\ idOf' = idOf \ {s}
  /\ LET mine == s \in idOf /\ byId[SiteOf[s]] = s IN
     /\ byId' = IF mine THEN [byId EXCEPT ![SiteOf[s]] = NoSocket] ELSE byId
     /\ inflight' = IF mine THEN [inflight EXCEPT ![SiteOf[s]] = {}] ELSE inflight
     /\ quiet' = IF mine THEN quiet \ {SiteOf[s]} ELSE quiet
  /\ request' = Failed(rejectSocket(s), "failed")

(* The close event of a socket, whichever side closed it.                     *)
onClose(s) ==
  /\ Live(s)
  /\ wire' = [wire EXCEPT ![s] = "closed"]
  /\ Forgotten(s)
  /\ asked' = [r \in Requests |-> IF asked[r] = s THEN NoSocket ELSE asked[r]]

(* The reaper forgets a silent Node's socket at once and closes it; the close *)
(* event comes later. Two silent Nodes are reaped one after the other.        *)
reapStale(n) ==
  /\ n \in quiet
  /\ wire' = [wire EXCEPT ![byId[n]] = IF @ = "open" THEN "closing" ELSE @]
  /\ Forgotten(byId[n])
  /\ UNCHANGED asked

(* proxyAppRequest and proxy: 503 for a Node that is away, shed at the limit, *)
(* otherwise pending and in the entry, and on the wire.                       *)
proxy(r) ==
  LET n == AppSite[r] IN
  /\ request[r] = "new"
  /\ \/ /\ ~isConnected(n)
        /\ request' = [request EXCEPT ![r] = "offline"]
        /\ UNCHANGED <<inflight, asked>>
     \/ /\ isConnected(n) /\ Cardinality(inflight[n]) >= MaxInflight
        /\ request' = [request EXCEPT ![r] = "shed"]
        /\ UNCHANGED <<inflight, asked>>
     \/ /\ isConnected(n) /\ Cardinality(inflight[n]) < MaxInflight
        /\ request' = [request EXCEPT ![r] = "waiting"]
        /\ inflight' = [inflight EXCEPT ![n] = @ \cup {r}]
        /\ asked' = [asked EXCEPT ![r] = IF wire[byId[n]] = "open" THEN byId[n] ELSE NoSocket]
  /\ UNCHANGED <<wire, idOf, byId, quiet>>

(* PROXY_TIMEOUT_MS.                                                          *)
timeout(r) ==
  /\ r \in Pending
  /\ request' = [request EXCEPT ![r] = "lost"]
  /\ inflight' = [inflight EXCEPT ![AppSite[r]] = @ \ {r}]
  /\ UNCHANGED <<wire, idOf, byId, quiet, asked>>
DataNext ==
  \/ \E s \in Sockets : dial(s) \/ dataHello(s) \/ ping(s) \/ onClose(s)
  \/ \E n \in Sites : silence(n) \/ reapStale(n)
  \/ \E r \in Requests : proxy(r) \/ timeout(r) \/ \E s \in Sockets : reply(s, r)

DataSpec == DataInit /\ [][DataNext]_dataVars
-----------------------------------------------------------------------------
(* The gateway's tables have their types, and an entry belongs to a connected *)
(* Node.                                                                      *)
DataTypeOK ==
  /\ wire \in [Sockets -> {"unused", "open", "closing", "closed"}]
  /\ idOf \subseteq Sockets
  /\ byId \in [Sites -> Sockets \cup {NoSocket}]
  /\ inflight \in [Sites -> SUBSET Requests]
  /\ \A n \in quiet : isConnected(n)
  /\ asked \in [Requests -> Sockets \cup {NoSocket}]

(* However sockets are replaced, reaped and closed late, a Node never has     *)
(* more requests waiting for it than MAX_INFLIGHT_PER_NODE, and none waits on *)
(* a Node that is away: losing an entry rejects what was counted in it.       *)
WaitingWithinLimit ==
  \A n \in Sites :
    LET waiting == {r \in Pending : AppSite[r] = n} IN
    /\ Cardinality(waiting) <= MaxInflight
    /\ waiting # {} => isConnected(n)
=============================================================================
