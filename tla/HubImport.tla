----------------------------- MODULE HubImport -----------------------------
(* Copying a Hub's state into Convex, again and again, while the Hub keeps    *)
(* serving and Convex starts to write the same tables                         *)
(* (packages/backend/convex/infra/hubImport.ts, hubProvenance.ts and          *)
(* packages/backend/scripts/import-hub-state.ts).                             *)
(*                                                                            *)
(* One App with a routed service "web" and an unrouted one "db", one mesh     *)
(* link, one env variable, one bound branch, and the audit trail. A run reads *)
(* a snapshot of the Hub and applies it batch by batch, each batch in its own *)
(* transaction; people use the Hub and Convex between any two batches. A row  *)
(* stamped by the importer equals the Hub row it hashed, so "the same hash"   *)
(* is "the same content" here.                                                *)
EXTENDS Naturals, Sequences, SequencesExt, FiniteSets, TLC

CONSTANTS
  ImportNodes,       \* Nodes, by name
  ImportVals,        \* values of the link and of the env variable
  AuditRows,         \* audit rows in a batch (ROWS_PER_BATCH)
  MaxImports,        \* runs of the script
  MaxHubActs,        \* changes made on the Hub
  MaxConvexActs,     \* changes made in Convex
  Absent, Removed,   \* no row there; the row was removed in Convex
  MaxFailedBatches   \* batches whose transaction fails as a whole

ASSUME ImportAssumption ==
  /\ Cardinality(ImportNodes) > 1
  /\ AuditRows \in Nat \ {0}
  /\ {MaxImports, MaxHubActs, MaxConvexActs, MaxFailedBatches} \subseteq Nat

VARIABLES
  old,       \* the Hub's rows, and where its containers really run
  new,       \* the rows of Convex, with who wrote each
  job,       \* the run of the script: its snapshot and the batches to come
  table,     \* the table a behaviour's changes are in: they never meet one another's
  lastAct,   \* history: what Convex last did to each thing
  tally      \* how often each bounded thing has happened

importVars == <<old, new, job, table, lastAct, tally>>

Svcs == {"web", "db"}
Rows == {"link", "env"}
Stored == [Svcs -> ImportNodes \cup {Absent}]   \* services[].node, which may be missing

(* Where a deploy with these stored placements runs each service.             *)
RunsAt(n, stored) == [s \in Svcs |-> IF stored[s] = Absent THEN n ELSE stored[s]]

ImportInit ==
  /\ old = [app |-> Absent, stored |-> [s \in Svcs |-> Absent], runs |-> [s \in Svcs |-> Absent],
            route |-> Absent, ports |-> {}, row |-> [r \in Rows |-> Absent],
            bind |-> Absent, audit |-> 0]
  /\ new = [app |-> Absent, route |-> Absent, ports |-> [n \in ImportNodes |-> Absent],
            row |-> [r \in Rows |-> Absent], bind |-> Absent, dead |-> {},
            audit |-> <<>>, through |-> 0, plan |-> Absent]
  /\ job = [left |-> <<>>, snap |-> old, whole |-> TRUE]
  /\ table \in {"app", "bind"} \cup Rows
  /\ lastAct = [app |-> Absent, link |-> Absent, env |-> Absent, bind |-> Absent]
  /\ tally = [imports |-> 0, hub |-> 0, convex |-> 0, failed |-> 0]

-----------------------------------------------------------------------------
(* The Hub. Every change also writes an audit row.                            *)

OnHub(what, h) ==
  /\ what = table
  /\ tally.hub < MaxHubActs
  /\ old' = [h EXCEPT !.audit = @ + 1]
  /\ tally' = [tally EXCEPT !.hub = @ + 1]
  /\ UNCHANGED <<new, job, table, lastAct>>

HubDeploys(n, stored) ==
  LET at == RunsAt(n, stored) IN
  OnHub("app", [old EXCEPT !.app = n, !.stored = stored, !.runs = at, !.route = at["web"],
                    !.ports = @ \cup {at["web"]}])

(* Failover goes by the App's own Node: every service is redeployed on the    *)
(* survivor and the route follows, but services[].node stays as it was.       *)
HubFailsOver(n) ==
  /\ old.app # Absent /\ n # old.app
  /\ OnHub("app", [old EXCEPT !.app = n, !.runs = [s \in Svcs |-> n], !.route = n, !.ports = @ \cup {n}])

HubRemovesApp ==
  /\ old.app # Absent
  /\ OnHub("app", [old EXCEPT !.app = Absent, !.runs = [s \in Svcs |-> Absent], !.route = Absent,
                       !.ports = {}])

HubWritesRow(r, v) == old.row[r] # v /\ OnHub(r, [old EXCEPT !.row[r] = v])

(* Bindings are made and deleted under an id of their own; a run leaves its   *)
(* result on the binding.                                                     *)
HubBinds == old.bind = Absent /\ OnHub("bind", [old EXCEPT !.bind = [id |-> old.audit + 1, result |-> 0]])
HubUnbinds == old.bind # Absent /\ OnHub("bind", [old EXCEPT !.bind = Absent])
HubRuns == old.bind # Absent /\ OnHub("bind", [old EXCEPT !.bind.result = @ + 1])

-----------------------------------------------------------------------------
(* Convex. Each change stamps its row as Convex's, each deletion leaves a     *)
(* tombstone.                                                                 *)

OnConvex(c, what, act) ==
  /\ what = table
  /\ tally.convex < MaxConvexActs
  /\ new' = c
  /\ lastAct' = [lastAct EXCEPT ![what] = act]
  /\ tally' = [tally EXCEPT !.convex = @ + 1]
  /\ UNCHANGED <<old, job, table>>

HubPorts(c) == {n \in ImportNodes : c.ports[n] = "hub"}
Deployed(c) == [app |-> c.app, route |-> c.route, hubPorts |-> HubPorts(c)]

(* Planning a deploy takes its lease and allocates the port (allocatePort     *)
(* keeps the one the key already holds); the rows are written when every Node *)
(* is up.                                                                     *)
ConvexPlans(n) ==
  /\ new.plan = Absent
  /\ OnConvex([new EXCEPT !.plan = n, !.ports[n] = IF @ = Absent THEN "convex" ELSE @],
              "app", lastAct.app)

ConvexCommits ==
  LET c == [new EXCEPT !.app = [node |-> new.plan, at |-> [s \in Svcs |-> new.plan], by |-> "convex"],
                       !.route = [node |-> new.plan, by |-> "convex"],
                       !.plan = Absent] IN
  /\ new.plan # Absent
  /\ new' = c
  /\ lastAct' = [lastAct EXCEPT !.app = Deployed(c)]
  /\ UNCHANGED <<old, job, table, tally>>

(* Moves the services that ran on the lost Node, which needs their port on    *)
(* the survivor, and the route if it was there.                               *)
ConvexFailsOver(from, to) ==
  LET Moved(n) == IF n = from THEN to ELSE n
      c == [new EXCEPT !.app = [node |-> Moved(@.node), at |-> [s \in Svcs |-> Moved(@.at[s])],
                                by |-> "convex"],
                       !.route = IF @ # Absent /\ @.node = from /\ new.app.at["web"] = from
                                 THEN [node |-> to, by |-> "convex"] ELSE @] IN
  /\ new.app # Absent /\ new.plan = Absent /\ from # to
  /\ new.app.at["web"] = from => new.ports[to] # Absent
  /\ OnConvex(c, "app", Deployed(c))

ConvexRemovesApp ==
  /\ new.app # Absent /\ new.plan = Absent
  /\ OnConvex([new EXCEPT !.app = Absent, !.route = Absent,
                          !.ports = [n \in ImportNodes |-> Absent], !.dead = @ \cup {"app"}],
              "app", Removed)

ConvexSetsRow(r, v) ==
  OnConvex([new EXCEPT !.row[r] = [val |-> v, by |-> "convex"]], r, [val |-> v])

ConvexUnsetsRow(r) ==
  /\ new.row[r] # Absent
  /\ OnConvex([new EXCEPT !.row[r] = Absent, !.dead = @ \cup {r}], r, Removed)

ConvexBinds ==
  /\ new.bind = Absent
  /\ OnConvex([new EXCEPT !.bind = [id |-> Absent, result |-> "bound", by |-> "convex"]],
              "bind", [result |-> "bound"])

ConvexRuns ==
  /\ new.bind # Absent
  /\ OnConvex([new EXCEPT !.bind.result = "ran", !.bind.by = "convex"], "bind", [result |-> "ran"])

ConvexUnbinds ==
  /\ new.bind # Absent
  /\ OnConvex([new EXCEPT !.bind = Absent, !.dead = @ \cup {"bind"}], "bind", Removed)

-----------------------------------------------------------------------------
(* The importer's decision for each row.                                      *)

WrittenByConvex(row) == row # Absent /\ row.by = "convex"
OwnedByRowOnly(c) == WrittenByConvex(c.app)   \* a mutant: nobody reads the tombstone

AppOwnership(c) == "app" \in c.dead \/ WrittenByConvex(c.app)

DecideRoute(c, h) ==
  IF h.route = Absent \/ AppOwnership(c) \/ WrittenByConvex(c.route) THEN c
  ELSE [c EXCEPT !.route = [node |-> h.route, by |-> "hub"]]

PlacedAsStored(c, h) == RunsAt(h.app, h.stored)   \* a mutant: what the Hub's App row says

(* A routed service takes its route's Node. Once that shows a Hub failover,   *)
(* every service takes the App's Node.                                        *)
PlaceServices(c, h) ==
  LET routed == c.route # Absent
      failedOver == routed /\ c.route.node = h.app /\ RunsAt(h.app, h.stored)["web"] # h.app IN
  [s \in Svcs |-> IF s = "web" /\ routed THEN c.route.node
                  ELSE IF failedOver THEN h.app
                  ELSE RunsAt(h.app, h.stored)[s]]

DecideApp(c, h) ==
  IF h.app = Absent \/ AppOwnership(c) THEN c
  ELSE [c EXCEPT !.app = [node |-> h.app, at |-> PlaceServices(c, h), by |-> "hub"]]

(* Ports are only ever inserted: a key that holds a port keeps it.            *)
DecidePorts(c, h) ==
  IF AppOwnership(c) THEN c
  ELSE [c EXCEPT !.ports = [n \in ImportNodes |->
                              IF n \in h.ports /\ @[n] = Absent THEN "hub" ELSE @[n]]]

DecideRow(c, h, r) ==
  IF h.row[r] = Absent \/ r \in c.dead \/ WrittenByConvex(c.row[r]) THEN c
  ELSE [c EXCEPT !.row[r] = [val |-> h.row[r], by |-> "hub"]]

(* A row the importer wrote is known by its Hub id; another binding of the    *)
(* branch makes it skip or refuse.                                            *)
DecideBinding(c, h) ==
  CASE h.bind = Absent -> c
    [] c.bind # Absent /\ (c.bind.id # h.bind.id \/ WrittenByConvex(c.bind)) -> c
    [] c.bind = Absent /\ "bind" \in c.dead -> c
    [] OTHER -> [c EXCEPT !.bind = [id |-> h.bind.id, result |-> h.bind.result, by |-> "hub"]]

(* A mutant: the order does not matter.                                       *)
AuditAnyOrder(c, seq) ==
  IF Contains(c.audit, seq) THEN c ELSE [c EXCEPT !.audit = Append(@, seq), !.through = seq]

(* A row older than one already imported is refused, so that the trail keeps  *)
(* the Hub's order.                                                           *)
DecideAudit(c, seq) ==
  IF Contains(c.audit, seq) \/ seq <= c.through THEN c
  ELSE [c EXCEPT !.audit = Append(@, seq), !.through = seq]

AuditBatch(c, rows) == FoldSeq(LAMBDA seq, d : DecideAudit(d, seq), c, rows)

(* A batch, in one transaction.                                               *)
ProcessBatch(c, h, b) ==
  CASE b.kind = "routes" -> DecideRoute(c, h)
    [] b.kind = "apps" -> DecideApp(c, h)
    [] b.kind = "links" -> DecideRow(c, h, "link")
    [] b.kind = "ports" -> DecidePorts(c, h)
    [] b.kind = "secrets" -> DecideRow(c, h, "env")
    [] b.kind = "gitBindings" -> DecideBinding(c, h)
    [] b.kind = "audit" -> AuditBatch(c, b.rows)

-----------------------------------------------------------------------------
(* The script.                                                                *)

InBatches(n) ==
  [i \in 1..((n + AuditRows - 1) \div AuditRows) |->
     [kind |-> "audit",
      rows |-> [j \in 1..(IF i * AuditRows <= n THEN AuditRows ELSE n - (i - 1) * AuditRows) |->
                  (i - 1) * AuditRows + j]]]

ReadHubState ==
  /\ job.left = <<>> /\ tally.imports < MaxImports
  /\ job' = [left |-> [i \in 1..6 |->
                         [kind |-> <<"routes", "apps", "links", "ports", "secrets", "gitBindings">>[i],
                          rows |-> <<>>]] \o InBatches(old.audit),
             snap |-> old, whole |-> TRUE]
  /\ tally' = [tally EXCEPT !.imports = @ + 1]
  /\ UNCHANGED <<old, new, table, lastAct>>

ApplyBatch ==
  /\ job.left # <<>>
  /\ new' = ProcessBatch(new, job.snap, Head(job.left))
  /\ job' = [job EXCEPT !.left = Tail(@)]
  /\ UNCHANGED <<old, table, lastAct, tally>>

(* A write that throws rolls its batch back; the next batch still runs.       *)
BatchFails ==
  /\ job.left # <<>> /\ tally.failed < MaxFailedBatches
  /\ job' = [job EXCEPT !.left = Tail(@), !.whole = FALSE]
  /\ tally' = [tally EXCEPT !.failed = @ + 1]
  /\ UNCHANGED <<old, new, table, lastAct>>

ImportNext ==
  \/ \E n \in ImportNodes, stored \in Stored : HubDeploys(n, stored)
  \/ \E n \in ImportNodes : HubFailsOver(n)
  \/ HubRemovesApp
  \/ \E r \in Rows, v \in ImportVals \cup {Absent} : HubWritesRow(r, v)
  \/ HubBinds \/ HubUnbinds \/ HubRuns
  \/ \E n \in ImportNodes : ConvexPlans(n)
  \/ ConvexCommits
  \/ \E from, to \in ImportNodes : ConvexFailsOver(from, to)
  \/ ConvexRemovesApp
  \/ \E r \in Rows, v \in ImportVals : ConvexSetsRow(r, v)
  \/ \E r \in Rows : ConvexUnsetsRow(r)
  \/ ConvexBinds \/ ConvexRuns \/ ConvexUnbinds
  \/ ReadHubState \/ ApplyBatch \/ BatchFails

ImportSpec == ImportInit /\ [][ImportNext]_importVars

-----------------------------------------------------------------------------
(* "A re-import must never undo a Convex write" (hubProvenance.ts 4-6): after *)
(* any sequence of imports, whatever Convex did last to an App, a link, a     *)
(* variable or a branch still stands. A deployed App keeps its row, its route *)
(* and its set of ports; a removed one stays removed with all three.          *)
ConvexWins ==
  /\ \A r \in Rows :
       CASE lastAct[r] = Removed -> new.row[r] = Absent
         [] lastAct[r] # Absent /\ lastAct[r] # Removed -> new.row[r].val = lastAct[r].val
         [] OTHER -> TRUE
  /\ CASE lastAct.bind = Removed -> new.bind = Absent
       [] lastAct.bind # Absent /\ lastAct.bind # Removed -> new.bind.result = lastAct.bind.result
       [] OTHER -> TRUE
  /\ CASE lastAct.app = Removed -> new.app = Absent /\ new.route = Absent /\ HubPorts(new) = {}
       [] lastAct.app # Absent /\ lastAct.app # Removed -> Deployed(new) = lastAct.app
       [] OTHER -> TRUE

(* A run that lost no batch leaves an App the Hub still owns where the Hub    *)
(* runs it: the routed service exactly, whatever failovers and redeploys came *)
(* before, and the other one exactly or on a Node other than the App's, which *)
(* the report tells the operator to check (hubImport.ts placeServices).       *)
ImportedWhereItRuns ==
  (job.left = <<>> /\ job.whole /\ tally.imports > 0 /\ job.snap.app # Absent
     /\ new.app # Absent /\ new.app.by = "hub" /\ lastAct.app = Absent) =>
    /\ new.app.at["web"] = job.snap.runs["web"]
    /\ new.app.at["db"] = job.snap.runs["db"] \/ new.app.at["db"] # new.app.node

(* The imported trail is in the Hub's order, each row once.                   *)
TrailInOrder == \A i \in 1..(Len(new.audit) - 1) : new.audit[i] < new.audit[i + 1]

(* What imports leave behind: Convex's own writes, Apps where they run, and   *)
(* the Hub's trail in order.                                                  *)
ImportSafe == ConvexWins /\ ImportedWhereItRuns /\ TrailInOrder
=============================================================================
