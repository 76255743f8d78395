------------------------------ MODULE GitMirror ------------------------------
(* The Git mirror of one guest (gitmirror.go, mirror.go): the job's fetches    *)
(* are answered from a bare repository restored from a seed when that gives    *)
(* exactly what GitHub would, and by GitHub otherwise. Requests, the prewarm   *)
(* and the one refresh of the seed share the mirror under prepareMu, which the *)
(* loader holds, and writeMu, which a request only takes when it is free.      *)
(*                                                                             *)
(* The history is two commits, base and its child tip. A depth-limited fetch   *)
(* of tip leaves the mirror shallow there (isCut). The job presents one        *)
(* credential. A memo of an accepted credential is forgotten at some time.     *)
EXTENDS Naturals

CONSTANTS
  Fetches, Prewarm, NoHolder,
  Asks            \* what they ask for: [own, depth, want, tags]

ASSUME MirrorAssumption ==
  /\ Prewarm \notin Fetches /\ NoHolder \notin Fetches \cup {Prewarm}
  /\ "refresh" \notin Fetches \cup {Prewarm, NoHolder}
  /\ Asks \subseteq [own : BOOLEAN, depth : {0, 1}, want : {"base", "tip"},
                        tags : BOOLEAN]

VARIABLES
  seedJob,        \* [prepared, ready, writable, due]: due when the seed is missing or old
  prepareMu, writeMu,   \* who holds them; the refresh holds writeMu as "refresh"
  objects, isCut,         \* what the mirror holds
  place,      \* where each request, and the prewarm, is
  req,        \* the requests: [own, depth, want, tags, held, allowed]
  refresher,  \* [at, ready]
  memo,       \* the credential was accepted lately
  github,     \* [grants, serves]
  service     \* "open", "closing", "waiting" for the background, "closed"

mirrorVars == <<seedJob, prepareMu, writeMu, objects, isCut, place, req, refresher, memo,
                github, service>>

Commits == {"base", "tip"}
History(c) == IF c = "tip" THEN Commits ELSE {"base"}
Loaders == Fetches \cup {Prewarm}

NoRequest == [own |-> FALSE, depth |-> 0, want |-> "base", tags |-> FALSE,
              held |-> FALSE, allowed |-> FALSE]

MirrorInit ==
  /\ seedJob = [prepared |-> FALSE, ready |-> FALSE, writable |-> FALSE, due |-> FALSE]
  /\ prepareMu = NoHolder /\ writeMu = NoHolder
  /\ objects = {} /\ isCut = FALSE
  /\ place = [l \in Loaders |-> "none"]
  /\ req = [f \in Fetches |-> NoRequest]
  /\ refresher = [at |-> "idle", ready |-> FALSE]
  /\ memo = FALSE
  /\ github = [grants |-> TRUE, serves |-> Commits]
  /\ service = "open"

MovesTo(l, there) == place' = [place EXCEPT ![l] = there]

-----------------------------------------------------------------------------
(* A request. Those the mirror does not reproduce exactly (an unsupported      *)
(* argument, tags with a depth) go to GitHub.                                  *)
Serves(w) == github.grants /\ w \in github.serves
serveGitHub(f, r) ==
  /\ service = "open" /\ place[f] = "none"
  /\ req' = [req EXCEPT ![f] = [own |-> r.own, depth |-> r.depth, want |-> r.want,
                                tags |-> r.tags, held |-> FALSE,
                                allowed |-> Serves(r.want)]]
  /\ MovesTo(f, IF r.tags /\ r.depth > 0 THEN "github" ELSE "prepare")
  /\ UNCHANGED <<seedJob, prepareMu, writeMu, objects, isCut, refresher, memo, github,
                 service>>

(* The mirror serves the repository of the seed alone. The first request asks  *)
(* for the seed when the prewarm has not. (When the store failed to answer a   *)
(* moment ago it is not asked again: as when it fails once more.)              *)
preparedFor(f) == seedJob.ready /\ req[f].own
prepare(f) ==
  /\ place[f] = "prepare"
  /\ \/ /\ seedJob.prepared
        /\ MovesTo(f, IF preparedFor(f) THEN "authorize" ELSE "github")
        /\ UNCHANGED prepareMu
     \/ /\ ~seedJob.prepared /\ prepareMu = NoHolder
        /\ prepareMu' = f /\ MovesTo(f, "opening")
  /\ UNCHANGED <<seedJob, writeMu, objects, isCut, req, refresher, memo, github, service>>

authorize(f) ==
  /\ place[f] = "authorize"
  /\ memo \/ github.grants
  /\ memo' = TRUE
  /\ MovesTo(f, "lock")
  /\ UNCHANGED <<seedJob, prepareMu, writeMu, objects, isCut, req, refresher, github,
                 service>>

(* A busy mirror sends the request to GitHub.                                  *)
tryLock(f) ==
  /\ place[f] = "lock"
  /\ IF writeMu = NoHolder
     THEN /\ writeMu' = f
          /\ req' = [req EXCEPT ![f].held = req[f].depth = 0 /\ req[f].want \in objects]
          /\ MovesTo(f, "fetch")
     ELSE MovesTo(f, "github") /\ UNCHANGED <<writeMu, req>>
  /\ UNCHANGED <<seedJob, prepareMu, objects, isCut, refresher, memo, github, service>>

(* fetchObjects: git asks GitHub unless it wants whole history, and holds it.  *)
AsksGitHub(r) == r.depth > 0 \/ isCut \/ r.want \notin objects
Brought(r) ==
  IF r.depth > 0 THEN /\ objects' = objects \cup {r.want}
                      /\ isCut' = (isCut \/ r.want = "tip")
  ELSE /\ objects' = objects \cup History(r.want)
       /\ isCut' = (isCut /\ r.want # "tip")
fetchObjects(f) ==
  /\ place[f] = "fetch"
  /\ IF AsksGitHub(req[f]) THEN Serves(req[f].want) /\ Brought(req[f])
     ELSE UNCHANGED <<objects, isCut>>
  /\ MovesTo(f, "confirm")
  /\ UNCHANGED <<seedJob, prepareMu, writeMu, req, refresher, memo, github, service>>

(* An object the mirror already held is asked of GitHub all the same.          *)
(* Mutant of confirmServed: what the mirror holds is good enough.              *)
confirmNothing(f) ==
  /\ place[f] = "confirm"
  /\ MovesTo(f, "check")
  /\ UNCHANGED <<seedJob, prepareMu, writeMu, objects, isCut, req, refresher, memo, github,
                 service>>
confirmServed(f) ==
  /\ place[f] = "confirm"
  /\ req[f].held => Serves(req[f].want)
  /\ MovesTo(f, "check")
  /\ UNCHANGED <<seedJob, prepareMu, writeMu, objects, isCut, req, refresher, memo, github,
                 service>>

(* The last checks, the tags brought in line, and the answer begins; the lock  *)
(* is held to its end.                                                         *)
MayAnswer(f) ==
  /\ place[f] = "check"
  /\ req[f].want \in objects
  /\ req[f].tags => ~isCut /\ github.grants
(* Mutant of uploadPack: the lock only covers the fetch into the mirror.       *)
uploadPackUnlocked(f) ==
  /\ MayAnswer(f)
  /\ MovesTo(f, "sending")
  /\ writeMu' = NoHolder
  /\ UNCHANGED <<seedJob, prepareMu, objects, isCut, req, refresher, memo, github, service>>
uploadPack(f) ==
  /\ MayAnswer(f)
  /\ MovesTo(f, "sending")
  /\ UNCHANGED <<seedJob, prepareMu, writeMu, objects, isCut, req, refresher, memo, github,
                 service>>

MirrorUnlocked(f) == writeMu' = IF writeMu = f THEN NoHolder ELSE writeMu
answered(f) ==
  /\ place[f] = "sending"
  /\ MovesTo(f, "served")
  /\ MirrorUnlocked(f)
  /\ UNCHANGED <<seedJob, prepareMu, objects, isCut, req, refresher, memo, github, service>>

(* Any failure before the first byte sends the request to GitHub.              *)
fallBack(f) ==
  /\ place[f] \in {"authorize", "fetch", "confirm", "check"}
  /\ MovesTo(f, "github")
  /\ MirrorUnlocked(f)
  /\ UNCHANGED <<seedJob, prepareMu, objects, isCut, req, refresher, memo, github, service>>

(* maybeRefresh, after every request. Mutant: also while closing.              *)
MayRefreshLate(f) ==
  refresher.at = "idle" /\ seedJob.prepared /\ seedJob.writable /\ req[f].own /\ seedJob.due
MayRefresh(f) ==
  /\ service = "open" /\ refresher.at = "idle"
  /\ seedJob.prepared /\ seedJob.writable /\ req[f].own /\ seedJob.due
maybeRefresh(f) ==
  /\ place[f] \in {"served", "github"}
  /\ MovesTo(f, "done")
  /\ req' = [req EXCEPT ![f] = NoRequest]
  /\ refresher' = IF MayRefresh(f) THEN [refresher EXCEPT !.at = "started"] ELSE refresher
  /\ UNCHANGED <<seedJob, prepareMu, writeMu, objects, isCut, memo, github, service>>

-----------------------------------------------------------------------------
(* load, by the prewarm or by a request, under prepareMu.                      *)
prewarm ==
  /\ place[Prewarm] = "none"
  /\ service = "open"
  /\ IF seedJob.prepared THEN MovesTo(Prewarm, "done") /\ UNCHANGED prepareMu
     ELSE prepareMu = NoHolder /\ prepareMu' = Prewarm /\ MovesTo(Prewarm, "opening")
  /\ UNCHANGED <<seedJob, writeMu, objects, isCut, req, refresher, memo, github, service>>
prewarmCancel ==
  /\ place[Prewarm] = "none" /\ service # "open"
  /\ MovesTo(Prewarm, "done")
  /\ UNCHANGED <<seedJob, prepareMu, writeMu, objects, isCut, req, refresher, memo, github,
                 service>>

Loaded(l) == IF l = Prewarm THEN "done" ELSE "prepare"
OpenSeed(l) ==
  /\ place[l] = "opening"
  /\ \/ \E writable, due \in BOOLEAN :
          /\ seedJob' = [seedJob EXCEPT !.prepared = TRUE, !.writable = writable, !.due = due]
          /\ \/ MovesTo(l, "restore") /\ UNCHANGED prepareMu
             \/ due /\ MovesTo(l, Loaded(l)) /\ prepareMu' = NoHolder
     \/ /\ prepareMu' = NoHolder
        /\ MovesTo(l, IF l = Prewarm THEN "none" ELSE "github")
        /\ UNCHANGED seedJob
  /\ UNCHANGED <<writeMu, objects, isCut, req, refresher, memo, github, service>>

(* restore, from its lock to its unlock; the seed may be older than tip. A     *)
(* failure leaves no mirror.                                                   *)
restoreMirror(l) ==
  /\ place[l] = "restore" /\ writeMu = NoHolder
  /\ writeMu' = l
  /\ objects' = {} /\ isCut' = FALSE
  /\ MovesTo(l, "restoring")
  /\ UNCHANGED <<seedJob, prepareMu, req, refresher, memo, github, service>>
restored(l) ==
  /\ place[l] = "restoring"
  /\ writeMu' = NoHolder
  /\ \/ objects' \in {{"base"}, Commits} /\ MovesTo(l, "ready") /\ UNCHANGED prepareMu
     \/ UNCHANGED objects /\ MovesTo(l, Loaded(l)) /\ prepareMu' = NoHolder
  /\ UNCHANGED <<seedJob, isCut, req, refresher, memo, github, service>>
setReady(l) ==
  /\ place[l] = "ready"
  /\ seedJob' = [seedJob EXCEPT !.ready = TRUE]
  /\ prepareMu' = NoHolder
  /\ MovesTo(l, Loaded(l))
  /\ UNCHANGED <<writeMu, objects, isCut, req, refresher, memo, github, service>>

-----------------------------------------------------------------------------
(* refresh reads ready before it waits for the mirror.                         *)
refreshReads ==
  /\ refresher.at = "started"
  /\ refresher' = [at |-> "locking", ready |-> seedJob.ready]
  /\ UNCHANGED <<seedJob, prepareMu, writeMu, objects, isCut, place, req, memo, github,
                 service>>
refreshLocks ==
  /\ refresher.at = "locking" /\ writeMu = NoHolder
  /\ writeMu' = "refresh"
  /\ objects' = IF refresher.ready THEN objects ELSE {}
  /\ isCut' = (refresher.ready /\ isCut)
  /\ refresher' = [refresher EXCEPT !.at = "fetching"]
  /\ UNCHANGED <<seedJob, prepareMu, place, req, memo, github, service>>
(* Branches and tags with whole history, then the bundle.                      *)
refreshFetches ==
  /\ refresher.at = "fetching"
  /\ writeMu' = NoHolder
  /\ \/ /\ github.grants
        /\ objects' = objects \cup github.serves
        /\ isCut' = (isCut /\ "tip" \notin github.serves)
        /\ refresher' = [refresher EXCEPT !.at = "bundled"]
     \/ refresher' = [refresher EXCEPT !.at = "done"] /\ UNCHANGED <<objects, isCut>>
  /\ UNCHANGED <<seedJob, prepareMu, place, req, memo, github, service>>
refreshSaves ==
  /\ \/ /\ refresher.at = "bundled"
        /\ seedJob' = [seedJob EXCEPT !.ready = TRUE]
        /\ refresher' = [refresher EXCEPT !.at = "saving"]
     \/ /\ refresher.at = "saving"
        /\ refresher' = [refresher EXCEPT !.at = "done"]
        /\ UNCHANGED seedJob
  /\ UNCHANGED <<prepareMu, writeMu, objects, isCut, place, req, memo, github, service>>

-----------------------------------------------------------------------------
(* Close stops the servers, which waits for the requests in flight or for its  *)
(* time to run out, then waits for the background.                             *)
BackgroundDone == refresher.at \in {"idle", "done"} /\ place[Prewarm] = "done"
Close ==
  /\ \/ service = "open" /\ service' = "closing"
     \/ service = "closing" /\ service' = "waiting"
     \/ service = "waiting" /\ BackgroundDone /\ service' = "closed"
  /\ UNCHANGED <<seedJob, prepareMu, writeMu, objects, isCut, place, req, refresher, memo,
                 github>>

(* A reference listing GitHub grants is remembered for authorizedFor.          *)
refsAdvertised ==
  /\ service = "open" /\ github.grants
  /\ memo' = TRUE
  /\ UNCHANGED <<seedJob, prepareMu, writeMu, objects, isCut, place, req, refresher, github,
                 service>>
timePasses ==
  /\ memo' = FALSE
  /\ UNCHANGED <<seedJob, prepareMu, writeMu, objects, isCut, place, req, refresher, github,
                 service>>

(* GitHub revokes the credential, or purges tip.                               *)
GitHubRefuses ==
  /\ \/ github' = [github EXCEPT !.grants = FALSE]
     \/ github' = [github EXCEPT !.serves = {"base"}]
  /\ UNCHANGED <<seedJob, prepareMu, writeMu, objects, isCut, place, req, refresher, memo, service>>

-----------------------------------------------------------------------------
FetchStep(f) ==
  \/ prepare(f) \/ authorize(f) \/ tryLock(f) \/ fetchObjects(f) \/ confirmServed(f)
  \/ uploadPack(f) \/ answered(f) \/ fallBack(f) \/ maybeRefresh(f)
LoadStep(l) == OpenSeed(l) \/ restoreMirror(l) \/ restored(l) \/ setReady(l)
RefreshStep == refreshReads \/ refreshLocks \/ refreshFetches \/ refreshSaves

MirrorNext ==
  \/ \E f \in Fetches : \/ \E r \in Asks : serveGitHub(f, r)
                        \/ FetchStep(f)
  \/ \E l \in Loaders : LoadStep(l)
  \/ prewarm \/ prewarmCancel \/ RefreshStep
  \/ Close \/ refsAdvertised \/ timePasses \/ GitHubRefuses

MirrorSpec == MirrorInit /\ [][MirrorNext]_mirrorVars

(* Goroutines run on, a Go mutex starves nobody, everything else they wait for *)
(* has a timeout, and Close, once called, runs to its end.                     *)
MirrorFairness ==
  /\ \A f \in Fetches : SF_mirrorVars(FetchStep(f))
  /\ \A l \in Loaders : SF_mirrorVars(LoadStep(l))
  /\ SF_mirrorVars(RefreshStep)
  /\ WF_mirrorVars(prewarmCancel)
  /\ WF_mirrorVars(service # "open" /\ Close)

MirrorFairSpec == MirrorSpec /\ MirrorFairness

-----------------------------------------------------------------------------
(* serveFromMirror: "an upload-pack reading the mirror while that happens      *)
(* could cut a whole-history answer short". While an answer without a depth is *)
(* read, the mirror has all of its history, whatever other requests, the       *)
(* restore and the refresh do to it.                                           *)
WholeHistory ==
  \A f \in Fetches :
    place[f] = "sending" /\ req[f].depth = 0 =>
      /\ History(req[f].want) \subseteq objects
      /\ req[f].want = "tip" => ~isCut

(* What the mirror sends is what GitHub would have sent when the request came: *)
(* the credential was good and the commit there. A seed and a memo outlive     *)
(* both.                                                                       *)
AnswersAllowed ==
  \A f \in Fetches : place[f] \in {"sending", "served"} => req[f].allowed

(* Close: "No refresh starts once closing begins, so the wait below cannot     *)
(* race a late Add". Nothing writes to the mirror after Close returned, but    *)
(* the requests that outlast it.                                               *)
NothingAfterClose == service = "closed" => BackgroundDone /\ writeMu # "refresh"

(* Every answer is whole and allowed, and Close leaves nobody at work.         *)
MirrorSound == WholeHistory /\ AnswersAllowed /\ NothingAfterClose

(* Every request is answered and Close returns.                                *)
MirrorSettled ==
  /\ \A f \in Fetches : place[f] \in {"none", "done"}
  /\ service \in {"open", "closed"}
=============================================================================
