---------------------------- MODULE TestReports -----------------------------
(* Test results of Attempts: the report the guest builds from a job's JUnit   *)
(* files (apps/runtime/internal/testreport), the upload the Agent makes of it *)
(* after its own report, the flaky tests found while it is stored, and the    *)
(* retention of reports, cases and flaky rows (packages/backend/convex/       *)
(* testReports.ts, testReportsModel.ts).                                      *)
(*                                                                            *)
(* The Attempts are of one repository or of none the controller knows. A test *)
(* stands for its id and for the id's hash. An upload may come at any time or *)
(* never, and never is also when its Attempt settled too long ago to take it; *)
(* one that comes again finds its report stored and changes nothing.          *)
EXTENDS Naturals, Sequences, FiniteSets, FiniteSetsExt

CONSTANTS
  TestRuns,       \* Attempts whose job left JUnit files
  Tests, Statuses,  \* test ids; what a test may come out as
  RunOf,          \* what GitHub told the controller of each Attempt
  Commits,        \* what the job's own .git may name, Unknown for nothing
  Unknown,        \* a fact nobody reported
  MaxCases,       \* MAX_CASES
  MaxSlowest,     \* testreport.MaxSlowest
  FitCases,       \* the cases a report too large keeps
  MaxPassed,      \* MAX_PASSED
  MaxPeers,       \* MAX_REVISION_PEERS
  MaxFindings,    \* MAX_FLAKY_FINDINGS
  MaxFlakyAttempts,  \* MAX_FLAKY_ATTEMPTS
  TestRetention,  \* TEST_RETENTION_MS
  PurgeCases, PurgeReports, PurgeFlaky,  \* one transaction of the purge
  MaxDays         \* the end of time

Events == {"push", "pull_request"}
CommitJoinedEvents == {"push"}

RunFacts ==
  [repository : BOOLEAN, headBranch : {"main", "fix", Unknown}, event : Events,
   workflowRun : Nat \cup {Unknown}, job : STRING]

ASSUME TestsAssumption ==
  /\ Statuses \subseteq {"passed", "failed", "errored", "skipped", "flaky"}
  /\ \A a \in TestRuns : RunOf[a] \in RunFacts
  /\ {MaxPeers, MaxFindings, MaxFlakyAttempts, PurgeCases, PurgeReports, PurgeFlaky}
       \subseteq Nat \ {0}
  /\ {MaxCases, MaxSlowest, FitCases, MaxPassed, TestRetention, MaxDays} \subseteq Nat
  /\ Unknown \notin Tests

VARIABLES
  outcome,     \* what each job's tests did
  sent,        \* the report the Agent of each Attempt sends
  testReport,  \* testReports, with its testReportHashes and testCases
  flakyTest,   \* flakyTests
  found,       \* history: the tests each upload recorded as flaky
  uploads,     \* reports stored so far: the order of testReports
  swept,       \* the day a purge last left no run scheduled behind it
  day

testVars == <<outcome, sent, testReport, flakyTest, found, uploads, swept, day>>

isFailing(status) == status \in {"failed", "errored"}
AtMostOf(m, n) == IF m < n THEN m ELSE n
(* Any n members of S, or all of them.                                        *)
TakeAny(S, n) == {T \in SUBSET S : Cardinality(T) = AtMostOf(n, Cardinality(S))}

PassedOf(o) == {t \in Tests : o[t] = "passed"}
FailedOf(o) == {t \in Tests : isFailing(o[t])}
Notable(o) == {t \in Tests : isFailing(o[t]) \/ o[t] = "flaky"}

(* Build: failures before flaky cases, then the slowest passes that took any  *)
(* time, within MaxCases; every pass by its hash.                             *)
Build(o) ==
  {r \in {[listed |-> bad \cup slow, passed |-> ids] :
            bad \in {T \in TakeAny(Notable(o), MaxCases) :
                       T \subseteq FailedOf(o) \/ FailedOf(o) \subseteq T},
            slow \in {T \in SUBSET PassedOf(o) : Cardinality(T) <= MaxSlowest},
            ids \in TakeAny(PassedOf(o), MaxPassed)} :
     Cardinality(r.listed) <= MaxCases}

(* FitJSON: a report too large to send loses the passed ids first, then all   *)
(* but its first cases, where the failures are.                               *)
FitJSON(o, r) ==
  {r, [r EXCEPT !.passed = {}]} \cup
  {[listed |-> T, passed |-> {}] :
     T \in {S \in TakeAny(r.listed, FitCases) :
             S \cap PassedOf(o) = {} \/ r.listed \cap Notable(o) \subseteq S}}

(* What the job's own .git says goes with the report.                         *)
ReportsOf(o) ==
  {[listed |-> r.listed, passed |-> r.passed, commit |-> c] :
     r \in UNION {FitJSON(o, b) : b \in Build(o)}, c \in Commits}

TestsInit ==
  /\ outcome = [a \in TestRuns |-> Unknown] /\ sent = [a \in TestRuns |-> Unknown]
  /\ testReport = [a \in TestRuns |-> Unknown] /\ flakyTest = [t \in Tests |-> Unknown]
  /\ found = [a \in TestRuns |-> {}] /\ uploads = 0 /\ swept = 0 /\ day = 0

assertValidReport(r) ==
  Cardinality(r.listed) <= MaxCases /\ Cardinality(r.passed) <= MaxPassed

(* What two Attempts must share to be runs of the same code. The commit is    *)
(* the job's word: it joins only runs of one branch, on events that run the   *)
(* head of their own branch.                                                  *)
(* Mutant of revisionKey: a commit joins whatever names it.                   *)
commitAlone(f, commit) ==
  IF commit # Unknown THEN <<"commit", commit, f.job>> ELSE Unknown
revisionKey(f, commit) ==
  IF commit # Unknown /\ f.headBranch # Unknown /\ f.event \in CommitJoinedEvents
    THEN <<"commit", commit, f.headBranch, f.job>>
    ELSE IF f.workflowRun # Unknown THEN <<"run", f.workflowRun, f.job>> ELSE Unknown

Reported == {a \in TestRuns : testReport[a] # Unknown}
After(a, b) == testReport[a].position > testReport[b].position

(* The reports of a revision stored before this one, the newest MaxPeers.     *)
(* Mutant of PeersOf: the report itself takes one of the places.              *)
PeersLessSelf(rev) ==
  LET same == {b \in Reported : rev # Unknown /\ testReport[b].revision = rev}
  IN  {b \in same : Cardinality({c \in same : After(c, b)}) + 1 < MaxPeers}
PeersOf(rev) ==
  LET same == {b \in Reported : rev # Unknown /\ testReport[b].revision = rev}
  IN  {b \in same : Cardinality({c \in same : After(c, b)}) < MaxPeers}

(* Of an upload: the cases the runner retried into a pass, then its failures  *)
(* that a peer passed, then the failures of peers that it passed and does not *)
(* list, at most MaxFindings in all.                                          *)
findFlaky(o, r, peers) ==
  LET retried == {t \in r.listed : o[t] = "flaky"}
      rerun == {t \in r.listed : isFailing(o[t]) /\ \E b \in peers : t \in testReport[b].passed}
      others == {t \in r.passed \ r.listed : \E b \in peers : t \in testReport[b].failing}
      room(n) == MaxFindings - AtMostOf(MaxFindings, n)
  IN  {[findings |-> F1 \cup F2, peerFailures |-> F3] :
         F1 \in TakeAny(retried, MaxFindings),
         F2 \in TakeAny(rerun, room(Cardinality(retried))),
         F3 \in TakeAny(others, room(Cardinality(retried) + Cardinality(rerun)))}

(* The newest peer that failed a test is the one asked for the case.          *)
failedBy(t, peers) ==
  CHOOSE b \in peers :
    /\ t \in testReport[b].failing
    /\ \A c \in peers : t \in testReport[c].failing => ~After(c, b)

recordFlaky(was, a) ==
  IF was = Unknown THEN [firstSeen |-> day, lastSeen |-> day, occurrences |-> 1, attempts |-> <<a>>]
  ELSE IF \E i \in DOMAIN was.attempts : was.attempts[i] = a THEN was
  ELSE [was EXCEPT !.lastSeen = day, !.occurrences = @ + 1,
                   !.attempts = SubSeq(<<a>> \o @, 1, AtMostOf(Len(@) + 1, MaxFlakyAttempts))]

(* The first report of an Attempt wins, while the Attempt takes writes.       *)
recordAttemptTests(a, o, r) ==
  LET known == RunOf[a].repository
      rev == IF known THEN revisionKey(RunOf[a], r.commit) ELSE Unknown
      peers == PeersOf(rev)
  IN  /\ assertValidReport(r) /\ testReport[a] = Unknown
      /\ uploads' = uploads + 1
      /\ testReport' =
           [testReport EXCEPT ![a] =
              [position |-> uploads + 1, recordedAt |-> day, revision |-> rev, cases |-> r.listed,
               passed |-> r.passed, failing |-> {t \in r.listed : isFailing(o[t])}]]
      /\ \E F \in IF known THEN findFlaky(o, r, peers)
                           ELSE {[findings |-> {}, peerFailures |-> {}]} :
           LET flaky == F.findings
                 \cup {t \in F.peerFailures : t \in testReport[failedBy(t, peers)].cases}
           IN  /\ found' = [found EXCEPT ![a] = @ \cup flaky]
               /\ flakyTest' = [t \in Tests |-> IF t \in flaky THEN recordFlaky(flakyTest[t], a)
                                                               ELSE flakyTest[t]]
      /\ UNCHANGED <<swept, day>>

(* The Agent sends what the job's tests came to, as the guest reported it,    *)
(* after its own report of the Attempt, whether that one was taken or not.    *)
uploadsTests(a) ==
  /\ sent[a] = Unknown
  /\ \E o \in [Tests -> Statuses] :
       /\ outcome' = [outcome EXCEPT ![a] = o]
       /\ \E r \in ReportsOf(o) : sent' = [sent EXCEPT ![a] = r] /\ recordAttemptTests(a, o, r)

ExpiredReports == {a \in Reported : testReport[a].recordedAt + TestRetention < day}
ExpiredFlaky ==
  {t \in Tests : flakyTest[t] # Unknown /\ flakyTest[t].lastSeen + TestRetention < day}

(* One transaction of the purge: the oldest PurgeReports expired reports, as  *)
(* long as fewer than PurgeCases cases go; the report the budget ends in      *)
(* loses what is left of it and stays. It runs again while it left work.      *)
(* Mutant of moreLeft: a report cut short is taken for finished.              *)
countsReportsOnly(batch, cutShort, rows) ==
  Cardinality(batch) = PurgeReports \/ Cardinality(rows) = PurgeFlaky
moreLeft(batch, cutShort, rows) ==
  Cardinality(batch) = PurgeReports \/ cutShort # {} \/ Cardinality(rows) = PurgeFlaky

purgeExpired ==
  LET batch == {a \in ExpiredReports :
                  Cardinality({b \in ExpiredReports : After(a, b)}) < PurgeReports}
      size(S) == MapThenSumSet(LAMBDA a : Cardinality(testReport[a].cases), S)
      earlier(a) == {b \in batch : After(a, b)}
      whole == {a \in batch : size(earlier(a) \cup {a}) < PurgeCases}
      cutShort == {a \in batch \ whole : earlier(a) \subseteq whole}
  IN  \E rows \in TakeAny(ExpiredFlaky, PurgeFlaky),
         cut \in [cutShort -> SUBSET Tests] :
        /\ \A t \in rows, u \in ExpiredFlaky \ rows : flakyTest[t].lastSeen <= flakyTest[u].lastSeen
        /\ \A a \in cutShort :
             /\ cut[a] \subseteq testReport[a].cases
             /\ Cardinality(testReport[a].cases \ cut[a]) = PurgeCases - size(earlier(a))
        /\ testReport' = [a \in TestRuns |->
             IF a \in whole THEN Unknown
             ELSE IF a \in cutShort THEN [testReport[a] EXCEPT !.cases = cut[a]]
             ELSE testReport[a]]
        /\ flakyTest' = [t \in Tests |-> IF t \in rows THEN Unknown ELSE flakyTest[t]]
        /\ swept' = IF moreLeft(batch, cutShort, rows) THEN swept ELSE day
        /\ UNCHANGED <<outcome, sent, found, uploads, day>>

dayPasses ==
  /\ day < MaxDays /\ day' = day + 1
  /\ UNCHANGED <<outcome, sent, testReport, flakyTest, found, uploads, swept>>

TestsNext ==
  \/ \E a \in TestRuns : uploadsTests(a)
  \/ purgeExpired
  \/ dayPasses

TestsSpec == TestsInit /\ [][TestsNext]_testVars

(* GitHub vouches that two Attempts ran the same code: the same job, of one   *)
(* workflow run or of runs of one branch's head that name one commit.         *)
SameCode(a, b) ==
  LET f == RunOf[a]
      g == RunOf[b]
  IN  /\ f.repository /\ g.repository /\ f.job = g.job
      /\ \/ f.workflowRun # Unknown /\ f.workflowRun = g.workflowRun
         \/ /\ {f.event, g.event} \subseteq CommitJoinedEvents
            /\ f.headBranch # Unknown /\ f.headBranch = g.headBranch
            /\ sent[a].commit = sent[b].commit

(* A test is only called flaky when one job retried it into a pass, or when   *)
(* it failed in one Attempt and passed in another of the same code; whatever  *)
(* a pull request claims to have checked out, it marks no test of a branch. A *)
(* row counts Attempts that showed it, each once.                             *)
FlakySound ==
  /\ \A a \in TestRuns, t \in Tests :
       t \in found[a] =>
         \/ outcome[a][t] = "flaky"
         \/ \E b \in TestRuns \ {a} :
              /\ sent[b] # Unknown /\ SameCode(a, b)
              /\ \E x \in {<<a, b>>, <<b, a>>} :
                   isFailing(outcome[x[1]][t]) /\ outcome[x[2]][t] = "passed"
  /\ \A t \in Tests :
       LET f == flakyTest[t] IN
       f # Unknown =>
         /\ \A i \in DOMAIN f.attempts : t \in found[f.attempts[i]]
         /\ Len(f.attempts) = AtMostOf(f.occurrences, MaxFlakyAttempts)
         /\ f.occurrences <= Cardinality({a \in TestRuns : t \in found[a]})

(* Two stored reports of one revision show a test failing and passing: x the  *)
(* failure it lists, y the pass it carries, close enough in the order that    *)
(* the later upload was compared with the earlier.                            *)
Disagree(x, y, t) ==
  /\ t \in testReport[x].failing /\ t \in testReport[y].passed
  /\ testReport[x].revision # Unknown /\ testReport[x].revision = testReport[y].revision
  /\ Cardinality({b \in Reported :
        /\ testReport[b].revision = testReport[x].revision
        /\ After(b, x) # After(b, y) /\ b \notin {x, y}}) < MaxPeers
  /\ Cardinality(found[IF After(x, y) THEN x ELSE y]) < MaxFindings
  /\ {x, y} \cap ExpiredReports = {}

(* What findFlaky's comment promises: a test that failed in one Attempt and   *)
(* passed in another of the same revision is listed, whichever came first.    *)
FlakyFound ==
  \A x, y \in Reported, t \in Tests : Disagree(x, y, t) => flakyTest[t] # Unknown

(* The same, but for a later pass that is also one of the slowest its report  *)
(* lists: that one findFlaky takes for settled.                               *)
FlakyFoundUnlisted ==
  \A x, y \in Reported, t \in Tests :
    Disagree(x, y, t) /\ (After(y, x) => t \notin testReport[y].cases) => flakyTest[t] # Unknown

(* A report keeps every case it lists until it expires, and once a purge      *)
(* schedules no other, nothing that had expired by then is left.              *)
PurgeSound ==
  /\ \A a \in Reported \ ExpiredReports : testReport[a].cases = sent[a].listed
  /\ swept = day => ExpiredReports \cup ExpiredFlaky = {}

(* Test results are kept, compared and purged as meant.                       *)
TestsSafe == FlakySound /\ FlakyFoundUnlisted /\ PurgeSound
=============================================================================
