------------------------------ MODULE LegacyJobs ------------------------------
(* Workflow jobs that arrive by webhook (backend/convex jobs.ts, scheduler.ts, *)
(* agentApi.ts, runners.ts, github.ts issueJit and drainRunnerDeletions, and   *)
(* the jobs part of reconcile.ts). Each queued job gets a runner minted for it *)
(* on GitHub and a command for a Worker; GitHub hands a runner whichever job   *)
(* its labels fit, and webhooks say afterwards, in any order, which one it was.*)
(* A Convex mutation is one step; an action's calls are steps of their own.    *)
EXTENDS Naturals, FiniteSets

CONSTANTS
  Jobs,            \* workflow jobs of one repository, all with the same labels
  Hosts,           \* machines
  HostSlots,       \* maxSlots
  NoOne,           \* no machine, no runner
  MaxProvision,    \* MAX_PROVISION_ATTEMPTS
  Runners,         \* runner names, <<job, attempt>>
  MaxSilence,      \* times a machine falls silent
  MaxTroubles      \* failed mints, provisioners, reports and deletions

ASSUME JobsAssumption ==
  /\ IsFiniteSet(Jobs) /\ IsFiniteSet(Hosts)
  /\ NoOne \notin Hosts
  /\ HostSlots \in Nat \ {0} /\ MaxProvision \in Nat \ {0}
  /\ Runners \subseteq Jobs \X (Nat \ {0})
  /\ MaxSilence \in Nat /\ MaxTroubles \in Nat

VARIABLES
  jobs,       \* rows: [st, m, r, n (attempts), bad (lastFailedMachineId)]; done and
              \* failed are one status, "ended"
  cmd,        \* commands by runner name: [st, job, m, jit, id]
  used,       \* usedSlots
  handed,     \* runnerDeletions
  issuing,    \* issueJit in flight
  gh,         \* GitHub's jobs: [st, r]
  registered, \* the runners GitHub knows
  inbox,      \* workflow_job events not applied yet
  proc,       \* provisioners: "none", "up", "working", "exited", "failed"
  silent,     \* how long a machine has not reported: 0, 1 (offline), 2 (abandoned)
  misled,     \* history: jobs failed in place of a command already gone
  silences, troubles

tableVars == <<jobs, cmd, used, handed, misled>>
jobVars == <<tableVars, issuing, gh, registered, inbox, proc, silent, silences, troubles>>

Absent == [st |-> "absent", m |-> NoOne, r |-> NoOne, n |-> 0, bad |-> NoOne]
EndedRow == [Absent EXCEPT !.st = "ended"]   \* nothing reads the rest of it any more
NoCommand(r) == [st |-> "none", job |-> r[1], m |-> NoOne, jit |-> FALSE, id |-> FALSE]
LiveCommand(c, r) == c[r].st \in {"pending", "claimed"}
Holds(j, m) == jobs[j].st \in {"assigned", "running"} /\ jobs[j].m = m

JobsInit ==
  /\ jobs = [j \in Jobs |-> Absent]
  /\ cmd = [r \in Runners |-> NoCommand(r)]
  /\ used = [m \in Hosts |-> 0] /\ handed = {} /\ misled = {}
  /\ issuing = {}
  /\ gh = [j \in Jobs |-> [st |-> "none", r |-> NoOne]]
  /\ registered = {} /\ inbox = {}
  /\ proc = [r \in Runners |-> "none"]
  /\ silent = [m \in Hosts |-> 0]
  /\ silences = 0 /\ troubles = 0

Trouble == troubles < MaxTroubles /\ troubles' = troubles + 1

-----------------------------------------------------------------------------
(* GitHub: a workflow asks for a job, a runner that is up takes any queued     *)
(* one, the job ends and its ephemeral runner exits, or it is cancelled first. *)
Sent(a, j, r) == inbox' = inbox \cup {[a |-> a, j |-> j, r |-> r]}

Over == [st |-> "completed", r |-> NoOne]

jobRequested(j) ==
  /\ gh[j].st = "none"
  /\ gh' = [gh EXCEPT ![j].st = "queued"]
  /\ Sent("queued", j, NoOne)
  /\ UNCHANGED <<tableVars, issuing, registered, proc, silent, silences, troubles>>

jobStarts(j, r) ==
  /\ gh[j].st = "queued" /\ proc[r] = "up" /\ r \in registered
  /\ gh' = [gh EXCEPT ![j] = [st |-> "running", r |-> r]]
  /\ proc' = [proc EXCEPT ![r] = "working"]
  /\ Sent("in_progress", j, r)
  /\ UNCHANGED <<tableVars, issuing, registered, silent, silences, troubles>>

jobEnds(j, r) ==
  /\ gh[j] = [st |-> "running", r |-> r] /\ proc[r] = "working"
  /\ gh' = [gh EXCEPT ![j] = Over]
  /\ proc' = [proc EXCEPT ![r] = "exited"]
  /\ registered' = registered \ {r}
  /\ Sent("completed", j, r)
  /\ UNCHANGED <<tableVars, issuing, silent, silences, troubles>>

jobCancelled(j) ==
  /\ gh[j].st = "queued"
  /\ gh' = [gh EXCEPT ![j] = Over]
  /\ Sent("completed", j, NoOne)
  /\ UNCHANGED <<tableVars, issuing, registered, proc, silent, silences, troubles>>

-----------------------------------------------------------------------------
(* discardCommand: a command is deleted and its recorded registration handed   *)
(* back.                                                                       *)
Recorded(c, S) == {r \in S : c[r].id}
Discarded(c, S) == [r \in Runners |-> IF r \in S THEN [NoCommand(r) EXCEPT !.st = "deleted"] ELSE c[r]]
CommandsOf(j) == {r \in Runners : cmd[r].st \notin {"none", "deleted"} /\ cmd[r].job = j}
Freed(u, m) == IF m = NoOne \/ u[m] = 0 THEN u ELSE [u EXCEPT ![m] = @ - 1]

(* adoptRunnerAssignment: the runner a webhook names belongs to the job it     *)
(* started. The state it leaves is [job, cmd, used, handed]; `actual` is the   *)
(* row the caller has just read or inserted.                                   *)
Tables(js) == [job |-> js, cmd |-> cmd, used |-> used, handed |-> handed]
Crossed(js, j) ==
  {p \in CommandsOf(j) : p = js[j].r /\ cmd[p].m = js[j].m /\ LiveCommand(cmd, p)}
MayAdopt(js, j, r) ==
  /\ r # NoOne /\ js[j].st # "ended"
  /\ cmd[r].st \notin {"none", "deleted", "cancelled"}
  /\ js[cmd[r].job].st = "assigned"
  /\ (cmd[r].job # j /\ js[j].st = "running") => js[j].r = NoOne /\ js[j].m = NoOne
(* Mutant of SlotsAfter: the slot of the runner given up stays charged.        *)
SlotsKept(js, j) == used
SlotsAfter(js, j) == IF js[j].st = "assigned" THEN Freed(used, js[j].m) ELSE used
Started(row, r, own) ==
  [row EXCEPT !.st = "running", !.m = cmd[r].m, !.r = r, !.n = IF own THEN @ ELSE @ + 1]
(* Mutant of Swapped: the crossed runner's command keeps its job.              *)
SwappedHalf(r, j, q, p) == [cmd EXCEPT ![r].job = j]
Swapped(r, j, q, p) == [cmd EXCEPT ![r].job = j, ![q].job = p]
adoptRunnerAssignment(js, j, r) ==
  LET p == cmd[r].job
      back == Crossed(js, j)
      q == CHOOSE x \in back : TRUE
  IN
  IF ~MayAdopt(js, j, r) THEN Tables(js)
  ELSE IF p = j THEN Tables([js EXCEPT ![j] = Started(@, r, TRUE)])
  ELSE IF js[j].st = "assigned" /\ back # {}
  THEN [Tables([js EXCEPT ![j] = Started(@, r, FALSE), ![p].m = cmd[q].m, ![p].r = q])
          EXCEPT !.cmd = Swapped(r, j, q, p)]
  ELSE [job |-> [js EXCEPT ![j] = Started(@, r, FALSE),
                           ![p].st = "queued", ![p].m = NoOne, ![p].r = NoOne],
        cmd |-> Discarded([cmd EXCEPT ![r].job = j], CommandsOf(j)),
        used |-> SlotsAfter(js, j),
        handed |-> handed \cup Recorded(cmd, CommandsOf(j))]

(* applyWorkflowJob, one event at a time, each once (processDelivery).         *)
Put(t) ==
  /\ jobs' = t.job /\ cmd' = t.cmd /\ used' = t.used /\ handed' = t.handed
  /\ UNCHANGED misled

queuedEvent(j) ==
  Put(Tables(IF jobs[j].st = "absent" THEN [jobs EXCEPT ![j].st = "queued"] ELSE jobs))

Known(j) == IF jobs[j].st = "absent" THEN [jobs EXCEPT ![j].st = "running"] ELSE jobs

inProgressEvent(j, r) ==
  LET t == adoptRunnerAssignment(Known(j), j, r) IN
  Put([t EXCEPT !.job[j].st = IF @ \in {"assigned", "queued"} THEN "running" ELSE @])

(* A job that ends takes its slot and its commands with it; a registration is  *)
(* handed back when the job never started.                                     *)
completedEvent(j, r) ==
  IF jobs[j].st = "absent" /\ r = NoOne THEN Put(Tables([jobs EXCEPT ![j] = EndedRow]))
  ELSE LET t == adoptRunnerAssignment(Known(j), j, r)
           row == t.job[j]
           mine == {c \in Runners : LiveCommand(t.cmd, c) /\ t.cmd[c].job = j}
       IN
       IF row.st = "ended" THEN Put(t)
       ELSE Put([job |-> [t.job EXCEPT ![j] = EndedRow],
                 cmd |-> [c \in Runners |->
                            IF c \in mine THEN [t.cmd[c] EXCEPT !.st = "cancelled"] ELSE t.cmd[c]],
                 used |-> Freed(t.used, row.m),
                 handed |-> t.handed \cup
                              (IF row.st = "running" THEN {} ELSE Recorded(t.cmd, mine))])

processDelivery(e) ==
  /\ e \in inbox /\ inbox' = inbox \ {e}
  /\ \/ e.a = "queued" /\ queuedEvent(e.j)
     \/ e.a = "in_progress" /\ inProgressEvent(e.j, e.r)
     \/ e.a = "completed" /\ completedEvent(e.j, e.r)
  /\ UNCHANGED <<issuing, gh, registered, proc, silent, silences, troubles>>

-----------------------------------------------------------------------------
(* tryAssign takes the queued jobs whose backoff is over, oldest first; each   *)
(* iteration sees only the counts the ones before it left, so a step is one.   *)
(* A machine other than the one that last failed the job is preferred.         *)
Free(m) == silent[m] = 0 /\ used[m] < HostSlots
tryAssign(j, m) ==
  LET n == jobs[j].n + 1  r == <<j, n>> IN
  /\ jobs[j].st = "queued" /\ r \in Runners
  /\ Free(m)
  /\ m = jobs[j].bad => \A o \in Hosts \ {m} : ~Free(o)
  /\ used' = [used EXCEPT ![m] = @ + 1]
  /\ jobs' = [jobs EXCEPT ![j].st = "assigned", ![j].m = m, ![j].r = r, ![j].n = n]
  /\ cmd' = [cmd EXCEPT ![r] = [NoCommand(r) EXCEPT !.st = "pending", !.m = m]]
  /\ issuing' = issuing \cup {r}
  /\ UNCHANGED <<handed, misled, gh, registered, inbox, proc, silent, silences, troubles>>

(* decideAttemptOutcome: back to the queue, or failed after the last attempt.  *)
Retried(row) ==
  IF row.n >= MaxProvision THEN EndedRow
  ELSE [row EXCEPT !.st = "queued", !.m = NoOne, !.r = NoOne, !.bad = row.m]

(* failAttempt: the command's live owner wins over the job the caller names.   *)
Owner(r) == IF cmd[r].st \in {"none", "deleted"} THEN r[1] ELSE cmd[r].job
failAttempt(r) ==
  LET j == Owner(r) mine == {r} \cap CommandsOf(cmd[r].job) IN
  /\ cmd' = Discarded(cmd, mine)
  /\ handed' = handed \cup Recorded(cmd, mine)
  /\ IF jobs[j].st = "assigned"
     THEN jobs' = [jobs EXCEPT ![j] = Retried(@)] /\ used' = Freed(used, jobs[j].m)
     ELSE UNCHANGED <<jobs, used>>
  /\ misled' = IF mine = {} /\ jobs[j].st = "assigned" THEN misled \cup {j} ELSE misled

(* issueJit: GitHub mints the registration, and the command takes it if it is  *)
(* still waiting (storeJitConfig), otherwise it is handed back; or GitHub      *)
(* refuses. Nothing can use a registration before its command has it, so the   *)
(* two calls are one step.                                                     *)
storeJitConfig(r) ==
  /\ r \in issuing /\ issuing' = issuing \ {r}
  /\ registered' = registered \cup {r}
  /\ IF cmd[r].st = "pending"
     THEN cmd' = [cmd EXCEPT ![r].jit = TRUE, ![r].id = TRUE] /\ UNCHANGED handed
     ELSE handed' = handed \cup {r} /\ UNCHANGED cmd
  /\ UNCHANGED <<jobs, used, misled, gh, inbox, proc, silent, silences, troubles>>

mintFails(r) ==
  /\ r \in issuing /\ issuing' = issuing \ {r}
  /\ Trouble
  /\ failAttempt(r)
  /\ UNCHANGED <<gh, registered, inbox, proc, silent, silences>>

(* drainRunnerDeletions: GitHub refuses to delete a runner that is working; a  *)
(* row is tried again, and given up after MAX_DELETION_ATTEMPTS failures.      *)
drainRunnerDeletions(r) ==
  /\ r \in handed
  /\ \/ /\ proc[r] # "working"
        /\ registered' = registered \ {r} /\ UNCHANGED troubles
     \/ Trouble /\ UNCHANGED registered
  /\ handed' = handed \ {r}
  /\ UNCHANGED <<jobs, cmd, used, misled, issuing, gh, inbox, proc, silent, silences>>

-----------------------------------------------------------------------------
(* The Agent: claim and spawn, the runner waits for a job or its provisioner   *)
(* fails, a command that is no longer live is torn down, the exit is reported  *)
(* once (a report that fails is only logged).                                  *)
claim(r) ==
  /\ cmd[r].st = "pending" /\ cmd[r].jit
  /\ cmd' = [cmd EXCEPT ![r].st = "claimed", ![r].jit = FALSE]
  /\ proc' = [proc EXCEPT ![r] = "up"]
  /\ UNCHANGED <<jobs, used, handed, misled, issuing, gh, registered, inbox, silent, silences, troubles>>

provisionerFails(r) ==
  /\ proc[r] = "up"
  /\ \/ r \notin registered /\ UNCHANGED troubles
     \/ Trouble
  /\ proc' = [proc EXCEPT ![r] = "failed"]
  /\ UNCHANGED <<tableVars, issuing, gh, registered, inbox, silent, silences>>

(* A job whose runner is torn down ends on GitHub too.                         *)
tearDown(r) ==
  /\ proc[r] \in {"up", "working"} /\ ~LiveCommand(cmd, r)
  /\ proc' = [proc EXCEPT ![r] = "failed"]
  /\ LET hit == {j \in Jobs : gh[j] = [st |-> "running", r |-> r]} IN
     /\ gh' = [j \in Jobs |-> IF j \in hit THEN Over ELSE gh[j]]
     /\ inbox' = inbox \cup {[a |-> "completed", j |-> j, r |-> r] : j \in hit}
     /\ registered' = IF hit = {} THEN registered ELSE registered \ {r}
  /\ UNCHANGED <<tableVars, issuing, silent, silences, troubles>>

report(r) ==
  /\ proc[r] \in {"exited", "failed"}
  /\ proc' = [proc EXCEPT ![r] = "none"]
  /\ \/ Trouble /\ UNCHANGED tableVars
     \/ /\ UNCHANGED troubles
        /\ IF cmd[r].st \in {"none", "deleted", "pending"} THEN UNCHANGED tableVars
           ELSE IF /\ cmd[r].st # "cancelled" /\ proc[r] = "failed"
                   /\ jobs[cmd[r].job].st = "assigned"
           THEN failAttempt(r)
           ELSE cmd' = [cmd EXCEPT ![r].st = "finished"] /\ UNCHANGED <<jobs, used, handed, misled>>
  /\ UNCHANGED <<issuing, gh, registered, inbox, silent, silences>>

agentHeartbeat(m) ==
  /\ silent[m] > 0
  /\ silent' = [silent EXCEPT ![m] = 0]
  /\ UNCHANGED <<tableVars, issuing, gh, registered, inbox, proc, silences, troubles>>

silence(m) ==
  /\ silences < MaxSilence /\ silences' = silences + 1
  /\ \E long \in {1, 2} : long > silent[m] /\ silent' = [silent EXCEPT ![m] = long]
  /\ UNCHANGED <<tableVars, issuing, gh, registered, inbox, proc, troubles>>

-----------------------------------------------------------------------------
(* reconcile.run, its jobs: finished commands go, assigned jobs whose machine  *)
(* is offline or whose command is too old are retried, running ones whose      *)
(* machine is gone are given up, queued ones too old expire; then the slots    *)
(* are counted again.                                                          *)
(* An issueJit is over long before its command is too old.                     *)
Stuck(j) ==
  jobs[j].r \in CommandsOf(j) /\ cmd[jobs[j].r].st # "finished" /\ jobs[j].r \notin issuing
reconcile(late, stale) ==
  LET lost == {j \in Jobs : jobs[j].st = "assigned" /\ (silent[jobs[j].m] > 0 \/ j \in late)}
      left == {j \in Jobs : jobs[j].st = "running" /\ (jobs[j].m = NoOne \/ silent[jobs[j].m] = 2)}
      row == [j \in Jobs |-> IF j \in lost THEN Retried(jobs[j])
                             ELSE IF j \in left \cup stale THEN EndedRow
                             ELSE jobs[j]]
      listed == {r \in Runners : cmd[r].st \in {"pending", "claimed", "cancelled"}}
      thrown == {r \in listed : cmd[r].job \in lost}
      over == {r \in listed : cmd[r].job \in left}
      swept == {r \in Runners : cmd[r].st = "finished"}
  IN
  /\ late \subseteq {j \in Jobs : jobs[j].st = "assigned" /\ Stuck(j)}
  /\ stale \subseteq {j \in Jobs : jobs[j].st = "queued"}
  /\ jobs' = row
  /\ cmd' = [r \in Runners |-> IF r \in over THEN [cmd[r] EXCEPT !.st = "finished"]
                               ELSE Discarded(cmd, thrown \cup swept)[r]]
  /\ handed' = handed \cup Recorded(cmd, thrown \cup over)
  /\ used' = [m \in Hosts |->
                Cardinality({j \in Jobs : row[j].st \in {"assigned", "running"} /\ row[j].m = m})]
  /\ UNCHANGED <<misled, issuing, gh, registered, inbox, proc, silent, silences, troubles>>

JobsNext ==
  \/ \E j \in Jobs : jobRequested(j) \/ jobCancelled(j)
  \/ \E j \in Jobs, r \in Runners : jobStarts(j, r) \/ jobEnds(j, r)
  \/ \E e \in inbox : processDelivery(e)
  \/ \E j \in Jobs, m \in Hosts : tryAssign(j, m)
  \/ \E r \in Runners : storeJitConfig(r) \/ mintFails(r) \/ drainRunnerDeletions(r)
  \/ \E r \in Runners : claim(r) \/ provisionerFails(r) \/ tearDown(r) \/ report(r)
  \/ \E m \in Hosts : agentHeartbeat(m) \/ silence(m)
  \/ \E late, stale \in SUBSET Jobs : reconcile(late, stale)

JobsSpec == JobsInit /\ [][JobsNext]_jobVars

-----------------------------------------------------------------------------
(* The slots a machine is charged with are exactly the jobs assigned to or     *)
(* running on it, without the reconciler's recount: through crossed runners,   *)
(* displaced jobs, retries and events out of order (jobs.ts, scheduler.ts).    *)
(* A late issueJit that fails the newer assignment of its job leaves a live    *)
(* command no job accounts for (scheduler.ts:149); when a third job adopts it  *)
(* two machines may be charged wrongly until the recount.                      *)
JobSlotsExact == \A m \in Hosts : used[m] = Cardinality({j \in Jobs : Holds(j, m)})

(* A job that waits in the queue, or is over, has no command a Worker would    *)
(* still provision, and no job has two: a second runner for it is never minted *)
(* while the first is live (adoptRunnerAssignment, failAttempt, reconcile).    *)
(* Jobs that a late issueJit failed in place of its own, discarded, command    *)
(* are apart (scheduler.ts:149).                                               *)
Single(j) ==
  LET live == {r \in Runners : LiveCommand(cmd, r) /\ cmd[r].job = j} IN
  Cardinality(live) <= (IF jobs[j].st \in {"assigned", "running"} THEN 1 ELSE 0)
OneLiveCommandApart == \A j \in Jobs : j \notin misled => Single(j)

(* As long as no late issueJit has failed another assignment of its job, slots *)
(* are charged for exactly what runs; and no job it has not happened to has    *)
(* more than one runner.                                                       *)
JobsRight == (misled = {} => JobSlotsExact) /\ OneLiveCommandApart

(* agentApi.ts:157: after a clean exit GitHub's webhooks settle the job and    *)
(* free the slot. An assigned job without a live command is still to be named  *)
(* by an event, or its runner is.                                              *)
CleanExitSettles ==
  \A j \in Jobs :
    (jobs[j].st = "assigned" /\ ~\E r \in CommandsOf(j) : LiveCommand(cmd, r))
      => \/ gh[j].st = "running"
         \/ \E e \in inbox : e.j = j \/ (e.r = jobs[j].r /\ e.r \in CommandsOf(j))
=============================================================================
