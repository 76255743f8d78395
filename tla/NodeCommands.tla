----------------------------- MODULE NodeCommands -----------------------------
(* The commands of one Node: the rows of nodeCommands in the control plane     *)
(* (infra/nodeCommands.ts), the Infra Agent that claims, executes and reports  *)
(* them (convexnode/client.go), and the journal that keeps an effect from      *)
(* happening twice (convexnode/journal.go). The Agent is one process at a      *)
(* time, holding the journal's lock, and takes the commands of a page one      *)
(* after the other.                                                            *)
EXTENDS Naturals, FiniteSets

CONSTANTS
  Commands,    \* the (Node, idempotency key) pairs, one row each
  Journaled,   \* builds, deploys and operations; spec reads and log tails are not
  Fenced,      \* the commands that carry an App lease
  MaxKeys,     \* command keys the journal holds (maxJournalKeys less the binding)
  SweepAt,     \* keys that start an unforced sweep (sweepThreshold)
  Failures,      \* the kinds of fault that happen
  MaxFaults    \* how many faults happen

ASSUME NodeCommandsAssumption ==
  /\ Journaled \subseteq Commands
  /\ Fenced \subseteq Commands
  /\ MaxKeys \in Nat
  /\ SweepAt \in Nat
  /\ MaxFaults \in Nat
  /\ "none" \notin Commands

VARIABLES
  status,    \* the row's status, "absent" before enqueue
  mine,      \* the row's owner is the running process (not an earlier one)
  live,      \* the row's leaseUntil is in the future
  admitted,  \* the App lease the command was queued under is still held
  step,      \* what the process is doing: [at, cmd, fresh, outcome]
  up,        \* the process runs
  mem,       \* the journal's records in memory
  disk,      \* the journal's records as a restart would find them
  broken,    \* Journal.broken: appends are refused until a restart
  overdue,      \* requests the process gave up on, which Convex may still process
  effect,    \* what happened on the Node: "none", "started" or how it ended
  runs,      \* how often the effect was started
  faults     \* faults so far

rowVars == <<status, mine, live, admitted>>
journalVars == <<mem, disk, broken>>
effectVars == <<effect, runs>>
commandVars == <<rowVars, step, up, journalVars, overdue, effectVars, faults>>

Outcomes == {"success", "failure", "unknown"}
Terminal == Outcomes \cup {"cancelled"}
Statuses == Terminal \cup {"absent", "pending", "running"}
Records == Outcomes \cup {"none", "accepted"}
Steps == {"idle", "listed", "claimed", "accepting", "executing", "recording",
          "reporting", "settling"}
Idle == [at |-> "idle", cmd |-> "none", fresh |-> FALSE, outcome |-> "none"]
Requests == [kind : {"claim"}, cmd : Commands, mine : BOOLEAN]
       \cup [kind : {"report"}, cmd : Commands, fresh : BOOLEAN,
             outcome : Outcomes]

Fault(kind) == kind \in Failures /\ faults < MaxFaults /\ faults' = faults + 1
Working(at, c) == up /\ step.at = at /\ step.cmd = c
Keys(records) == {c \in Commands : records[c] # "none"}

(* Mutant of Full: one key too many is let in.                                 *)
FullLate == Cardinality(Keys(mem)) > MaxKeys
Full == Cardinality(Keys(mem)) >= MaxKeys

CommandsInit ==
  /\ status = [c \in Commands |-> "absent"]
  /\ mine = [c \in Commands |-> FALSE]
  /\ live = [c \in Commands |-> FALSE]
  /\ admitted = [c \in Commands |-> TRUE]
  /\ step = Idle
  /\ up = TRUE
  /\ mem = [c \in Commands |-> "none"]
  /\ disk = [c \in Commands |-> "none"]
  /\ broken = FALSE
  /\ overdue = {}
  /\ effect = [c \in Commands |-> "none"]
  /\ runs = [c \in Commands |-> 0]
  /\ faults = 0

-----------------------------------------------------------------------------
(* The control plane.                                                          *)

(* A key that already names a row returns that row, whatever its status.       *)
insertNodeCommand(c) ==
  /\ status[c] = "absent"
  /\ status' = [status EXCEPT ![c] = "pending"]
  /\ UNCHANGED <<mine, live, admitted, step, up, journalVars, overdue,
                 effectVars, faults>>

Cancelled(c) ==
  /\ status[c] \in {"pending", "running"}
  /\ status' = [status EXCEPT ![c] = "cancelled"]

(* An operator cancels, an unread log tail expires, or a deploy run ends.      *)
cancel(c) ==
  /\ Cancelled(c)
  /\ UNCHANGED <<mine, live, admitted, step, up, journalVars, overdue,
                 effectVars, faults>>

(* The App lease passes to another run or expires.                             *)
AppLeaseLost(c) ==
  /\ c \in Fenced
  /\ admitted[c]
  /\ admitted' = [admitted EXCEPT ![c] = FALSE]
  /\ UNCHANGED <<status, mine, live, step, up, journalVars, overdue,
                 effectVars, faults>>

(* What pending lists: a command whose claim is live is left out.              *)
Listed(c) == status[c] = "pending" \/ (status[c] = "running" /\ ~live[c])

(* claim answers the epoch of a live claim to its own owner, and a new epoch   *)
(* otherwise, unless another command of the Node is claimed. Epochs are only   *)
(* ever compared with the row's, so a claim is kept as fresh, its epoch being  *)
(* the row's, until a new epoch makes every earlier claim of the row stale.    *)
StillClaimed(c, byMine) == status[c] = "running" /\ live[c] /\ mine[c] = byMine
NoOtherClaimed(c) == \A d \in Commands \ {c} : ~(status[d] = "running" /\ live[d])

(* Mutants of MayClaim: a command whose claim lapsed is not claimed again; one *)
(* that was cancelled is.                                                      *)
MayClaimOnce(c) == status[c] = "pending" /\ NoOtherClaimed(c)
MayClaimEnded(c) == status[c] # "absent" /\ ~live[c] /\ NoOtherClaimed(c)
MayClaim(c) ==
  /\ status[c] \in {"pending", "running"}
  /\ ~live[c]
  /\ NoOtherClaimed(c)
claimGranted(c, byMine) == admitted[c] /\ (StillClaimed(c, byMine) \/ MayClaim(c))

claim(c, byMine) ==
  IF StillClaimed(c, byMine)
  THEN UNCHANGED <<status, mine, live>>
  ELSE /\ status' = [status EXCEPT ![c] = "running"]
       /\ mine' = [mine EXCEPT ![c] = byMine]
       /\ live' = [live EXCEPT ![c] = TRUE]

Outdated(c, byMine, r) ==
  IF ~StillClaimed(c, byMine) /\ r.kind = "report" /\ r.cmd = c
  THEN [r EXCEPT !.fresh = FALSE] ELSE r

(* The check renew, payload and report make before anything else. An epoch has *)
(* one owner, so the owner needs no comparison of its own.                     *)
claimed(c, fresh) == fresh /\ status[c] = "running" /\ live[c] /\ admitted[c]

(* report takes an outcome under a valid claim, and the retry of the very      *)
(* report it has taken; live matters no more once the row is terminal.         *)
reportTaken(c, fresh, outcome) ==
  (fresh /\ status[c] = outcome) \/ claimed(c, fresh)

(* The row's lease runs out. A process that works on the command renews it     *)
(* every ten of its sixty seconds, so there it takes a stall.                  *)
LeaseLapses(c) ==
  /\ live[c]
  /\ status[c] = "running"
  /\ live' = [live EXCEPT ![c] = FALSE]
  /\ IF up /\ step.cmd = c /\ step.at # "listed" /\ mine[c]
     THEN Fault("stall")
     ELSE UNCHANGED faults
  /\ UNCHANGED <<status, mine, admitted, step, up, journalVars, overdue,
                 effectVars>>

-----------------------------------------------------------------------------
(* The Infra Agent.                                                            *)

(* step: the next command of the page.                                         *)
list(c) ==
  /\ up /\ step.at = "idle"
  /\ Listed(c)
  /\ step' = [Idle EXCEPT !.at = "listed", !.cmd = c]
  /\ UNCHANGED <<rowVars, up, journalVars, overdue, effectVars, faults>>

NoRoom(c) == c \in Journaled /\ mem[c] = "none" /\ Full

(* execute refuses a journaled command a full journal has no room for, before  *)
(* claiming it; a claim refused with 409 leaves the rest of the page to run.   *)
Refused(c) ==
  /\ Working("listed", c)
  /\ NoRoom(c) \/ ~claimGranted(c, TRUE)
  /\ step' = Idle
  /\ UNCHANGED <<rowVars, up, journalVars, overdue, effectVars, faults>>

(* execute claims; a key the journal holds goes straight to its report, an     *)
(* unfinished one as unknown.                                                  *)
(* Mutant of Replayed: an unfinished command counts as failed.                 *)
ReplayedFailed(r) == IF r = "accepted" THEN "failure" ELSE r
Replayed(r) == IF r = "accepted" THEN "unknown" ELSE r
executeClaims(c) ==
  /\ Working("listed", c)
  /\ ~NoRoom(c)
  /\ claimGranted(c, TRUE)
  /\ claim(c, TRUE)
  /\ step' = [at |-> IF c \in Journaled /\ mem[c] # "none" THEN "reporting"
                     ELSE "claimed",
              cmd |-> c,
              fresh |-> TRUE,
              outcome |-> IF c \in Journaled THEN Replayed(mem[c]) ELSE "none"]
  /\ overdue' = {Outdated(c, TRUE, r) : r \in overdue}
  /\ UNCHANGED <<admitted, up, journalVars, effectVars, faults>>

(* The payload is read under the claim.                                        *)
payload(c) ==
  /\ Working("claimed", c)
  /\ step' = IF claimed(c, step.fresh)
             THEN [step EXCEPT !.at = IF c \in Journaled THEN "accepting"
                                      ELSE "executing"]
             ELSE Idle
  /\ IF c \notin Journaled /\ claimed(c, step.fresh)
     THEN /\ effect' = [effect EXCEPT ![c] = "started"]
          /\ runs' = [runs EXCEPT ![c] = 1]
     ELSE UNCHANGED effectVars
  /\ UNCHANGED <<rowVars, up, journalVars, overdue, faults>>

(* Journal.append and its failures. What a restart finds after a write that    *)
(* was cut off is the old record, the new one, or a damaged line, which counts *)
(* as unknown for a key the journal did not hold and as nothing otherwise.     *)
Written(c, r) == disk' = [disk EXCEPT ![c] = r] /\ mem' = [mem EXCEPT ![c] = r]
Torn(c, r) == {disk[c], r, IF disk[c] = "none" THEN "unknown" ELSE disk[c]}
append(c, r) == ~broken /\ Written(c, r) /\ UNCHANGED broken
appendFails(c, r) ==
  \/ \* refused, the earlier write not being accounted for
     broken /\ UNCHANGED <<journalVars, faults>>
  \/ \* the write failed and the file was rewritten from memory
     ~broken /\ Fault("write") /\ disk' = mem /\ UNCHANGED <<mem, broken>>
  \/ \* neither the write nor the rewrite succeeded
     /\ ~broken /\ Fault("torn")
     /\ \E t \in Torn(c, r) : disk' = [disk EXCEPT ![c] = t]
     /\ broken' = TRUE
     /\ UNCHANGED mem
  \/ \* the record is written, tidying the file afterwards failed
     ~broken /\ Fault("tidy") /\ Written(c, r) /\ UNCHANGED broken

(* Mutant of accept: the effect starts without a record.                       *)
acceptUnwritten(c) ==
  /\ Working("accepting", c)
  /\ step' = [step EXCEPT !.at = "executing"]
  /\ effect' = [effect EXCEPT ![c] = "started"]
  /\ runs' = [runs EXCEPT ![c] = @ + 1]
  /\ UNCHANGED <<rowVars, up, journalVars, overdue, faults>>

(* `accepted` is on the disk before the effect starts.                         *)
accept(c) ==
  /\ Working("accepting", c)
  /\ append(c, "accepted")
  /\ step' = [step EXCEPT !.at = "executing"]
  /\ effect' = [effect EXCEPT ![c] = "started"]
  /\ runs' = [runs EXCEPT ![c] = @ + 1]
  /\ UNCHANGED <<rowVars, up, overdue, faults>>

(* withClaim: the outcome is unknown when the run was interrupted, by its time *)
(* limit or by a renewal that was refused or failed, at any point of the       *)
(* effect.                                                                     *)
withClaim(c) ==
  /\ Working("executing", c)
  /\ \E e \in {"success", "failure", "partial"} :
       \E o \in IF e = "partial" THEN {"unknown"} ELSE {e, "unknown"} :
         /\ effect' = [effect EXCEPT ![c] = e]
         /\ step' = [step EXCEPT !.outcome = o,
                       !.at = IF c \in Journaled THEN "recording" ELSE "reporting"]
  /\ UNCHANGED <<rowVars, up, journalVars, overdue, runs, faults>>

record(c) ==
  /\ Working("recording", c)
  /\ append(c, step.outcome)
  /\ step' = [step EXCEPT !.at = "reporting"]
  /\ UNCHANGED <<rowVars, up, overdue, effectVars, faults>>

(* report, and the answer the process acts on.                                 *)
Recorded(c, outcome) ==
  IF status[c] \in Terminal THEN UNCHANGED status
  ELSE status' = [status EXCEPT ![c] = outcome]
report(c) ==
  /\ Working("reporting", c)
  /\ IF reportTaken(c, step.fresh, step.outcome)
     THEN /\ Recorded(c, step.outcome)
          /\ step' = IF c \in Journaled THEN [step EXCEPT !.at = "settling"] ELSE Idle
     ELSE step' = Idle /\ UNCHANGED status
  /\ UNCHANGED <<mine, live, admitted, up, journalVars, overdue, effectVars,
                 faults>>

(* settle forgets the key, but never one that is `accepted` in memory.         *)
settleable(c) == mem[c] \notin {"none", "accepted"}
settle(c) ==
  /\ Working("settling", c)
  /\ IF settleable(c) THEN append(c, "none") ELSE UNCHANGED journalVars
  /\ step' = Idle
  /\ UNCHANGED <<rowVars, up, overdue, effectVars, faults>>

WriteOf(at) == CASE at = "accepting" -> "accepted"
                 [] at = "recording" -> step.outcome
                 [] at = "settling" -> "none"

(* A step that cannot write its record ends there.                             *)
journalError(c) ==
  /\ \E at \in {"accepting", "recording", "settling"} :
       /\ Working(at, c)
       /\ at = "settling" => settleable(c)
       /\ appendFails(c, WriteOf(at))
  /\ step' = Idle
  /\ UNCHANGED <<rowVars, up, overdue, effectVars>>

(* sweepJournal: forgets the keys of terminal commands, when the journal is    *)
(* full or enough keys have collected. Statuses are asked for first; a         *)
(* terminal one does not change any more.                                      *)
Settled == {c \in Commands : settleable(c) /\ status[c] \in Terminal}
sweepJournal ==
  /\ up /\ step.at \in {"idle", "listed"}
  /\ Full \/ Cardinality({c \in Commands : settleable(c)}) >= SweepAt
  /\ Settled # {}
  /\ mem' = [c \in Commands |-> IF c \in Settled THEN "none" ELSE mem[c]]
  /\ \/ disk' = mem' /\ UNCHANGED faults
     \/ Fault("sweep") /\ UNCHANGED disk
  /\ UNCHANGED <<rowVars, step, up, broken, overdue, effectVars>>

(* request: no answer within fifteen seconds. Convex may never see it, or      *)
(* process it after the process has given up.                                  *)
requestFails(c) ==
  /\ up /\ step.cmd = c /\ step.at \in {"listed", "claimed", "reporting"}
  /\ Fault("request")
  /\ overdue' = overdue \cup
       (CASE step.at = "listed" -> {[kind |-> "claim", cmd |-> c, mine |-> TRUE]}
          [] step.at = "claimed" -> {}
          [] step.at = "reporting" ->
               {[kind |-> "report", cmd |-> c, fresh |-> step.fresh,
                 outcome |-> step.outcome]})
  /\ step' = Idle
  /\ UNCHANGED <<rowVars, up, journalVars, effectVars>>

Processed(r) ==
  /\ r \in overdue
  /\ \/ /\ r.kind = "claim" /\ claimGranted(r.cmd, r.mine)
        /\ claim(r.cmd, r.mine)
        /\ overdue' = {Outdated(r.cmd, r.mine, q) : q \in overdue \ {r}}
        /\ step' = IF step.cmd = r.cmd /\ ~StillClaimed(r.cmd, r.mine)
                   THEN [step EXCEPT !.fresh = FALSE] ELSE step
     \/ /\ r.kind = "report" /\ reportTaken(r.cmd, r.fresh, r.outcome)
        /\ Recorded(r.cmd, r.outcome)
        /\ overdue' = overdue \ {r}
        /\ UNCHANGED <<mine, live, step>>
  /\ UNCHANGED <<admitted, up, journalVars, effectVars, faults>>

(* The process ends, and with it whatever it was executing. A record that was  *)
(* being written may be on the disk, damaged, or not at all.                   *)
Stopped ==
  /\ up' = FALSE
  /\ step' = Idle
  /\ effect' = [c \in Commands |-> IF effect[c] = "started" /\ step.cmd = c
                                   THEN "partial" ELSE effect[c]]
crash ==
  /\ up
  /\ Fault("crash")
  /\ Stopped
  /\ IF step.at \in {"accepting", "recording", "settling"} /\ ~broken
        /\ (step.at = "settling" => settleable(step.cmd))
     THEN \E t \in Torn(step.cmd, WriteOf(step.at)) :
            disk' = [disk EXCEPT ![step.cmd] = t]
     ELSE UNCHANGED disk
  /\ UNCHANGED <<rowVars, mem, broken, overdue, runs>>

(* A Node whose heartbeat reports journal_error or journal_full is stopped by  *)
(* its operator.                                                               *)
stopBlocked ==
  /\ up /\ step.at = "idle"
  /\ broken \/ (Full /\ Settled = {})
  /\ Stopped
  /\ UNCHANGED <<rowVars, journalVars, overdue, runs, faults>>

(* OpenJournal reads the records back and refuses a file of too many keys.     *)
Opens == Cardinality(Keys(disk)) <= MaxKeys
OpenJournal ==
  /\ ~up
  /\ Opens
  /\ up' = TRUE
  /\ mem' = [c \in Commands |-> Replayed(disk[c])]
  /\ broken' = FALSE
  /\ mine' = [c \in Commands |-> FALSE]
  /\ overdue' = {IF r.kind = "claim" THEN [r EXCEPT !.mine = FALSE] ELSE r : r \in overdue}
  /\ UNCHANGED <<status, live, admitted, step, disk, effectVars, faults>>

(* journal release, for a command the operator finds terminal in Convex.       *)
ReleaseJournalKeys(c) ==
  /\ ~up
  /\ Opens
  /\ disk[c] # "none"
  /\ status[c] \in Terminal
  /\ disk' = [d \in Commands |-> IF d = c THEN "none" ELSE Replayed(disk[d])]
  /\ UNCHANGED <<rowVars, step, up, mem, broken, overdue, effectVars, faults>>

-----------------------------------------------------------------------------
CommandSteps(c) ==
  \/ insertNodeCommand(c) \/ cancel(c) \/ AppLeaseLost(c) \/ LeaseLapses(c)
  \/ list(c) \/ Refused(c) \/ executeClaims(c) \/ payload(c) \/ accept(c)
  \/ withClaim(c) \/ record(c) \/ report(c) \/ settle(c) \/ journalError(c)
  \/ requestFails(c) \/ ReleaseJournalKeys(c)

CommandsNext ==
  \/ \E c \in Commands : CommandSteps(c)
  \/ sweepJournal
  \/ \E r \in overdue : Processed(r)
  \/ crash \/ stopBlocked \/ OpenJournal

CommandsSpec == CommandsInit /\ [][CommandsNext]_commandVars

(* The Agent's loop goes on, a lease nobody renews runs out, a command whose   *)
(* App lease is gone is cancelled with its run, the service manager restarts   *)
(* the Agent, and an operator stops one that reports it is blocked.            *)
CommandsFairness ==
  /\ \A c \in Commands :
       /\ SF_commandVars(list(c) /\ ~NoRoom(c) /\ claimGranted(c, TRUE))
       /\ WF_commandVars(executeClaims(c))
       /\ WF_commandVars(\/ Refused(c) \/ payload(c) \/ accept(c) \/ withClaim(c)
                         \/ record(c) \/ report(c) \/ settle(c) \/ journalError(c))
       /\ WF_commandVars(LeaseLapses(c) /\ UNCHANGED faults)
       /\ WF_commandVars(~admitted[c] /\ cancel(c))
  /\ WF_commandVars(sweepJournal)
  /\ SF_commandVars(stopBlocked)
  /\ WF_commandVars(OpenJournal)

CommandsFairSpec == CommandsSpec /\ CommandsFairness

-----------------------------------------------------------------------------
(* A build, a deploy or an operation is never started twice on the Node: not   *)
(* after a lapsed claim, a lost answer, a torn journal or a restart anywhere   *)
(* between accepting it and reporting it (client.go, execute; journal.go).     *)
AtMostOnce == \A c \in Journaled : runs[c] <= 1

(* What the control plane records as success or failure is what happened on    *)
(* the Node, also when it was reported by a later process, from the journal or *)
(* by a request that arrived late (client.go, execute; nodeCommands.ts, report)*)
ReportsTrue ==
  \A c \in Commands : status[c] \in {"success", "failure"} => effect[c] = status[c]

(* A Node that stopped can start again on its journal (journal.go, full and    *)
(* OpenJournal), as long as no sweep fails to rewrite it.                      *)
Reopens == ~up => Opens

(* The journal carries the truth from one process to the next.                 *)
JournalSound == ReportsTrue /\ Reopens

(* No command is open (client.go, Run; nodeCommands.ts, pending and claim).    *)
CommandsSettled == \A c \in Commands : status[c] \in Terminal \cup {"absent"}

(* The rows, claims, journal and requests together keep what the control plane *)
(* relies on: a command ends once, its effect begins at most once, and a known *)
(* outcome is the effect's own.                                                *)
Contract == INSTANCE CommandContract WITH
  Commands <- Journaled,
  result <- [c \in Journaled |-> IF status[c] \in Terminal THEN status[c] ELSE "open"],
  effect <- [c \in Journaled |-> effect[c]]
ImplementsContract == Contract!ContractSpec
=============================================================================
