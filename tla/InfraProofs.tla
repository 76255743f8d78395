----------------------------- MODULE InfraProofs -----------------------------
(* Proofs about the Infra side of Convex. NodeCommands, for any number of      *)
(* commands, any journal size and any number of faults: a journaled effect     *)
(* starts at most once, what the control plane records is what happened, the   *)
(* journal can always be opened again, and the whole implements                *)
(* CommandContract. DeployPipeline, for any number of runs, Nodes and outages: *)
(* runs commit in order, and the container an App is routed to is up.          *)
EXTENDS NodeCommands, DeployPipeline, FiniteSetTheorems, TLAPS

-----------------------------------------------------------------------------
(* The inductive invariant.                                                    *)

Effects == {"none", "started", "success", "failure", "partial"}

StepRecords ==
  [at : Steps, cmd : Commands \cup {"none"}, fresh : BOOLEAN, outcome : Outcomes \cup {"none"}]

CommandsTypeOK ==
  /\ status \in [Commands -> Statuses]
  /\ mine \in [Commands -> BOOLEAN]
  /\ live \in [Commands -> BOOLEAN]
  /\ admitted \in [Commands -> BOOLEAN]
  /\ step \in StepRecords
  /\ up \in BOOLEAN
  /\ mem \in [Commands -> Records]
  /\ disk \in [Commands -> Records]
  /\ broken \in BOOLEAN
  /\ overdue \subseteq Requests
  /\ effect \in [Commands -> Effects]
  /\ runs \in [Commands -> Nat]

(* What the process is doing is about one command, and one that is over has an *)
(* outcome to write down.                                                      *)
StepOK ==
  /\ ~up => step = Idle
  /\ step.at # "idle" => step.cmd \in Commands
  /\ step.at \in {"recording", "reporting"} => step.outcome \in Outcomes
  /\ step.at \in {"accepting", "recording", "settling"} => step.cmd \in Journaled
  /\ step.at = "settling" => status[step.cmd] \in Terminal
  /\ step.at = "executing" => effect[step.cmd] = "started"

(* An effect that has started is over in the control plane, or remembered on   *)
(* the disk and, while a process runs, in its memory.                          *)
Remembered(c) ==
  /\ runs[c] = (IF effect[c] = "none" THEN 0 ELSE 1)
  /\ effect[c] # "none" =>
       status[c] \in Terminal \/ (disk[c] # "none" /\ (up => mem[c] # "none"))
  /\ step.cmd = c /\ step.at \in {"claimed", "accepting"} => effect[c] = "none"

(* Whoever may still tell how c ended tells the truth: its row, the journal,   *)
(* the process and every report on its way.                                    *)
Knows(c, o) == o \in {"success", "failure"} => effect[c] = o
Truthful(c) ==
  /\ Knows(c, status[c])
  /\ step.cmd = c /\ step.at \in {"recording", "reporting"} => Knows(c, step.outcome)
  /\ c \in Journaled => /\ Knows(c, mem[c]) /\ Knows(c, disk[c])
                        /\ \A r \in overdue : r.kind = "report" /\ r.cmd = c => Knows(c, r.outcome)

(* A command that is not journaled may run again; a report of an earlier run   *)
(* is then stale, or its claim has lapsed.                                     *)
ReportsStale(c) ==
  \A r \in overdue :
    r.kind = "report" /\ r.cmd = c /\ r.fresh /\ status[c] = "running" /\ live[c] =>
      /\ Knows(c, r.outcome)
      /\ ~(step.cmd = c /\ step.at \in {"listed", "claimed", "executing"})

CommandsInv ==
  /\ CommandsTypeOK
  /\ StepOK
  /\ \A c \in Journaled : Remembered(c)
  /\ \A c \in Commands : Truthful(c)
  /\ \A c \in Commands \ Journaled : ReportsStale(c)

(* Room for one more key is made sure of before a command is claimed, and the  *)
(* file has the keys of the memory unless a write is unaccounted for.          *)
JournalFits ==
  /\ up => Cardinality(Keys(mem)) <= MaxKeys
  /\ up /\ step.at \in {"claimed", "accepting"} /\ step.cmd \in Journaled =>
       mem[step.cmd] = "none" /\ Cardinality(Keys(mem)) < MaxKeys
  /\ up /\ step.at \in {"executing", "recording"} /\ step.cmd \in Journaled =>
       mem[step.cmd] # "none"
  /\ up /\ ~broken => Keys(disk) = Keys(mem)
  /\ Cardinality(Keys(disk)) <= MaxKeys

-----------------------------------------------------------------------------
(* Requests.                                                                   *)

(* A claim that raises the epoch changes nothing of a request but that a       *)
(* report is no longer fresh.                                                  *)
LEMMA OutdatedKeeps ==
  ASSUME NEW c \in Commands, NEW b \in BOOLEAN, NEW r \in Requests
  PROVE  /\ Outdated(c, b, r) \in Requests
         /\ Outdated(c, b, r).kind = r.kind
         /\ Outdated(c, b, r).cmd = r.cmd
         /\ r.kind = "report" => /\ Outdated(c, b, r).outcome = r.outcome
                                 /\ Outdated(c, b, r).fresh => r.fresh
         /\ r.kind = "report" /\ r.cmd = c /\ Outdated(c, b, r).fresh => StillClaimed(c, b)
<1>1. CASE r \in [kind : {"claim"}, cmd : Commands, mine : BOOLEAN]
  BY <1>1 DEF Outdated, Requests
<1>2. CASE r \in [kind : {"report"}, cmd : Commands, fresh : BOOLEAN, outcome : Outcomes]
  BY <1>2 DEF Outdated, Requests
<1> QED BY <1>1, <1>2 DEF Requests

(* The start of a process changes nothing of a report.                         *)
Inherited(r) == IF r.kind = "claim" THEN [r EXCEPT !.mine = FALSE] ELSE r
(* A request that outlives its process is still the same kind of request.      *)
LEMMA InheritedKeeps ==
  ASSUME NEW r \in Requests
  PROVE  /\ Inherited(r) \in Requests
         /\ Inherited(r).kind = r.kind
         /\ r.kind = "report" => Inherited(r) = r
<1>1. CASE r \in [kind : {"claim"}, cmd : Commands, mine : BOOLEAN]
  BY <1>1 DEF Inherited, Requests
<1>2. CASE r \in [kind : {"report"}, cmd : Commands, fresh : BOOLEAN, outcome : Outcomes]
  BY <1>2 DEF Inherited, Requests
<1> QED BY <1>1, <1>2 DEF Requests

(* The fields of a request.                                                    *)
LEMMA RequestParts ==
  ASSUME NEW r \in Requests
  PROVE  /\ r.cmd \in Commands
         /\ r.kind = "claim" => r.mine \in BOOLEAN
         /\ r.kind = "report" => r.fresh \in BOOLEAN /\ r.outcome \in Outcomes
BY DEF Requests

-----------------------------------------------------------------------------
(* Types and the shape of a step.                                              *)

(* A Node between commands is a step record.                                   *)
LEMMA IdleStep == Idle \in StepRecords
BY DEF Idle, StepRecords, Steps

(* The invariant holds before the first command.                               *)
LEMMA InitInv == CommandsInit => CommandsInv
<1> SUFFICES ASSUME CommandsInit PROVE CommandsInv
  OBVIOUS
<1> USE NodeCommandsAssumption DEF CommandsInit
<1>1. CommandsTypeOK
  BY DEF CommandsTypeOK, StepRecords, Statuses, Records, Steps, Idle, Effects
<1>2. StepOK
  BY DEF StepOK, Idle
<1>3. \A c \in Journaled : Remembered(c)
  BY DEF Remembered, Idle
<1>4. \A c \in Commands : Truthful(c) /\ ReportsStale(c)
  BY DEF Truthful, Knows, ReportsStale, Idle
<1> QED BY <1>1, <1>2, <1>3, <1>4 DEF CommandsInv

(* The rows after a claim, and after a report.                                 *)
LEMMA ClaimTypes ==
  ASSUME CommandsTypeOK, NEW c \in Commands, NEW b \in BOOLEAN, claim(c, b)
  PROVE  /\ status' \in [Commands -> Statuses]
         /\ mine' \in [Commands -> BOOLEAN]
         /\ live' \in [Commands -> BOOLEAN]
<1>1. CASE StillClaimed(c, b)
  BY <1>1 DEF claim, CommandsTypeOK, StepRecords
<1>2. CASE ~StillClaimed(c, b)
  <2>1. status' = [status EXCEPT ![c] = "running"] /\ status \in [Commands -> Statuses]
    BY <1>2 DEF claim, CommandsTypeOK, StepRecords
  <2>2. mine' = [mine EXCEPT ![c] = b] /\ mine \in [Commands -> BOOLEAN]
    BY <1>2 DEF claim, CommandsTypeOK, StepRecords
  <2>3. live' = [live EXCEPT ![c] = TRUE] /\ live \in [Commands -> BOOLEAN]
    BY <1>2 DEF claim, CommandsTypeOK, StepRecords
  <2>4. status' \in [Commands -> Statuses]
    BY <2>1 DEF Statuses
  <2>5. mine' \in [Commands -> BOOLEAN]
    BY <2>2
  <2>6. live' \in [Commands -> BOOLEAN]
    BY <2>3
  <2> QED BY <2>4, <2>5, <2>6
<1> QED BY <1>1, <1>2

(* Recording an outcome keeps the command rows well typed.                     *)
LEMMA RecordedTypes ==
  ASSUME CommandsTypeOK, NEW c \in Commands, NEW o \in Outcomes, Recorded(c, o)
  PROVE  status' \in [Commands -> Statuses]
BY DEF Recorded, CommandsTypeOK, StepRecords, Statuses, Terminal

(* What a write that fails leaves behind.                                      *)
LEMMA FailedWriteTypes ==
  ASSUME CommandsTypeOK, NEW c \in Commands, NEW o \in Records, appendFails(c, o)
  PROVE  /\ mem' \in [Commands -> Records]
         /\ disk' \in [Commands -> Records]
         /\ broken' \in BOOLEAN
<1>1. \A t \in Torn(c, o) : t \in Records
  BY DEF Torn, CommandsTypeOK, StepRecords, Records, Outcomes
<1>2. CASE broken \/ (disk' = mem /\ UNCHANGED <<mem, broken>>)
  BY <1>2 DEF appendFails, journalVars, CommandsTypeOK, StepRecords
<1>3. CASE Written(c, o) /\ UNCHANGED broken
  BY <1>3 DEF Written, CommandsTypeOK, StepRecords
<1>4. CASE /\ \E t \in Torn(c, o) : disk' = [disk EXCEPT ![c] = t]
           /\ broken' = TRUE /\ UNCHANGED mem
  BY <1>1, <1>4 DEF CommandsTypeOK, StepRecords
<1> QED BY <1>2, <1>3, <1>4 DEF appendFails

(* What a step writes to the journal is a journal record.                      *)
LEMMA WritesRecord ==
  ASSUME CommandsTypeOK, StepOK, NEW at \in {"accepting", "recording", "settling"}, step.at = at
  PROVE  WriteOf(at) \in Records
BY DEF WriteOf, Records, StepOK, Outcomes

(* Every step keeps the types.                                                 *)
LEMMA NextTypeOK ==
  ASSUME CommandsTypeOK, StepOK, CommandsNext
  PROVE  CommandsTypeOK'
<1> USE NodeCommandsAssumption
<1>1. ASSUME NEW c \in Commands, CommandSteps(c) PROVE CommandsTypeOK'
  <2>1. CASE insertNodeCommand(c) \/ cancel(c) \/ AppLeaseLost(c) \/ LeaseLapses(c)
    BY <2>1 DEF insertNodeCommand, cancel, Cancelled, AppLeaseLost, LeaseLapses, CommandsTypeOK, StepRecords,
                Statuses, Terminal, journalVars, effectVars
  <2>2. CASE list(c) \/ Refused(c)
    <3>1. step' \in {Idle, [at |-> "listed", cmd |-> c, fresh |-> FALSE, outcome |-> "none"]}
      BY <2>2 DEF list, Refused, Idle
    <3>2. [at |-> "listed", cmd |-> c, fresh |-> FALSE, outcome |-> "none"] \in StepRecords
      BY DEF StepRecords, Steps
    <3> QED BY <2>2, <3>1, <3>2, IdleStep DEF list, Refused, CommandsTypeOK, rowVars, journalVars, effectVars
  <2>3. CASE executeClaims(c)
    <3>1. \A r \in overdue : Outdated(c, TRUE, r) \in Requests
      BY OutdatedKeeps DEF CommandsTypeOK, StepRecords
    <3>2. overdue' \subseteq Requests
      BY <2>3, <3>1 DEF executeClaims
    <3>3. step' \in StepRecords
      BY <2>3 DEF executeClaims, Replayed, CommandsTypeOK, StepRecords, Records, Steps, Outcomes
    <3> QED BY <2>3, <3>2, <3>3, ClaimTypes DEF executeClaims, CommandsTypeOK, StepRecords, journalVars, effectVars
  <2>4. CASE payload(c)
    BY <2>4 DEF payload, Working, CommandsTypeOK, StepRecords, Idle, Steps, Effects, rowVars, journalVars, effectVars
  <2>5. CASE accept(c)
    BY <2>5 DEF accept, append, Written, CommandsTypeOK, StepRecords, Steps, Effects, Records, rowVars
  <2>6. CASE withClaim(c)
    <3>1. PICK e \in {"success", "failure", "partial"}, o \in Outcomes :
            /\ effect' = [effect EXCEPT ![c] = e]
            /\ step' = [step EXCEPT !.outcome = o,
                          !.at = IF c \in Journaled THEN "recording" ELSE "reporting"]
      BY <2>6 DEF withClaim, Outcomes
    <3>2. step' \in StepRecords
      BY <3>1 DEF CommandsTypeOK, StepRecords, Steps
    <3>3. effect' \in [Commands -> Effects]
      BY <3>1 DEF CommandsTypeOK, StepRecords, Effects
    <3> QED BY <2>6, <3>2, <3>3 DEF withClaim, CommandsTypeOK, StepRecords, rowVars, journalVars
  <2>7. CASE record(c)
    BY <2>7 DEF record, Working, append, Written, StepOK, CommandsTypeOK, StepRecords, Steps, Records, rowVars, effectVars
  <2>8. CASE report(c)
    <3>1. step.outcome \in Outcomes
      BY <2>8 DEF report, Working, StepOK
    <3>2. status' \in [Commands -> Statuses]
      BY <2>8, <3>1, RecordedTypes DEF report, CommandsTypeOK, StepRecords
    <3>3. step' \in {Idle, [step EXCEPT !.at = "settling"]}
      BY <2>8 DEF report
    <3>4. [step EXCEPT !.at = "settling"] \in StepRecords
      BY DEF CommandsTypeOK, StepRecords, Steps
    <3> QED BY <2>8, <3>2, <3>3, <3>4, IdleStep DEF report, CommandsTypeOK, journalVars, effectVars
  <2>9. CASE settle(c)
    BY <2>9 DEF settle, append, Written, CommandsTypeOK, StepRecords, Records, Steps, Idle, rowVars, effectVars, journalVars
  <2>10. CASE journalError(c)
    <3>1. PICK at \in {"accepting", "recording", "settling"} : Working(at, c) /\ appendFails(c, WriteOf(at))
      BY <2>10 DEF journalError
    <3>2. WriteOf(at) \in Records
      BY <3>1, WritesRecord DEF Working
    <3>3. mem' \in [Commands -> Records] /\ disk' \in [Commands -> Records] /\ broken' \in BOOLEAN
      BY <3>1, <3>2, FailedWriteTypes
    <3> QED BY <2>10, <3>3 DEF journalError, CommandsTypeOK, StepRecords, Idle, Steps, rowVars, effectVars
  <2>11. CASE requestFails(c)
    <3>1. CASE step.at = "listed"
      <4>1. [kind |-> "claim", cmd |-> c, mine |-> TRUE] \in Requests
        BY DEF Requests
      <4>2. overdue' \subseteq Requests
        BY <2>11, <3>1, <4>1 DEF requestFails, CommandsTypeOK
      <4> QED BY <2>11, <4>2 DEF requestFails, CommandsTypeOK, StepRecords, Idle, Steps, rowVars,
                                 journalVars, effectVars
    <3>2. CASE step.at = "claimed"
      BY <2>11, <3>2 DEF requestFails, CommandsTypeOK, StepRecords, Idle, Steps, rowVars, journalVars,
                         effectVars
    <3>3. CASE step.at = "reporting"
      <4>1. [kind |-> "report", cmd |-> c, fresh |-> step.fresh, outcome |-> step.outcome] \in Requests
        BY <3>3 DEF StepOK, CommandsTypeOK, StepRecords, Requests
      <4>2. overdue' \subseteq Requests
        BY <2>11, <3>3, <4>1 DEF requestFails, CommandsTypeOK, StepRecords
      <4> QED BY <2>11, <4>2 DEF requestFails, CommandsTypeOK, StepRecords, Idle, Steps, rowVars,
                                 journalVars, effectVars
    <3> QED BY <2>11, <3>1, <3>2, <3>3 DEF requestFails
  <2>12. CASE ReleaseJournalKeys(c)
    BY <2>12 DEF ReleaseJournalKeys, Replayed, CommandsTypeOK, StepRecords, Records, Outcomes, rowVars, effectVars
  <2> QED BY <1>1, <2>1, <2>2, <2>3, <2>4, <2>5, <2>6, <2>7, <2>8, <2>9, <2>10, <2>11, <2>12 DEF CommandSteps
<1>2. CASE sweepJournal
  BY <1>2 DEF sweepJournal, CommandsTypeOK, StepRecords, Records, rowVars, effectVars
<1>3. ASSUME NEW r \in overdue, Processed(r) PROVE CommandsTypeOK'
  <2>1. r \in Requests /\ r.cmd \in Commands
    BY RequestParts DEF CommandsTypeOK, StepRecords
  <2>2. CASE r.kind = "claim" /\ claim(r.cmd, r.mine)
             /\ overdue' = {Outdated(r.cmd, r.mine, q) : q \in overdue \ {r}}
             /\ step' = IF step.cmd = r.cmd /\ ~StillClaimed(r.cmd, r.mine)
                        THEN [step EXCEPT !.fresh = FALSE] ELSE step
    <3>1. r.mine \in BOOLEAN
      BY <2>1, <2>2, RequestParts
    <3>2. \A q \in overdue : Outdated(r.cmd, r.mine, q) \in Requests
      BY <2>1, <3>1, OutdatedKeeps DEF CommandsTypeOK, StepRecords
    <3>3. overdue' \subseteq Requests
      BY <2>2, <3>2
    <3>4. step' \in StepRecords
      BY <2>2 DEF CommandsTypeOK, StepRecords
    <3>5. /\ status' \in [Commands -> Statuses] /\ mine' \in [Commands -> BOOLEAN]
          /\ live' \in [Commands -> BOOLEAN]
      BY <2>1, <2>2, <3>1, ClaimTypes
    <3> QED BY <1>3, <3>3, <3>4, <3>5 DEF Processed, CommandsTypeOK, StepRecords, journalVars, effectVars
  <2>3. CASE r.kind = "report" /\ Recorded(r.cmd, r.outcome) /\ overdue' = overdue \ {r}
             /\ UNCHANGED <<mine, live, step>>
    BY <1>3, <2>1, <2>3, RequestParts, RecordedTypes DEF Processed, CommandsTypeOK, StepRecords, journalVars, effectVars
  <2> QED BY <1>3, <2>2, <2>3 DEF Processed
<1>4. CASE crash
  <2>1. disk' \in [Commands -> Records]
    <3>1. CASE UNCHANGED disk
      BY <3>1 DEF CommandsTypeOK, StepRecords
    <3>2. CASE /\ step.at \in {"accepting", "recording", "settling"}
               /\ \E t \in Torn(step.cmd, WriteOf(step.at)) : disk' = [disk EXCEPT ![step.cmd] = t]
      <4>1. WriteOf(step.at) \in Records /\ step.cmd \in Commands
        BY <3>2, WritesRecord DEF StepOK
      <4>2. \A t \in Torn(step.cmd, WriteOf(step.at)) : t \in Records
        BY <4>1 DEF Torn, CommandsTypeOK, StepRecords, Records, Outcomes
      <4> QED BY <3>2, <4>2 DEF CommandsTypeOK, StepRecords
    <3> QED BY <1>4, <3>1, <3>2 DEF crash
  <2> QED BY <1>4, <2>1 DEF crash, Stopped, CommandsTypeOK, StepRecords, Idle, Steps, Effects, rowVars
<1>5. CASE stopBlocked
  BY <1>5 DEF stopBlocked, Stopped, CommandsTypeOK, StepRecords, Idle, Steps, Effects, rowVars, journalVars
<1>6. CASE OpenJournal
  <2>1. \A r \in overdue : Inherited(r) \in Requests
    BY InheritedKeeps DEF CommandsTypeOK, StepRecords
  <2>2. overdue' \subseteq Requests
    BY <1>6, <2>1 DEF OpenJournal, Inherited
  <2> QED BY <1>6, <2>2 DEF OpenJournal, Replayed, CommandsTypeOK, StepRecords, Records, Outcomes, effectVars
<1> QED BY <1>1, <1>2, <1>3, <1>4, <1>5, <1>6 DEF CommandsNext

(* A command that has ended in Convex keeps its outcome.                       *)
LEMMA TerminalStays ==
  ASSUME CommandsTypeOK, CommandsNext, NEW d \in Commands, status[d] \in Terminal
  PROVE  status'[d] = status[d]
<1>0. status[d] \notin {"absent", "pending", "running"}
  BY DEF Terminal, Outcomes
<1>1. ASSUME NEW c \in Commands, CommandSteps(c) PROVE status'[d] = status[d]
  <2>1. CASE insertNodeCommand(c) \/ cancel(c)
    BY <1>0, <2>1 DEF insertNodeCommand, cancel, Cancelled, CommandsTypeOK, StepRecords
  <2>2. CASE executeClaims(c)
    BY <1>0, <2>2 DEF executeClaims, claim, claimGranted, StillClaimed, MayClaim, CommandsTypeOK, StepRecords
  <2>3. CASE report(c)
    BY <2>3 DEF report, Recorded, CommandsTypeOK, StepRecords
  <2>4. CASE UNCHANGED status
    BY <2>4
  <2> QED BY <1>1, <2>1, <2>2, <2>3, <2>4
          DEF CommandSteps, AppLeaseLost, LeaseLapses, list, Refused, payload, accept, withClaim, record,
              settle, journalError, requestFails, ReleaseJournalKeys, rowVars
<1>2. ASSUME NEW r \in overdue, Processed(r) PROVE status'[d] = status[d]
  <2>1. r.cmd \in Commands
    BY RequestParts DEF CommandsTypeOK, StepRecords
  <2> QED BY <1>0, <1>2, <2>1
          DEF Processed, claim, claimGranted, StillClaimed, MayClaim, Recorded, CommandsTypeOK, StepRecords
<1>3. CASE sweepJournal \/ crash \/ stopBlocked \/ OpenJournal
  BY <1>3 DEF sweepJournal, crash, stopBlocked, OpenJournal, rowVars
<1> QED BY <1>1, <1>2, <1>3 DEF CommandsNext

(* Every step of the Node agrees with the effects and rows it has seen.        *)
LEMMA NextStepOK ==
  ASSUME CommandsTypeOK, StepOK, CommandsNext
  PROVE  StepOK'
<1> USE NodeCommandsAssumption
<1>1. ASSUME NEW c \in Commands, CommandSteps(c) PROVE StepOK'
  <2>1. CASE UNCHANGED <<step, up, effect>>
    <3>1. step.at = "settling" => status'[step.cmd] \in Terminal
      BY TerminalStays DEF StepOK
    <3> QED BY <2>1, <3>1 DEF StepOK
  <2>2. CASE step' = Idle /\ UNCHANGED up
    BY <2>2 DEF StepOK, Idle
  <2>3. CASE list(c)
    BY <2>3 DEF list, StepOK, Idle, CommandsTypeOK, StepRecords
  <2>4. CASE executeClaims(c)
    BY <2>4 DEF executeClaims, Working, StepOK, Replayed, CommandsTypeOK, StepRecords, Records, Outcomes
  <2>5. CASE payload(c)
    BY <2>5 DEF payload, Working, StepOK, Idle, CommandsTypeOK, StepRecords
  <2>6. CASE accept(c)
    BY <2>6 DEF accept, Working, StepOK, CommandsTypeOK, StepRecords
  <2>12. CASE withClaim(c)
    <3>1. PICK o \in Outcomes :
            step' = [step EXCEPT !.outcome = o,
                       !.at = IF c \in Journaled THEN "recording" ELSE "reporting"]
      BY <2>12 DEF withClaim, Outcomes
    <3>2. /\ step'.at \in {"recording", "reporting"} /\ step'.cmd = c /\ step'.outcome \in Outcomes
          /\ step'.at = "recording" => c \in Journaled
      BY <2>12, <3>1 DEF withClaim, Working, CommandsTypeOK, StepRecords
    <3> QED BY <2>12, <3>2 DEF withClaim, Working, StepOK
  <2>7. CASE record(c)
    BY <2>7 DEF record, Working, StepOK, CommandsTypeOK, StepRecords
  <2>8. CASE report(c) /\ step' # Idle
    <3>1. status'[c] \in Terminal
      BY <2>8 DEF report, Recorded, Working, StepOK, Terminal, CommandsTypeOK, StepRecords
    <3> QED BY <2>8, <3>1 DEF report, Working, StepOK, CommandsTypeOK, StepRecords
  <2> QED BY <1>1, <2>1, <2>2, <2>3, <2>4, <2>5, <2>6, <2>7, <2>8, <2>12
          DEF CommandSteps, insertNodeCommand, cancel, AppLeaseLost, LeaseLapses, Refused, report,
              settle, journalError, requestFails, ReleaseJournalKeys, rowVars, effectVars
<1>2. ASSUME NEW r \in overdue, Processed(r) PROVE StepOK'
  <2>1. step.at = "settling" => status'[step.cmd] \in Terminal
    BY TerminalStays DEF StepOK
  <2>2. \/ step' = step
        \/ step' = [step EXCEPT !.fresh = FALSE] /\ step.cmd \in Commands
    BY <1>2, RequestParts DEF Processed, CommandsTypeOK, StepRecords
  <2> QED BY <1>2, <2>1, <2>2 DEF Processed, StepOK, Idle, CommandsTypeOK, StepRecords, effectVars
<1>3. CASE crash \/ stopBlocked
  BY <1>3 DEF crash, stopBlocked, Stopped, StepOK, Idle
<1>4. CASE sweepJournal
  BY <1>4 DEF sweepJournal, StepOK, rowVars, effectVars
<1>5. CASE OpenJournal
  BY <1>5 DEF OpenJournal, StepOK, effectVars, Idle
<1> QED BY <1>1, <1>2, <1>3, <1>4, <1>5 DEF CommandsNext

-----------------------------------------------------------------------------
(* At most once: an effect that has started stays remembered until the control *)
(* plane has its end.                                                          *)

(* What a write of one command, complete, cut off or undone, does to the       *)
(* records of d: a key that is there stays, unless it is the one to forget.    *)
LEMMA AppendsKeepKeys ==
  ASSUME CommandsTypeOK, NEW c \in Commands, NEW o \in Records, NEW d \in Commands,
         append(c, o) \/ appendFails(c, o), d = c => o # "none"
  PROVE  /\ mem[d] # "none" => mem'[d] # "none"
         /\ mem[d] # "none" /\ disk[d] # "none" => disk'[d] # "none"
<1>1. \A t \in Torn(c, o) : c = d /\ disk[d] # "none" => t # "none"
  BY DEF Torn
<1> QED BY <1>1 DEF append, appendFails, Written, journalVars, CommandsTypeOK, StepRecords

(* Every step keeps a started effect in the journal, in memory and on disk.    *)
LEMMA NextRemembered ==
  ASSUME CommandsInv, CommandsNext, NEW d \in Journaled
  PROVE  Remembered(d)'
<1> USE NodeCommandsAssumption
<1> d \in Commands
  OBVIOUS
<1>0. CommandsTypeOK /\ StepOK /\ Remembered(d)
  BY DEF CommandsInv
<1>a. status[d] \in Terminal => status'[d] \in Terminal
  BY <1>0, TerminalStays
<1>1. ASSUME NEW c \in Commands, CommandSteps(c) PROVE Remembered(d)'
  <2>1. CASE UNCHANGED <<step, up, journalVars, effectVars>>
    BY <1>0, <1>a, <2>1 DEF Remembered, journalVars, effectVars
  <2>2. CASE step' = Idle /\ UNCHANGED <<up, journalVars, effectVars>>
    BY <1>0, <1>a, <2>2 DEF Remembered, journalVars, effectVars, Idle
  <2>3. CASE list(c)
    BY <1>0, <1>a, <2>3 DEF list, Remembered, journalVars, effectVars, Idle
  <2>4. CASE executeClaims(c)
    <3>1. status[c] \notin Terminal
      BY <2>4 DEF executeClaims, claimGranted, StillClaimed, MayClaim, Terminal, Outcomes
    <3>2. c = d /\ step'.at \in {"claimed", "accepting"} => effect[d] = "none"
      BY <1>0, <2>4, <3>1 DEF executeClaims, Working, Remembered
    <3> QED BY <1>0, <1>a, <2>4, <3>2 DEF executeClaims, Remembered, journalVars, effectVars
  <2>5. CASE payload(c)
    BY <1>0, <1>a, <2>5 DEF payload, Working, Remembered, journalVars, effectVars, Idle, CommandsTypeOK, StepRecords
  <2>6. CASE accept(c)
    BY <1>0, <1>a, <2>6 DEF accept, append, Written, Working, Remembered, CommandsTypeOK, StepRecords, StepOK
  <2>7. CASE withClaim(c)
    BY <1>0, <1>a, <2>7 DEF withClaim, Working, Remembered, CommandsTypeOK, StepRecords, StepOK, journalVars
  <2>8. CASE record(c)
    <3>1. step.outcome \in Records /\ step.outcome # "none"
      BY <1>0, <2>8 DEF record, Working, StepOK, Records, Outcomes
    <3>2. append(c, step.outcome)
      BY <2>8 DEF record
    <3>3. /\ mem[d] # "none" => mem'[d] # "none"
          /\ mem[d] # "none" /\ disk[d] # "none" => disk'[d] # "none"
      BY <1>0, <3>1, <3>2, AppendsKeepKeys
    <3> QED BY <1>0, <1>a, <2>8, <3>3 DEF record, Working, Remembered, effectVars, CommandsTypeOK, StepRecords
  <2>9. CASE report(c)
    BY <1>0, <1>a, <2>9 DEF report, Remembered, journalVars, effectVars, Idle, CommandsTypeOK, StepRecords
  <2>10. CASE settle(c)
    <3>1. status[c] \in Terminal
      BY <1>0, <2>10 DEF settle, Working, StepOK
    <3>2. CASE c = d
      BY <1>0, <1>a, <2>10, <3>1, <3>2 DEF settle, Remembered, effectVars, Idle
    <3>3. CASE c # d
      BY <1>0, <1>a, <2>10, <3>3 DEF settle, append, Written, Remembered, journalVars, effectVars, Idle,
                                     CommandsTypeOK, StepRecords
    <3> QED BY <3>2, <3>3
  <2>11. CASE journalError(c)
    <3>1. PICK at \in {"accepting", "recording", "settling"} : Working(at, c) /\ appendFails(c, WriteOf(at))
      BY <2>11 DEF journalError
    <3>2. WriteOf(at) \in Records
      BY <1>0, <3>1, WritesRecord DEF Working
    <3>3. CASE at = "settling" /\ c = d
      BY <1>0, <1>a, <2>11, <3>1, <3>3 DEF journalError, Working, StepOK, Remembered, effectVars, Idle
    <3>4. CASE at # "settling" \/ c # d
      <4>1. d = c => WriteOf(at) # "none"
        BY <1>0, <3>1, <3>4 DEF WriteOf, Working, StepOK, Outcomes
      <4>2. /\ mem[d] # "none" => mem'[d] # "none"
            /\ mem[d] # "none" /\ disk[d] # "none" => disk'[d] # "none"
        BY <1>0, <3>1, <3>2, <4>1, AppendsKeepKeys
      <4> QED BY <1>0, <1>a, <2>11, <3>1, <4>2 DEF journalError, Working, Remembered, effectVars, Idle
    <3> QED BY <3>3, <3>4
  <2>12. CASE ReleaseJournalKeys(c)
    BY <1>0, <1>a, <2>12 DEF ReleaseJournalKeys, Replayed, Remembered, CommandsTypeOK, StepRecords, effectVars, StepOK, Idle
  <2> QED BY <1>1, <2>1, <2>2, <2>3, <2>4, <2>5, <2>6, <2>7, <2>8, <2>9, <2>10, <2>11, <2>12
          DEF CommandSteps, insertNodeCommand, cancel, AppLeaseLost, LeaseLapses, Refused, requestFails
<1>2. CASE sweepJournal
  BY <1>0, <1>a, <1>2 DEF sweepJournal, Settled, Remembered, CommandsTypeOK, StepRecords, effectVars
<1>3. ASSUME NEW r \in overdue, Processed(r) PROVE Remembered(d)'
  BY <1>0, <1>a, <1>3 DEF Processed, Remembered, journalVars, effectVars, CommandsTypeOK, StepRecords
<1>4. CASE crash
  <2>1. status[d] \notin Terminal /\ disk[d] # "none" => disk'[d] # "none"
    <3>1. CASE UNCHANGED disk
      BY <3>1
    <3>2. CASE /\ step.at \in {"accepting", "recording", "settling"}
               /\ \E t \in Torn(step.cmd, WriteOf(step.at)) : disk' = [disk EXCEPT ![step.cmd] = t]
      <4>1. step.cmd = d /\ status[d] \notin Terminal => WriteOf(step.at) # "none"
        BY <1>0, <3>2 DEF WriteOf, StepOK, Outcomes
      <4>2. \A t \in Torn(step.cmd, WriteOf(step.at)) :
              step.cmd = d /\ status[d] \notin Terminal /\ disk[d] # "none" => t # "none"
        BY <4>1 DEF Torn
      <4> QED BY <1>0, <3>2, <4>2 DEF CommandsTypeOK, StepRecords
    <3> QED BY <1>4, <3>1, <3>2 DEF crash
  <2> QED BY <1>0, <1>a, <1>4, <2>1 DEF crash, Stopped, Remembered, CommandsTypeOK, StepRecords, Idle, rowVars
<1>5. CASE stopBlocked
  BY <1>0, <1>a, <1>5 DEF stopBlocked, Stopped, Remembered, CommandsTypeOK, StepRecords, Idle, rowVars, journalVars
<1>6. CASE OpenJournal
  BY <1>0, <1>a, <1>6 DEF OpenJournal, Replayed, Remembered, CommandsTypeOK, StepRecords, StepOK, Idle, effectVars
<1> QED BY <1>1, <1>2, <1>3, <1>4, <1>5, <1>6 DEF CommandsNext

-----------------------------------------------------------------------------
(* Outcomes are true: an effect that is known to have ended one way is not     *)
(* touched again, but for a command that is not journaled and runs once more.  *)

(* What the journal rightly says of an effect stays right.                     *)
LEMMA KnowsStays ==
  ASSUME CommandsInv, CommandsNext, NEW d \in Commands, NEW o, Knows(d, o),
         \/ d \in Journaled
         \/ ~Working("claimed", d)
         \/ status[d] # "running"
  PROVE  Knows(d, o)'
<1> USE NodeCommandsAssumption
<1>0. CommandsTypeOK /\ StepOK /\ (d \in Journaled => Remembered(d))
  BY DEF CommandsInv
<1> SUFFICES ASSUME o \in {"success", "failure"}, effect[d] = o
             PROVE  effect'[d] = o
  BY DEF Knows
<1>1. ASSUME NEW c \in Commands, CommandSteps(c) PROVE effect'[d] = o
  <2>1. CASE payload(c)
    BY <1>0, <2>1 DEF payload, Working, claimed, effectVars, CommandsTypeOK, StepRecords
  <2>2. CASE accept(c)
    <3>1. c \in Journaled /\ Remembered(c)
      BY <1>0, <2>2 DEF accept, Working, StepOK, CommandsInv
    <3> QED BY <1>0, <2>2, <3>1 DEF accept, Working, Remembered, CommandsTypeOK, StepRecords
  <2>3. CASE withClaim(c)
    BY <1>0, <2>3 DEF withClaim, Working, StepOK, CommandsTypeOK, StepRecords
  <2>4. CASE UNCHANGED effect
    BY <2>4
  <2> QED BY <1>1, <2>1, <2>2, <2>3, <2>4
          DEF CommandSteps, insertNodeCommand, cancel, AppLeaseLost, LeaseLapses, list, Refused,
              executeClaims, record, report, settle, journalError, requestFails, ReleaseJournalKeys,
              effectVars
<1>2. CASE crash \/ stopBlocked
  BY <1>0, <1>2 DEF crash, stopBlocked, Stopped, CommandsTypeOK, StepRecords
<1>3. CASE sweepJournal \/ OpenJournal \/ \E r \in overdue : Processed(r)
  BY <1>3 DEF sweepJournal, OpenJournal, Processed, effectVars
<1> QED BY <1>1, <1>2, <1>3 DEF CommandsNext

(* The row.                                                                    *)
LEMMA RowTrue ==
  ASSUME CommandsInv, CommandsNext, NEW d \in Commands
  PROVE  Knows(d, status[d])'
<1> USE NodeCommandsAssumption
<1>0. CommandsTypeOK /\ StepOK /\ Truthful(d) /\ (d \notin Journaled => ReportsStale(d))
  BY DEF CommandsInv
<1>1. CASE status'[d] \notin {"success", "failure"}
  BY <1>1 DEF Knows
<1>2. CASE status'[d] = status[d] /\ status[d] \in {"success", "failure"}
  <2>1. Knows(d, status[d])
    BY <1>0 DEF Truthful
  <2>2. effect'[d] = status[d]
    BY <1>2, <2>1, KnowsStays DEF Knows
  <2> QED BY <1>2, <2>2 DEF Knows
<1>3. CASE status'[d] # status[d] /\ status'[d] \in {"success", "failure"}
  <2>1. ASSUME NEW c \in Commands, CommandSteps(c) PROVE Knows(d, status[d])'
    <3>1. report(c) /\ c = d
      BY <1>0, <1>3, <2>1
         DEF CommandSteps, insertNodeCommand, cancel, Cancelled, AppLeaseLost, LeaseLapses, list, Refused,
             executeClaims, claim, payload, accept, withClaim, record, report, Recorded, settle,
             journalError, requestFails, ReleaseJournalKeys, rowVars, CommandsTypeOK, StepRecords
    <3>2. Knows(d, step.outcome)
      BY <1>0, <3>1 DEF report, Working, Truthful
    <3> QED BY <1>0, <1>3, <3>1, <3>2 DEF report, Recorded, Knows, effectVars, CommandsTypeOK, StepRecords
  <2>2. ASSUME NEW r \in overdue, Processed(r) PROVE Knows(d, status[d])'
    <3>1. r.cmd \in Commands /\ (r.kind = "report" => r.outcome \in Outcomes)
      BY <1>0, RequestParts DEF CommandsTypeOK, StepRecords
    <3>2. r.kind = "report" /\ r.cmd = d /\ status'[d] = r.outcome /\ status[d] \notin Terminal
          /\ reportTaken(d, r.fresh, r.outcome)
      BY <1>0, <1>3, <2>2, <3>1 DEF Processed, claim, Recorded, CommandsTypeOK, StepRecords
    <3>3. r.fresh /\ status[d] = "running" /\ live[d]
      BY <3>1, <3>2 DEF reportTaken, claimed, Terminal
    <3>4. Knows(d, r.outcome)
      BY <1>0, <3>2, <3>3 DEF Truthful, ReportsStale
    <3> QED BY <2>2, <3>2, <3>4 DEF Processed, Knows, effectVars
  <2>3. CASE sweepJournal \/ crash \/ stopBlocked \/ OpenJournal
    BY <1>3, <2>3 DEF sweepJournal, crash, stopBlocked, OpenJournal, rowVars
  <2> QED BY <2>1, <2>2, <2>3 DEF CommandsNext
<1> QED BY <1>1, <1>2, <1>3

(* The process.                                                                *)
LEMMA StepTrue ==
  ASSUME CommandsInv, CommandsNext, NEW d \in Commands,
         step'.cmd = d, step'.at \in {"recording", "reporting"}
  PROVE  Knows(d, step.outcome)'
<1> USE NodeCommandsAssumption
<1>0. CommandsTypeOK /\ StepOK /\ Truthful(d)
  BY DEF CommandsInv
<1>1. ASSUME step.at \in {"recording", "reporting"}, step.cmd = d, step'.outcome = step.outcome
      PROVE  Knows(d, step.outcome)'
  <2>1. Knows(d, step.outcome)
    BY <1>0, <1>1 DEF Truthful
  <2>2. ~Working("claimed", d)
    BY <1>1 DEF Working
  <2>3. step.outcome \in {"success", "failure"} => effect'[d] = step.outcome
    BY <2>1, <2>2, KnowsStays DEF Knows
  <2> QED BY <1>1, <2>3 DEF Knows
<1>2. ASSUME NEW c \in Commands, CommandSteps(c) PROVE Knows(d, step.outcome)'
  <2>1. CASE executeClaims(c)
    BY <1>0, <2>1 DEF executeClaims, Truthful, Knows, Replayed, effectVars
  <2>2. CASE withClaim(c)
    BY <1>0, <2>2 DEF withClaim, Working, Knows, CommandsTypeOK, StepRecords
  <2>3. CASE record(c)
    BY <1>0, <1>1, <2>3 DEF record, Working, CommandsTypeOK, StepRecords
  <2>4. CASE UNCHANGED step
    BY <1>1, <2>4
  <2>5. CASE \/ list(c) \/ Refused(c) \/ payload(c) \/ accept(c) \/ report(c) \/ settle(c) \/ journalError(c)
             \/ requestFails(c)
    <3>1. step'.at \notin {"recording", "reporting"}
      <4>1. CASE \/ list(c) \/ Refused(c) \/ settle(c) \/ journalError(c) \/ requestFails(c)
        <5>1. step' = Idle \/ list(c)
          BY <4>1 DEF Refused, settle, journalError, requestFails
        <5>2. list(c) => step'.at = "listed"
          BY DEF list, Idle
        <5> QED BY <5>1, <5>2 DEF Idle
      <4>2. CASE payload(c) \/ accept(c)
        BY <1>0, <4>2 DEF payload, accept, Idle, CommandsTypeOK, StepRecords
      <4>3. CASE report(c)
        BY <1>0, <4>3 DEF report, Idle, CommandsTypeOK, StepRecords
      <4> QED BY <2>5, <4>1, <4>2, <4>3
    <3> QED BY <3>1
  <2> QED BY <1>2, <2>1, <2>2, <2>3, <2>4, <2>5
          DEF CommandSteps, insertNodeCommand, cancel, AppLeaseLost, LeaseLapses, ReleaseJournalKeys
<1>3. ASSUME NEW r \in overdue, Processed(r) PROVE Knows(d, step.outcome)'
  BY <1>0, <1>1, <1>3 DEF Processed, CommandsTypeOK, StepRecords
<1>4. CASE sweepJournal \/ OpenJournal
  BY <1>1, <1>4 DEF sweepJournal, OpenJournal
<1>5. CASE crash \/ stopBlocked
  BY <1>5 DEF crash, stopBlocked, Stopped, Idle
<1> QED BY <1>2, <1>3, <1>4, <1>5 DEF CommandsNext

(* The journal: a record is an old one of the command, nothing, one that       *)
(* claims to know nothing, or the outcome the process is about to record.      *)
Recordable(d) ==
  {"none", "accepted", "unknown", mem[d], disk[d]}
     \cup (IF step.cmd = d /\ step.at = "recording" THEN {step.outcome} ELSE {})

(* A write, whole or failed, leaves a record of the command's own.             *)
LEMMA WriteRecordable ==
  ASSUME CommandsTypeOK, StepOK, NEW c \in Commands, NEW d \in Commands,
         NEW at \in {"accepting", "recording", "settling"}, step.at = at, step.cmd = c,
         append(c, WriteOf(at)) \/ appendFails(c, WriteOf(at))
  PROVE  mem'[d] \in Recordable(d) /\ disk'[d] \in Recordable(d)
<1>1. c = d => WriteOf(at) \in Recordable(d)
  BY DEF WriteOf, Recordable
<1>2. \A t \in Torn(c, WriteOf(at)) : c = d => t \in Recordable(d)
  BY <1>1 DEF Torn, Recordable
<1>3. mem[d] \in Recordable(d) /\ disk[d] \in Recordable(d)
  BY DEF Recordable
<1> HIDE DEF Recordable
<1> QED BY <1>1, <1>2, <1>3 DEF append, appendFails, Written, journalVars, CommandsTypeOK, StepRecords

(* Every step leaves only records that a command may have.                     *)
LEMMA JournalRecords ==
  ASSUME CommandsInv, CommandsNext, NEW d \in Commands
  PROVE  mem'[d] \in Recordable(d) /\ disk'[d] \in Recordable(d)
<1> USE NodeCommandsAssumption
<1>0. CommandsTypeOK /\ StepOK
  BY DEF CommandsInv
<1>1. ASSUME NEW c \in Commands, CommandSteps(c)
      PROVE  mem'[d] \in Recordable(d) /\ disk'[d] \in Recordable(d)
  <2>1. CASE UNCHANGED <<mem, disk>>
    BY <2>1 DEF Recordable
  <2>2. CASE accept(c)
    <3>1. step.at = "accepting" /\ step.cmd = c /\ append(c, WriteOf("accepting"))
      BY <2>2 DEF accept, Working, WriteOf
    <3> QED BY <1>0, <3>1, WriteRecordable
  <2>3. CASE record(c)
    <3>1. step.at = "recording" /\ step.cmd = c /\ append(c, WriteOf("recording"))
      BY <2>3 DEF record, Working, WriteOf
    <3> QED BY <1>0, <3>1, WriteRecordable
  <2>4. CASE settle(c) /\ ~UNCHANGED <<mem, disk>>
    <3>1. step.at = "settling" /\ step.cmd = c /\ append(c, WriteOf("settling"))
      BY <2>4 DEF settle, Working, WriteOf, journalVars
    <3> QED BY <1>0, <3>1, WriteRecordable
  <2>5. CASE journalError(c)
    BY <1>0, <2>5, WriteRecordable DEF journalError, Working
  <2>6. CASE ReleaseJournalKeys(c)
    BY <1>0, <2>6 DEF ReleaseJournalKeys, Replayed, Recordable
  <2> QED BY <1>1, <2>1, <2>2, <2>3, <2>4, <2>5, <2>6
          DEF CommandSteps, insertNodeCommand, cancel, AppLeaseLost, LeaseLapses, list, Refused,
              executeClaims, payload, withClaim, report, requestFails, journalVars
<1>2. CASE sweepJournal
  BY <1>0, <1>2 DEF sweepJournal, Recordable, CommandsTypeOK, StepRecords
<1>3. CASE crash
  <2>1. CASE UNCHANGED disk
    BY <1>3, <2>1 DEF crash, Recordable
  <2>2. CASE /\ step.at \in {"accepting", "recording", "settling"}
             /\ \E t \in Torn(step.cmd, WriteOf(step.at)) : disk' = [disk EXCEPT ![step.cmd] = t]
    <3>1. step.cmd = d => WriteOf(step.at) \in Recordable(d)
      BY <2>2 DEF WriteOf, Recordable
    <3>2. \A t \in Torn(step.cmd, WriteOf(step.at)) : step.cmd = d => t \in Recordable(d)
      BY <3>1 DEF Torn, Recordable
    <3>3. mem[d] \in Recordable(d) /\ disk[d] \in Recordable(d)
      BY DEF Recordable
    <3> QED BY <1>0, <1>3, <2>2, <3>2, <3>3 DEF crash, CommandsTypeOK, StepRecords
  <2> QED BY <1>3, <2>1, <2>2 DEF crash
<1>4. CASE stopBlocked \/ \E r \in overdue : Processed(r)
  BY <1>4 DEF stopBlocked, Processed, Recordable, journalVars
<1>5. CASE OpenJournal
  BY <1>0, <1>5 DEF OpenJournal, Replayed, Recordable
<1> QED BY <1>1, <1>2, <1>3, <1>4, <1>5 DEF CommandsNext

(* A report on its way was so before, up to its freshness, or is the one the   *)
(* process has just given up on.                                               *)
WasReport(q) ==
  /\ q.kind = "report"
  /\ \E r \in overdue : /\ r.kind = "report" /\ r.cmd = q.cmd /\ r.outcome = q.outcome
                        /\ q.fresh => r.fresh
GivenUp(q) == /\ step.at = "reporting" /\ step.cmd = q.cmd /\ step.outcome = q.outcome
              /\ step' = Idle /\ UNCHANGED <<status, effect>>

(* A report in flight was in flight before or was just given up on.            *)
LEMMA ReportsFrom ==
  ASSUME CommandsInv, CommandsNext, NEW q \in overdue', q.kind = "report"
  PROVE  WasReport(q) \/ GivenUp(q)
<1> USE NodeCommandsAssumption
<1>0. CommandsTypeOK /\ StepOK /\ overdue \subseteq Requests
  BY DEF CommandsInv, CommandsTypeOK, StepRecords
<1>1. CASE q \in overdue
  BY <1>1 DEF WasReport
<1>2. ASSUME NEW c \in Commands, CommandSteps(c), q \notin overdue PROVE WasReport(q) \/ GivenUp(q)
  <2>1. CASE executeClaims(c)
    <3>1. PICK r \in overdue : q = Outdated(c, TRUE, r)
      BY <2>1 DEF executeClaims
    <3>2. /\ r.kind = "report" /\ r.cmd = q.cmd /\ r.outcome = q.outcome
          /\ q.fresh => r.fresh
      <4>1. r \in Requests
        BY <1>0
      <4>2. r.kind = "report"
        BY <3>1, <4>1, OutdatedKeeps, Zenon
      <4> QED BY <3>1, <4>1, <4>2, OutdatedKeeps, Zenon
    <3> QED BY <3>2 DEF WasReport
  <2>2. CASE requestFails(c)
    BY <1>2, <2>2 DEF requestFails, GivenUp, effectVars, rowVars
  <2> QED BY <1>2, <2>1, <2>2
          DEF CommandSteps, insertNodeCommand, cancel, AppLeaseLost, LeaseLapses, list, Refused, payload,
              accept, withClaim, record, report, settle, journalError, ReleaseJournalKeys
<1>3. ASSUME NEW p \in overdue, Processed(p), q \notin overdue PROVE WasReport(q)
  <2>1. p.kind = "claim" /\ overdue' = {Outdated(p.cmd, p.mine, r) : r \in overdue \ {p}}
    BY <1>3 DEF Processed
  <2>2. PICK r \in overdue : q = Outdated(p.cmd, p.mine, r)
    BY <2>1
  <2> QED BY <1>0, <2>1, <2>2, OutdatedKeeps, RequestParts DEF WasReport
<1>4. ASSUME OpenJournal, q \notin overdue PROVE WasReport(q)
  <2>1. PICK r \in overdue : q = Inherited(r)
    BY <1>4 DEF OpenJournal, Inherited
  <2> QED BY <1>0, <2>1, InheritedKeeps DEF WasReport
<1> QED BY <1>1, <1>2, <1>3, <1>4 DEF CommandsNext, sweepJournal, crash, stopBlocked

(* Every step keeps rows, journal and reports true of the effect.              *)
LEMMA NextTruthful ==
  ASSUME CommandsInv, CommandsNext, NEW d \in Commands
  PROVE  Truthful(d)'
<1> USE NodeCommandsAssumption
<1>0. CommandsTypeOK /\ StepOK /\ Truthful(d)
  BY DEF CommandsInv
<1>1. ASSUME d \in Journaled PROVE Knows(d, mem[d])' /\ Knows(d, disk[d])'
  <2>1. \A o \in Recordable(d) : Knows(d, o)
    BY <1>0, <1>1 DEF Recordable, Truthful, Knows
  <2>2. \A o \in Recordable(d) : o \in {"success", "failure"} => effect'[d] = o
    BY <1>1, <2>1, KnowsStays DEF Knows
  <2> QED BY <2>2, JournalRecords DEF Knows
<1>2. ASSUME d \in Journaled, NEW q \in overdue', q.kind = "report", q.cmd = d
      PROVE  Knows(d, q.outcome)'
  <2>1. Knows(d, q.outcome)
    <3>1. CASE WasReport(q)
      <4>1. PICK r \in overdue : r.kind = "report" /\ r.cmd = d /\ r.outcome = q.outcome
        BY <1>2, <3>1 DEF WasReport
      <4>2. Knows(d, r.outcome)
        BY <1>0, <1>2, <4>1 DEF Truthful
      <4> QED BY <4>1, <4>2 DEF Knows
    <3>2. CASE GivenUp(q)
      <4>1. Knows(d, step.outcome) /\ step.outcome = q.outcome
        BY <1>0, <1>2, <3>2 DEF Truthful, GivenUp
      <4> QED BY <4>1 DEF Knows
    <3> QED BY <1>2, <3>1, <3>2, ReportsFrom
  <2> QED BY <1>2, <2>1, KnowsStays DEF Knows
<1> QED BY <1>1, <1>2, RowTrue, StepTrue DEF Truthful

-----------------------------------------------------------------------------
(* A command that is not journaled: every report of an earlier run is stale by *)
(* the time the command runs again.                                            *)
LEMMA NextReportsStale ==
  ASSUME CommandsInv, CommandsNext, NEW d \in Commands \ Journaled
  PROVE  ReportsStale(d)'
<1> USE NodeCommandsAssumption
<1>0. CommandsTypeOK /\ StepOK /\ Truthful(d) /\ ReportsStale(d) /\ overdue \subseteq Requests
  BY DEF CommandsInv, CommandsTypeOK, StepRecords
<1> SUFFICES ASSUME NEW q \in overdue', q.kind = "report", q.cmd = d, q.fresh,
                    status'[d] = "running", live'[d]
             PROVE  /\ Knows(d, q.outcome)'
                    /\ ~(step'.cmd = d /\ step'.at \in {"listed", "claimed", "executing"})
  BY DEF ReportsStale
(* A new claim of d would have made q stale, so the row was claimed before.     *)
<1>1. status[d] = "running" /\ live[d]
  <2>1. ASSUME NEW c \in Commands, CommandSteps(c) PROVE status[d] = "running" /\ live[d]
    <3>1. CASE executeClaims(c)
      <4>1. PICK r \in overdue : q = Outdated(c, TRUE, r)
        BY <3>1 DEF executeClaims
      <4>2. c = d => StillClaimed(d, TRUE)
        <5>1. r \in Requests
          BY <1>0
        <5>2. r.kind = "report" /\ r.cmd = d
          BY <4>1, <5>1, OutdatedKeeps, Zenon
        <5> QED BY <4>1, <5>1, <5>2, OutdatedKeeps, Zenon
      <4>3. CASE c = d
        BY <4>2, <4>3 DEF StillClaimed
      <4>4. CASE c # d
        <5>1. status'[d] = status[d] /\ live'[d] = live[d]
          <6>1. CASE StillClaimed(c, TRUE)
            BY <3>1, <6>1 DEF executeClaims, claim
          <6>2. CASE ~StillClaimed(c, TRUE)
            BY <1>0, <3>1, <4>4, <6>2 DEF executeClaims, claim, CommandsTypeOK
          <6> QED BY <6>1, <6>2
        <5> QED BY <5>1
      <4> QED BY <4>3, <4>4
    <3>2. CASE insertNodeCommand(c) \/ cancel(c)
      BY <1>0, <3>2 DEF insertNodeCommand, cancel, Cancelled, CommandsTypeOK
    <3>3. CASE LeaseLapses(c)
      <4>1. live' = [live EXCEPT ![c] = FALSE] /\ status' = status
        BY <3>3 DEF LeaseLapses
      <4>2. c # d
        BY <1>0, <4>1 DEF CommandsTypeOK
      <4>3. live'[d] = live[d]
        BY <1>0, <4>1, <4>2 DEF CommandsTypeOK
      <4> QED BY <4>1, <4>3
    <3>4. CASE report(c)
      <4>1. step.outcome \in Outcomes
        BY <1>0, <3>4 DEF report, Working, StepOK
      <4> QED BY <1>0, <3>4, <4>1 DEF report, Recorded, CommandsTypeOK, Outcomes
    <3>5. CASE UNCHANGED <<status, live>>
      BY <3>5
    <3> QED BY <2>1, <3>1, <3>2, <3>3, <3>4, <3>5
            DEF CommandSteps, AppLeaseLost, list, Refused, payload, accept, withClaim, record, settle,
                journalError, requestFails, ReleaseJournalKeys, rowVars
  <2>2. ASSUME NEW p \in overdue, Processed(p) PROVE status[d] = "running" /\ live[d]
    <3>0. p.cmd \in Commands /\ (p.kind = "claim" => p.mine \in BOOLEAN)
          /\ (p.kind = "report" => p.outcome \in Outcomes)
      BY <1>0, RequestParts
    <3>1. CASE p.kind = "claim"
      <4>0. overdue' = {Outdated(p.cmd, p.mine, r) : r \in overdue \ {p}} /\ claim(p.cmd, p.mine)
        BY <2>2, <3>1 DEF Processed
      <4>1. PICK r \in overdue : q = Outdated(p.cmd, p.mine, r)
        BY <4>0
      <4>2. p.cmd = d => StillClaimed(d, p.mine)
        BY <1>0, <3>0, <3>1, <4>1, OutdatedKeeps
      <4> QED BY <1>0, <3>0, <4>0, <4>2 DEF claim, StillClaimed, CommandsTypeOK, StepRecords
    <3>2. CASE p.kind # "claim"
      BY <1>0, <2>2, <3>0, <3>2 DEF Processed, Recorded, CommandsTypeOK, StepRecords, Outcomes
    <3> QED BY <3>1, <3>2
  <2>3. CASE sweepJournal \/ crash \/ stopBlocked \/ OpenJournal
    BY <2>3 DEF sweepJournal, crash, stopBlocked, OpenJournal, rowVars
  <2> QED BY <2>1, <2>2, <2>3 DEF CommandsNext
<1>2. CASE GivenUp(q)
  BY <1>0, <1>2 DEF GivenUp, Truthful, Knows, Idle
<1>3. CASE WasReport(q)
  <2>1. PICK r \in overdue : r.kind = "report" /\ r.cmd = d /\ r.outcome = q.outcome /\ r.fresh
    BY <1>3 DEF WasReport
  <2>2. Knows(d, q.outcome) /\ ~(step.cmd = d /\ step.at \in {"listed", "claimed", "executing"})
    <3>1. Knows(d, r.outcome) /\ ~(step.cmd = d /\ step.at \in {"listed", "claimed", "executing"})
      BY <1>0, <1>1, <2>1 DEF ReportsStale
    <3> QED BY <2>1, <3>1 DEF Knows
  <2>3. Knows(d, q.outcome)'
    BY <2>2, KnowsStays DEF Knows, Working
  <2>4. ~(step'.cmd = d /\ step'.at \in {"listed", "claimed", "executing"})
    <3>1. ASSUME NEW c \in Commands, CommandSteps(c)
          PROVE  ~(step'.cmd = d /\ step'.at \in {"listed", "claimed", "executing"})
      <4>1. CASE list(c)
        BY <1>0, <1>1, <4>1 DEF list, Listed, Idle
      <4>2. CASE executeClaims(c)
        BY <2>2, <4>2 DEF executeClaims, Working
      <4>3. CASE payload(c) \/ accept(c)
        <5>1. c # d
          BY <2>2, <4>3, <1>0 DEF payload, accept, Working, StepOK
        <5>2. step'.cmd \in {c, "none"}
          BY <1>0, <4>3 DEF payload, accept, Working, Idle, CommandsTypeOK, StepRecords
        <5> QED BY <5>1, <5>2
      <4>4. CASE \/ Refused(c) \/ settle(c) \/ journalError(c) \/ requestFails(c)
        <5>1. step' = Idle
          BY <4>4 DEF Refused, settle, journalError, requestFails
        <5> QED BY <5>1 DEF Idle
      <4>5. CASE withClaim(c) \/ record(c) \/ report(c)
        <5>1. step'.at \in {"recording", "reporting", "settling", "idle"}
          <6>1. CASE withClaim(c)
            <7>1. PICK o : step' = [step EXCEPT !.outcome = o,
                                      !.at = IF c \in Journaled THEN "recording" ELSE "reporting"]
              BY <6>1 DEF withClaim
            <7> QED BY <1>0, <7>1 DEF CommandsTypeOK, StepRecords
          <6>2. CASE record(c) \/ report(c)
            BY <1>0, <6>2 DEF record, report, Idle, CommandsTypeOK, StepRecords
          <6> QED BY <4>5, <6>1, <6>2
        <5> QED BY <5>1
      <4> QED BY <2>2, <3>1, <4>1, <4>2, <4>3, <4>4, <4>5
              DEF CommandSteps, insertNodeCommand, cancel, AppLeaseLost, LeaseLapses, ReleaseJournalKeys
    <3>2. CASE \E p \in overdue : Processed(p)
      BY <1>0, <2>2, <3>2 DEF Processed, CommandsTypeOK, StepRecords
    <3>3. CASE sweepJournal \/ crash \/ stopBlocked \/ OpenJournal
      BY <2>2, <3>3 DEF sweepJournal, crash, stopBlocked, OpenJournal, Stopped, Idle
    <3> QED BY <3>1, <3>2, <3>3 DEF CommandsNext
  <2> QED BY <2>3, <2>4
<1> QED BY <1>2, <1>3, ReportsFrom

(* The invariant is inductive.                                                 *)
LEMMA NextInv == CommandsInv /\ [CommandsNext]_commandVars => CommandsInv'
<1> SUFFICES ASSUME CommandsInv, [CommandsNext]_commandVars PROVE CommandsInv'
  OBVIOUS
<1>1. CASE CommandsNext
  <2>1. CommandsTypeOK' /\ StepOK'
    BY <1>1, NextTypeOK, NextStepOK DEF CommandsInv
  <2>2. \A c \in Journaled : Remembered(c)'
    BY <1>1, NextRemembered
  <2>3. \A c \in Commands : Truthful(c)'
    BY <1>1, NextTruthful
  <2>4. \A c \in Commands \ Journaled : ReportsStale(c)'
    BY <1>1, NextReportsStale
  <2> QED BY <2>1, <2>2, <2>3, <2>4 DEF CommandsInv
<1>2. CASE UNCHANGED commandVars
  BY <1>2 DEF commandVars, rowVars, journalVars, effectVars, CommandsInv, CommandsTypeOK, StepRecords, StepOK,
              Remembered, Truthful, Knows, ReportsStale
<1> QED BY <1>1, <1>2

(* The invariant always holds.                                                 *)
LEMMA CommandsInvariant == CommandsSpec => []CommandsInv
BY InitInv, NextInv, PTL DEF CommandsSpec

(* A journaled effect is never started twice, whatever number of claims lapse, *)
(* processes crash and journal writes are torn.                                *)
THEOREM EffectAtMostOnce == CommandsSpec => []AtMostOnce
<1>1. CommandsInv => AtMostOnce
  BY NodeCommandsAssumption DEF CommandsInv, Remembered, AtMostOnce
<1> QED BY <1>1, CommandsInvariant, PTL

(* What the control plane records is what happened on the Node.                *)
THEOREM ReportsAreTrue == CommandsSpec => []ReportsTrue
<1>1. CommandsInv => ReportsTrue
  BY DEF CommandsInv, Truthful, Knows, ReportsTrue
<1> QED BY <1>1, CommandsInvariant, PTL

-----------------------------------------------------------------------------
(* The journal can be opened again.                                            *)

(* The keys of a journal are finitely many.                                    *)
LEMMA KeysFinite ==
  ASSUME IsFiniteSet(Commands), NEW f
  PROVE  IsFiniteSet(Keys(f)) /\ Cardinality(Keys(f)) \in Nat
BY FS_Subset, FS_CardinalityType DEF Keys

(* A journal with fewer keys is no larger.                                     *)
LEMMA FewerKeys ==
  ASSUME IsFiniteSet(Commands), NEW f, NEW g, Keys(f) \subseteq Keys(g)
  PROVE  Cardinality(Keys(f)) <= Cardinality(Keys(g))
BY KeysFinite, FS_Subset

(* An append adds one key at most.                                             *)
LEMMA OneMoreKey ==
  ASSUME IsFiniteSet(Commands), NEW f, NEW g, NEW c, Keys(f) \subseteq Keys(g) \cup {c}
  PROVE  Cardinality(Keys(f)) <= Cardinality(Keys(g)) + 1
<1>1. IsFiniteSet(Keys(g)) /\ Cardinality(Keys(g)) \in Nat /\ Cardinality(Keys(f)) \in Nat
  BY KeysFinite
<1>2. IsFiniteSet(Keys(g) \cup {c})
      /\ Cardinality(Keys(g) \cup {c}) \in {Cardinality(Keys(g)), Cardinality(Keys(g)) + 1}
  BY <1>1, FS_AddElement
<1>3. Cardinality(Keys(f)) <= Cardinality(Keys(g) \cup {c})
  BY <1>2, FS_Subset
<1> QED BY <1>1, <1>2, <1>3

(* A write of c that is cut off adds at most the key of c.                     *)
LEMMA TornFits ==
  ASSUME IsFiniteSet(Commands), CommandsTypeOK, StepOK, JournalFits, up, ~broken,
         step.at \in {"accepting", "recording", "settling"},
         step.at = "settling" => settleable(step.cmd),
         NEW t, disk' = [disk EXCEPT ![step.cmd] = t]
  PROVE  Cardinality(Keys(disk')) <= MaxKeys
<1> USE NodeCommandsAssumption
<1>0. step.cmd \in Journaled /\ step.cmd \in Commands
  BY DEF StepOK
<1>1. Keys(disk') \subseteq Keys(mem) \cup {step.cmd}
  BY <1>0 DEF JournalFits, Keys, CommandsTypeOK, StepRecords
<1>2. Cardinality(Keys(mem)) \in Nat /\ Cardinality(Keys(disk')) \in Nat
  BY KeysFinite
<1>3. CASE step.at = "accepting"
  <2>1. Cardinality(Keys(mem)) < MaxKeys
    BY <1>0, <1>3 DEF JournalFits
  <2>2. Cardinality(Keys(disk')) <= Cardinality(Keys(mem)) + 1
    BY <1>1, OneMoreKey, Zenon
  <2> QED BY <1>2, <2>1, <2>2
<1>4. CASE step.at # "accepting"
  <2>1. Keys(disk') \subseteq Keys(mem)
    <3>1. step.cmd \in Keys(mem)
      BY <1>0, <1>4 DEF JournalFits, Keys, settleable
    <3> QED BY <1>1, <3>1
  <2>2. Cardinality(Keys(disk')) <= Cardinality(Keys(mem))
    BY <2>1, FewerKeys, Zenon
  <2>3. Cardinality(Keys(mem)) <= MaxKeys
    BY DEF JournalFits
  <2> QED BY <1>2, <2>2, <2>3
<1> QED BY <1>3, <1>4

(* A write that succeeds, or whose tidying up fails, keeps memory and file     *)
(* alike.                                                                      *)
LEMMA WrittenFits ==
  ASSUME IsFiniteSet(Commands), CommandsTypeOK, StepOK, JournalFits, up, ~broken,
         step.at \in {"accepting", "recording", "settling"},
         Written(step.cmd, WriteOf(step.at))
  PROVE  /\ Keys(disk') = Keys(mem')
         /\ Cardinality(Keys(mem')) <= MaxKeys
         /\ step.at # "settling" => mem'[step.cmd] # "none"
<1> USE NodeCommandsAssumption
<1>0. step.cmd \in Journaled /\ step.cmd \in Commands
  BY DEF StepOK
<1>1. Keys(disk') = Keys(mem')
  BY <1>0 DEF Written, JournalFits, Keys, CommandsTypeOK, StepRecords
<1>2. Cardinality(Keys(mem)) \in Nat /\ Cardinality(Keys(mem')) \in Nat
  BY KeysFinite
<1>3. CASE step.at = "accepting"
  <2>1. Keys(mem') \subseteq Keys(mem) \cup {step.cmd}
    BY <1>0 DEF Written, Keys, CommandsTypeOK, StepRecords
  <2>2. Cardinality(Keys(mem)) < MaxKeys
    BY <1>0, <1>3 DEF JournalFits
  <2>3. Cardinality(Keys(mem')) <= Cardinality(Keys(mem)) + 1
    BY <2>1, OneMoreKey, Zenon
  <2>4. mem'[step.cmd] = "accepted"
    BY <1>0, <1>3 DEF Written, WriteOf, CommandsTypeOK
  <2> QED BY <1>1, <1>2, <2>2, <2>3, <2>4
<1>4. CASE step.at = "recording"
  <2>1. Keys(mem') \subseteq Keys(mem)
    BY <1>0, <1>4 DEF Written, Keys, CommandsTypeOK, StepRecords, JournalFits
  <2>2. step.outcome # "none"
    BY <1>4 DEF StepOK, Outcomes
  <2>3. Cardinality(Keys(mem')) <= Cardinality(Keys(mem))
    BY <2>1, FewerKeys, Zenon
  <2>4. mem'[step.cmd] = step.outcome
    BY <1>0, <1>4 DEF Written, WriteOf, CommandsTypeOK
  <2>5. Cardinality(Keys(mem)) <= MaxKeys
    BY DEF JournalFits
  <2> QED BY <1>1, <1>2, <2>2, <2>3, <2>4, <2>5
<1>5. CASE step.at = "settling"
  <2>1. Keys(mem') \subseteq Keys(mem)
    BY <1>0, <1>5 DEF Written, WriteOf, Keys, CommandsTypeOK, StepRecords
  <2> QED BY <1>1, <1>2, <1>5, <2>1, FewerKeys DEF JournalFits
<1> QED BY <1>3, <1>4, <1>5

(* Every step keeps the journal within its limit on keys.                      *)
LEMMA NextJournalFits ==
  ASSUME IsFiniteSet(Commands), "sweep" \notin Failures, CommandsInv, JournalFits, CommandsNext
  PROVE  JournalFits'
<1> USE NodeCommandsAssumption
<1>0. CommandsTypeOK /\ StepOK
  BY DEF CommandsInv
<1>a. \A f : Cardinality(Keys(f)) \in Nat
  BY KeysFinite
<1>1. ASSUME NEW c \in Commands, CommandSteps(c) PROVE JournalFits'
  <2>1. CASE UNCHANGED <<step, up, journalVars>>
    BY <2>1 DEF JournalFits, Keys, journalVars
  <2>2. CASE UNCHANGED <<up, journalVars>> /\ step'.at \notin {"claimed", "accepting", "executing", "recording"}
    BY <2>2 DEF JournalFits, Keys, journalVars
  <2>3. CASE executeClaims(c)
    <3>1. c \in Journaled /\ mem[c] = "none" => Cardinality(Keys(mem)) < MaxKeys
      BY <1>a, <2>3 DEF executeClaims, NoRoom, Full
    <3> QED BY <2>3, <3>1 DEF executeClaims, Working, JournalFits, Keys, journalVars
  <2>4. CASE payload(c)
    BY <1>0, <2>4 DEF payload, Working, JournalFits, Keys, journalVars, Idle, CommandsTypeOK, StepRecords
  <2>5. CASE accept(c)
    <3>1. up /\ ~broken /\ step.at = "accepting" /\ step.cmd = c /\ Written(step.cmd, WriteOf(step.at))
      BY <2>5 DEF accept, Working, append, WriteOf
    <3> QED BY <1>0, <2>5, <3>1, WrittenFits DEF accept, JournalFits, CommandsTypeOK, StepRecords, append
  <2>6. CASE withClaim(c)
    BY <1>0, <2>6 DEF withClaim, Working, JournalFits, Keys, journalVars, CommandsTypeOK, StepRecords
  <2>7. CASE record(c)
    <3>1. up /\ ~broken /\ step.at = "recording" /\ step.cmd = c /\ Written(step.cmd, WriteOf(step.at))
      BY <2>7 DEF record, Working, append, WriteOf
    <3> QED BY <1>0, <2>7, <3>1, WrittenFits DEF record, JournalFits, CommandsTypeOK, StepRecords, append
  <2>8. CASE settle(c) /\ ~UNCHANGED journalVars
    <3>1. up /\ ~broken /\ step.at = "settling" /\ step.cmd = c /\ Written(step.cmd, WriteOf(step.at))
      BY <2>8 DEF settle, Working, append, WriteOf
    <3> QED BY <1>0, <2>8, <3>1, WrittenFits DEF settle, JournalFits, append, Idle
  <2>9. CASE journalError(c)
    <3>1. /\ up /\ step.at \in {"accepting", "recording", "settling"} /\ step.cmd = c
          /\ step.at = "settling" => settleable(c)
          /\ appendFails(c, WriteOf(step.at))
      BY <2>9 DEF journalError, Working
    <3>2. step' = Idle /\ up' = up
      BY <2>9 DEF journalError
    <3>3. CASE UNCHANGED journalVars
      BY <3>2, <3>3 DEF JournalFits, Keys, journalVars, Idle
    <3>4. CASE disk' = mem /\ UNCHANGED <<mem, broken>>
      BY <3>1, <3>2, <3>4 DEF JournalFits, Keys, Idle
    <3>5. CASE ~broken /\ Written(c, WriteOf(step.at)) /\ UNCHANGED broken
      BY <1>0, <3>1, <3>2, <3>5, WrittenFits DEF JournalFits, Idle
    <3>6. CASE /\ ~broken /\ broken' = TRUE /\ UNCHANGED mem
               /\ \E t \in Torn(c, WriteOf(step.at)) : disk' = [disk EXCEPT ![c] = t]
      <4>1. Cardinality(Keys(disk')) <= MaxKeys
        BY <1>0, <3>1, <3>6, TornFits
      <4> QED BY <3>1, <3>2, <3>6, <4>1 DEF JournalFits, Keys, Idle
    <3> QED BY <3>1, <3>3, <3>4, <3>5, <3>6 DEF appendFails
  <2>10. CASE ReleaseJournalKeys(c)
    <3>1. Keys(disk') \subseteq Keys(disk)
      BY <1>0, <2>10 DEF ReleaseJournalKeys, Replayed, Keys, CommandsTypeOK, StepRecords
    <3>2. Cardinality(Keys(disk')) <= Cardinality(Keys(disk))
      BY <3>1, FewerKeys
    <3> QED BY <1>a, <2>10, <3>2 DEF ReleaseJournalKeys, JournalFits
  <2>11. CASE list(c) \/ report(c)
    <3>1. step'.at \in {"listed", "settling", "idle"}
      <4>1. CASE list(c)
        BY <4>1 DEF list, Idle
      <4>2. CASE report(c)
        BY <1>0, <4>2 DEF report, Idle, CommandsTypeOK, StepRecords
      <4> QED BY <2>11, <4>1, <4>2
    <3>2. UNCHANGED <<up, journalVars>>
      BY <2>11 DEF list, report
    <3> QED BY <2>2, <3>1, <3>2
  <2>12. CASE Refused(c) \/ requestFails(c) \/ (settle(c) /\ UNCHANGED journalVars)
    <3>1. step' = Idle /\ UNCHANGED <<up, journalVars>>
      BY <2>12 DEF Refused, requestFails, settle
    <3> QED BY <2>2, <3>1 DEF Idle
  <2> QED BY <1>1, <2>1, <2>3, <2>4, <2>5, <2>6, <2>7, <2>8, <2>9, <2>10, <2>11, <2>12
          DEF CommandSteps, insertNodeCommand, cancel, AppLeaseLost, LeaseLapses
<1>2. CASE sweepJournal
  <2>1. disk' = mem' /\ Keys(mem') \subseteq Keys(mem)
    BY <1>0, <1>2 DEF sweepJournal, Fault, Keys, CommandsTypeOK, StepRecords
  <2>2. Cardinality(Keys(mem')) <= Cardinality(Keys(mem))
    BY <2>1, FewerKeys
  <2> QED BY <1>a, <1>2, <2>1, <2>2 DEF sweepJournal, JournalFits
<1>3. CASE \E r \in overdue : Processed(r)
  BY <1>0, <1>3 DEF Processed, JournalFits, Keys, journalVars, CommandsTypeOK, StepRecords
<1>4. CASE crash
  <2>1. Cardinality(Keys(disk')) <= MaxKeys
    <3>1. CASE UNCHANGED disk
      BY <3>1 DEF JournalFits, Keys
    <3>2. CASE ~UNCHANGED disk
      BY <1>0, <1>4, <3>2, TornFits DEF crash
    <3> QED BY <3>1, <3>2
  <2> QED BY <1>4, <2>1 DEF crash, Stopped, JournalFits
<1>5. CASE stopBlocked
  BY <1>5 DEF stopBlocked, Stopped, JournalFits, Keys, journalVars
<1>6. CASE OpenJournal
  <2>1. Keys(mem') = Keys(disk) /\ disk' = disk
    BY <1>0, <1>6 DEF OpenJournal, Replayed, Keys, CommandsTypeOK, StepRecords
  <2> QED BY <1>0, <1>6, <2>1 DEF OpenJournal, JournalFits, StepOK, Idle
<1> QED BY <1>1, <1>2, <1>3, <1>4, <1>5, <1>6 DEF CommandsNext

(* The journal carries the truth from one process to the next, and there is    *)
(* always a next one: for every journal size, as long as no sweep fails to     *)
(* rewrite the file (the README describes that case).                          *)
THEOREM JournalIsSound ==
  ASSUME IsFiniteSet(Commands), "sweep" \notin Failures
  PROVE  CommandsSpec => []JournalSound
<1>1. CommandsInit => JournalFits
  <2> SUFFICES ASSUME CommandsInit PROVE JournalFits
    OBVIOUS
  <2>1. Keys(mem) = {} /\ Keys(disk) = {}
    BY DEF CommandsInit, Keys
  <2>2. Cardinality(Keys(mem)) = 0 /\ Cardinality(Keys(disk)) = 0
    BY <2>1, FS_EmptySet
  <2>3. step.at = "idle"
    BY DEF CommandsInit, Idle
  <2> QED BY <2>1, <2>2, <2>3, NodeCommandsAssumption DEF JournalFits
<1>2. CommandsInv /\ JournalFits /\ [CommandsNext]_commandVars => JournalFits'
  <2>1. CASE UNCHANGED commandVars
    BY <2>1 DEF commandVars, journalVars, JournalFits, Keys
  <2> QED BY <2>1, NextJournalFits
<1>3. CommandsInv /\ JournalFits => JournalSound
  BY DEF CommandsInv, Truthful, Knows, ReportsTrue, JournalFits, JournalSound, Reopens, Opens
<1> QED BY <1>1, <1>2, <1>3, CommandsInvariant, PTL DEF CommandsSpec

-----------------------------------------------------------------------------
(* NodeCommands implements CommandContract: every step begins or ends one      *)
(* effect, settles one command, or changes neither.                            *)

(* Settling one row is the contract's Settle, or nothing the contract sees.    *)
LEMMA SettlesOne ==
  ASSUME CommandsTypeOK, NEW c \in Commands, NEW o \in Terminal, status[c] \notin Terminal,
         o \in {"success", "failure"} => effect[c] = o,
         status' = [status EXCEPT ![c] = o], effect' = effect
  PROVE  Contract!ContractNext \/ UNCHANGED Contract!contractVars
<1>1. CASE c \in Journaled
  <2>1. Contract!Settle(c)
    BY <1>1, NodeCommandsAssumption
       DEF Contract!Settle, Contract!Ends, CommandsTypeOK, StepRecords, Terminal, Outcomes
  <2> QED BY <1>1, <2>1 DEF Contract!ContractNext
<1>2. CASE c \notin Journaled
  BY <1>2, NodeCommandsAssumption DEF Contract!contractVars, CommandsTypeOK, StepRecords
<1> QED BY <1>1, <1>2

(* A step that starts no effect and ends no command stutters the contract.     *)
LEMMA Stutters ==
  ASSUME CommandsTypeOK, \A c \in Journaled : effect'[c] = effect[c],
         \A c \in Journaled : \/ status'[c] = status[c]
                              \/ status'[c] \notin Terminal /\ status[c] \notin Terminal
  PROVE  UNCHANGED Contract!contractVars
BY DEF Contract!contractVars

(* Every step is a step of the contract or a stutter.                          *)
LEMMA StepImplements ==
  ASSUME CommandsInv, CommandsNext
  PROVE  Contract!ContractNext \/ UNCHANGED Contract!contractVars
<1> USE NodeCommandsAssumption
<1>0. CommandsTypeOK /\ StepOK
  BY DEF CommandsInv
<1>1. ASSUME NEW c \in Commands, CommandSteps(c)
      PROVE  Contract!ContractNext \/ UNCHANGED Contract!contractVars
  <2>1. CASE UNCHANGED <<status, effect>>
    BY <1>0, <2>1, Stutters
  <2>2. CASE insertNodeCommand(c) \/ executeClaims(c)
    <3>1. \A d \in Journaled : \/ status'[d] = status[d]
                               \/ status'[d] \notin Terminal /\ status[d] \notin Terminal
      BY <1>0, <2>2 DEF insertNodeCommand, executeClaims, claim, claimGranted, StillClaimed, MayClaim,
                        CommandsTypeOK, StepRecords, Terminal, Outcomes
    <3>2. effect' = effect
      BY <2>2 DEF insertNodeCommand, executeClaims, effectVars
    <3> QED BY <1>0, <3>1, <3>2, Stutters
  <2>3. CASE cancel(c)
    <3>1. status[c] \notin Terminal /\ "cancelled" \in Terminal
      BY <2>3 DEF cancel, Cancelled, Terminal, Outcomes
    <3>2. status' = [status EXCEPT ![c] = "cancelled"] /\ effect' = effect
      BY <2>3 DEF cancel, Cancelled, effectVars
    <3> QED BY <1>0, <3>1, <3>2, SettlesOne
  <2>4. CASE report(c)
    <3>1. step.outcome \in Terminal /\ effect' = effect
          /\ (step.outcome \in {"success", "failure"} => effect[c] = step.outcome)
      BY <1>0, <2>4 DEF report, Working, StepOK, Terminal, effectVars, CommandsInv, Truthful, Knows
    <3>2. \/ status' = status
          \/ status[c] \notin Terminal /\ status' = [status EXCEPT ![c] = step.outcome]
      BY <2>4 DEF report, Recorded
    <3> QED BY <1>0, <2>1, <3>1, <3>2, SettlesOne
  <2>5. CASE payload(c)
    <3>1. \A d \in Journaled : effect'[d] = effect[d]
      BY <1>0, <2>5 DEF payload, effectVars, CommandsTypeOK, StepRecords
    <3> QED BY <1>0, <2>5, <3>1, Stutters DEF payload, rowVars
  <2>6. CASE accept(c)
    <3>1. c \in Journaled /\ effect[c] = "none"
      BY <1>0, <2>6 DEF accept, Working, StepOK, CommandsInv, Remembered
    <3>2. effect' = [effect EXCEPT ![c] = "started"] /\ status' = status
      BY <2>6 DEF accept, rowVars
    <3>3. Contract!Begin(c)
      BY <1>0, <3>1, <3>2 DEF Contract!Begin, CommandsTypeOK, StepRecords
    <3> QED BY <3>1, <3>3 DEF Contract!ContractNext
  <2>7. CASE withClaim(c)
    <3>1. effect[c] = "started" /\ status' = status
      BY <1>0, <2>7 DEF withClaim, Working, StepOK, rowVars
    <3>2. PICK e \in {"success", "failure", "partial"} : effect' = [effect EXCEPT ![c] = e]
      BY <2>7 DEF withClaim
    <3>3. CASE c \in Journaled
      <4>1. Contract!End(c)
        BY <1>0, <3>1, <3>2, <3>3 DEF Contract!End, CommandsTypeOK, StepRecords
      <4> QED BY <3>3, <4>1 DEF Contract!ContractNext
    <3>4. CASE c \notin Journaled
      BY <1>0, <3>1, <3>2, <3>4, Stutters DEF CommandsTypeOK, StepRecords
    <3> QED BY <3>3, <3>4
  <2> QED BY <1>1, <2>1, <2>2, <2>3, <2>4, <2>5, <2>6, <2>7
          DEF CommandSteps, AppLeaseLost, LeaseLapses, list, Refused, record, settle, journalError,
              requestFails, ReleaseJournalKeys, rowVars, effectVars
<1>2. CASE sweepJournal \/ OpenJournal
  BY <1>0, <1>2, Stutters DEF sweepJournal, OpenJournal, rowVars, effectVars
<1>3. ASSUME NEW r \in overdue, Processed(r)
      PROVE  Contract!ContractNext \/ UNCHANGED Contract!contractVars
  <2>0. r.cmd \in Commands /\ (r.kind = "report" => r.outcome \in Outcomes)
    BY <1>0, RequestParts DEF CommandsTypeOK, StepRecords
  <2>1. effect' = effect
    BY <1>3 DEF Processed, effectVars
  <2>2. CASE r.kind = "claim"
    <3>1. \A d \in Journaled : \/ status'[d] = status[d]
                               \/ status'[d] \notin Terminal /\ status[d] \notin Terminal
      BY <1>0, <1>3, <2>0, <2>2 DEF Processed, claim, claimGranted, StillClaimed, MayClaim, CommandsTypeOK, StepRecords,
                                    Terminal, Outcomes
    <3> QED BY <1>0, <2>1, <3>1, Stutters
  <2>3. CASE r.kind # "claim" /\ status' # status
    <3>1. /\ r.kind = "report" /\ status[r.cmd] \notin Terminal
          /\ status' = [status EXCEPT ![r.cmd] = r.outcome]
      BY <1>3, <2>3 DEF Processed, Recorded
    <3>2. status'[r.cmd] = r.outcome
      BY <1>0, <2>0, <3>1 DEF CommandsTypeOK, StepRecords
    <3>3. r.outcome \in {"success", "failure"} => effect[r.cmd] = r.outcome
      BY <2>0, <2>1, <3>2, RowTrue DEF Knows
    <3> QED BY <1>0, <2>0, <2>1, <3>1, <3>3, SettlesOne DEF Terminal
  <2>4. CASE status' = status
    BY <1>0, <2>1, <2>4, Stutters
  <2> QED BY <2>2, <2>3, <2>4
<1>4. CASE crash \/ stopBlocked
  <2>1. /\ status' = status
        /\ effect' = [c \in Commands |-> IF effect[c] = "started" /\ step.cmd = c THEN "partial" ELSE effect[c]]
    BY <1>4 DEF crash, stopBlocked, Stopped, rowVars
  <2>2. CASE step.cmd \in Journaled /\ effect[step.cmd] = "started"
    <3>0. PICK c \in Journaled : c = step.cmd
      BY <2>2
    <3>1. effect' = [effect EXCEPT ![c] = "partial"] /\ effect[c] = "started"
      BY <1>0, <2>1, <2>2, <3>0 DEF CommandsTypeOK
    <3>2. Contract!End(c)
      BY <1>0, <2>1, <3>1 DEF Contract!End, CommandsTypeOK, StepRecords
    <3> QED BY <3>2 DEF Contract!ContractNext
  <2>3. CASE ~(step.cmd \in Journaled /\ effect[step.cmd] = "started")
    BY <1>0, <2>1, <2>3, Stutters DEF CommandsTypeOK, StepRecords
  <2> QED BY <2>2, <2>3
<1> QED BY <1>1, <1>2, <1>3, <1>4 DEF CommandsNext

(* Claims, journal, requests and crashes together keep the promise the control *)
(* plane relies on: a command ends once, its effect begins at most once, and a *)
(* known outcome is the effect's own.                                          *)
THEOREM CommandsImplementContract == CommandsSpec => ImplementsContract
<1>1. CommandsInit => Contract!ContractInit
  BY NodeCommandsAssumption DEF CommandsInit, Contract!ContractInit, Terminal, Outcomes
<1>2. CommandsInv /\ [CommandsNext]_commandVars => [Contract!ContractNext]_(Contract!contractVars)
  <2>1. CASE UNCHANGED commandVars
    BY <2>1 DEF commandVars, rowVars, effectVars, Contract!contractVars
  <2> QED BY <2>1, StepImplements
<1> QED BY <1>1, <1>2, CommandsInvariant, PTL DEF CommandsSpec, ImplementsContract, Contract!ContractSpec

-----------------------------------------------------------------------------
(* DeployPipeline, for any number of runs, Nodes and outages. The inductive    *)
(* invariant.                                                                  *)

StepStatuses == {"absent", "pending", "running", "success", "failure", "unknown", "cancelled"}
RunRows ==
  [stage : {"none", "queued", "done", "failed"} \cup Active, op : {"deploy", "failover"}, epoch : Nat,
   to : Nodes \cup {"none"}, lost : Nodes \cup {"none"}]
AppLeases == [holder : Nat, epoch : Nat, live : BOOLEAN]
Hands ==
  [kind : {"none", "retire"} \cup Active, run : 0..MaxRuns,
   ran : {"no", "started", "success", "failure", "unknown"}]

DeployTypeOK ==
  /\ made \in 0..MaxRuns
  /\ run \in [Runs -> RunRows]
  /\ job \in [Runs -> StepStatuses]
  /\ retire \in [Runs -> StepStatuses]
  /\ appLease \in AppLeases
  /\ app \in [node : Nodes, by : 0..MaxRuns]
  /\ box \in [Nodes -> SUBSET (0..MaxRuns)]
  /\ hand \in [Nodes -> Hands]

(* Epochs are given out in the order the runs were created; the lease has the  *)
(* last of them, and the run that committed has given it up.                   *)
EpochsOrdered ==
  /\ \A r \in Runs : run[r].epoch <= appLease.epoch
  /\ \A q, r \in Runs : run[q].epoch > 0 /\ run[r].epoch > 0 /\ q < r => run[q].epoch < run[r].epoch
  /\ \A q, r \in Runs : run[q].epoch > 0 /\ run[r].stage = "queued" => q < r
  /\ app.by # Base => run[app.by].epoch > 0
  /\ CommitEpoch <= appLease.epoch
  /\ appLease.holder # 0 => CommitEpoch < appLease.epoch

RunCoherent(r) ==
  /\ r > made => run[r].stage = "none"
  /\ run[r].stage = "none" => run[r].lost = "none"
  /\ run[r].stage \in {"none", "queued"} =>
       run[r].epoch = 0 /\ job[r] = "absent" /\ retire[r] = "absent"
  /\ run[r].stage \in Active => run[r].epoch > 0 /\ run[r].to \in Nodes
  /\ leaseAdmits(r) => run[r].stage \in Active
  /\ run[r].op = "failover" =>
       /\ run[r].to \in Nodes
       /\ run[r].stage \in Active => run[r].stage = "deploying" /\ run[r].to # run[r].lost

(* What a Node has in hand is a command of a run that is, or was, sent there.  *)
HandCoherent(n) ==
  LET h == hand[n] IN
  /\ h.kind # "none" => h.run \in Runs
  /\ h.kind \in Active =>
       /\ run[h.run].to = n /\ run[h.run].epoch > 0
       /\ job[h.run] = "running" /\ leaseAdmits(h.run) => run[h.run].stage = h.kind
  /\ h.kind = "retire" => run[h.run].lost = n
  /\ h.kind = "deploying" /\ h.ran = "success" => box[n] = {h.run}
  /\ h.kind = "none" => h.ran = "no"

(* Where no claimed command is dropped before it is accepted, a claimed        *)
(* removal is in its Node's hand.                                              *)
NoDrops == "drop" \notin Hitches
RemovalInHand(q) ==
  NoDrops /\ retire[q] = "running" =>
    /\ run[q].lost \in Nodes
    /\ hand[run[q].lost].kind = "retire" /\ hand[run[q].lost].run = q

(* A run past its plan has called off what waited to remove its container, and *)
(* one whose deploy step succeeded finds it as it left it, with its Node idle. *)
PlanHeld(r) ==
  NoDrops /\ leaseAdmits(r) /\ run[r].stage \in {"building", "deploying"} =>
    /\ \A q \in Runs : run[q].lost = run[r].to => retire[q] # "pending"
    /\ run[r].stage = "deploying" /\ job[r] = "success" =>
         box[run[r].to] = {r} /\ hand[run[r].to].kind = "none"

(* And so it stays after the commit, until a later run turns to that Node.     *)
CommitHeld ==
  NoDrops /\ ~Reworked(app.node) =>
    /\ box[app.node] = {app.by} /\ hand[app.node].kind = "none"
    /\ \A q \in Runs : run[q].lost = app.node => retire[q] \notin Open

DeployInv ==
  /\ DeployTypeOK /\ EpochsOrdered /\ CommitHeld
  /\ \A r \in Runs : RunCoherent(r) /\ RemovalInHand(r) /\ PlanHeld(r)
  /\ \A n \in Nodes : HandCoherent(n)

-----------------------------------------------------------------------------
(* A run that is at work: r under the lease l, its row about to become f. It   *)
(* is the last one to have begun, and no earlier one is queued.                *)
AtWork(r, f, l) ==
  /\ r \in 1..made /\ f \in RunRows /\ l \in AppLeases
  /\ l.holder # 0 /\ l.live /\ f.epoch = l.epoch
  /\ l.epoch > CommitEpoch /\ l.epoch >= appLease.epoch
  /\ f.op = run[r].op /\ f.lost = run[r].lost
  /\ f.op = "failover" => f.to \in Nodes
  /\ run[r].epoch > 0 => f.to = run[r].to
  /\ app.by # r
  /\ \A q \in Runs \ {r} : /\ run[q].epoch < l.epoch
                           /\ run[q].epoch > 0 => q < r
                           /\ run[q].stage = "queued" => r < q

LEMMA DeployInitInv == DeployInit => DeployInv
<1> SUFFICES ASSUME DeployInit PROVE DeployInv
  OBVIOUS
<1> USE PipelineAssumption DEF DeployInit, Runs, Base, Nothing, NewRun
<1>1. /\ \A r \in Runs : run[r] = NewRun /\ job[r] = "absent" /\ retire[r] = "absent"
      /\ \A n \in Nodes : hand[n] = Nothing
      /\ app.node = Home /\ app.by = 0 /\ appLease.epoch = 0 /\ appLease.holder = 0
  OBVIOUS
<1>2. NewRun \in RunRows /\ Nothing \in Hands
  BY DEF RunRows, Hands
<1>3. \A n \in Nodes : (IF n = Home THEN {Base} ELSE {}) \in SUBSET (0..MaxRuns)
  OBVIOUS
<1>4. DeployTypeOK
  BY <1>1, <1>2, <1>3 DEF DeployTypeOK, StepStatuses, AppLeases
<1>5. CommitEpoch = 0 /\ ~Reworked(app.node)
  BY <1>1 DEF CommitEpoch, Reworked
<1>6. EpochsOrdered
  BY <1>1, <1>5 DEF EpochsOrdered
<1>7. CommitHeld
  BY <1>1 DEF CommitHeld, Open
<1>8. \A r \in Runs : RunCoherent(r) /\ RemovalInHand(r) /\ PlanHeld(r)
  BY <1>1 DEF RunCoherent, RemovalInHand, PlanHeld, Active, leaseAdmits
<1>9. \A n \in Nodes : HandCoherent(n)
  BY <1>1 DEF HandCoherent, Active
<1> QED
  BY <1>4, <1>6, <1>7, <1>8, <1>9 DEF DeployInv

-----------------------------------------------------------------------------
(* What becomes of the other parts when a run's row is rewritten.              *)
LEMMA RowRewritten ==
  ASSUME DeployInv, NEW r, NEW f, NEW l, AtWork(r, f, l), NEW s \in Active \cup {"done", "failed"},
         run' = [run EXCEPT ![r] = [f EXCEPT !.stage = s]], UNCHANGED app
  PROVE  /\ r \in Runs /\ run' \in [Runs -> RunRows]
         /\ run'[r].stage = s /\ run'[r].op = run[r].op /\ run'[r].epoch = l.epoch
         /\ run'[r].to = f.to /\ run'[r].lost = run[r].lost
         /\ \A q \in Runs \ {r} : run'[q] = run[q]
         /\ CommitEpoch' = CommitEpoch
         /\ \A n \in Nodes : Reworked(n) => Reworked(n)'
         /\ l.epoch > 0 /\ l.epoch \in Nat
<1>1. /\ r \in Runs /\ run \in [Runs -> RunRows] /\ f \in RunRows /\ f.epoch = l.epoch
      /\ f.op = run[r].op /\ f.lost = run[r].lost /\ app.by # r /\ l.epoch > CommitEpoch
      /\ l.epoch \in Nat /\ app.by \in 0..MaxRuns /\ MaxRuns \in Nat
      /\ run[r].epoch > 0 => f.to = run[r].to
  BY PipelineAssumption DEF DeployInv, DeployTypeOK, AtWork, Runs, AppLeases
<1>2. PICK row : row = [f EXCEPT !.stage = s]
  OBVIOUS
<1>3. /\ row \in RunRows /\ row.stage = s /\ row.op = f.op /\ row.epoch = f.epoch
      /\ row.to = f.to /\ row.lost = f.lost
  BY <1>1, <1>2 DEF RunRows, Active
<1>4. run' = [run EXCEPT ![r] = row]
  BY <1>2
<1>5. run'[r] = row /\ run' \in [Runs -> RunRows] /\ \A q \in Runs \ {r} : run'[q] = run[q]
  BY <1>1, <1>3, <1>4
<1>6. CommitEpoch' = CommitEpoch
  BY <1>1, <1>5 DEF CommitEpoch, Base, Runs
<1>7. CommitEpoch \in Nat
  BY <1>1 DEF CommitEpoch, Base, RunRows, Runs
<1>8. ASSUME NEW n \in Nodes, Reworked(n)
      PROVE  Reworked(n)'
  <2>1. PICK q \in Runs : run[q].to = n /\ run[q].epoch > CommitEpoch
    BY <1>8 DEF Reworked
  <2>2. run[q].epoch > 0
    BY <1>1, <1>7, <2>1 DEF RunRows
  <2>3. run'[q].to = n /\ run'[q].epoch > CommitEpoch'
    BY <1>1, <1>3, <1>5, <1>6, <2>1, <2>2
  <2> QED
    BY <2>3 DEF Reworked
<1> QED
  BY <1>1, <1>3, <1>5, <1>6, <1>7, <1>8

(* The epochs stay ordered, whether the run goes on or gives its lease up.     *)
LEMMA EpochsStay ==
  ASSUME DeployInv, NEW r, NEW f, NEW l, AtWork(r, f, l), NEW s \in Active \cup {"done", "failed"},
         run' = [run EXCEPT ![r] = [f EXCEPT !.stage = s]], UNCHANGED app,
         appLease'.epoch = l.epoch
  PROVE  EpochsOrdered'
<1>1. /\ r \in Runs /\ run' \in [Runs -> RunRows]
      /\ run'[r].stage = s /\ run'[r].op = run[r].op /\ run'[r].epoch = l.epoch
      /\ run'[r].to = f.to /\ run'[r].lost = run[r].lost
      /\ \A q \in Runs \ {r} : run'[q] = run[q]
      /\ CommitEpoch' = CommitEpoch
      /\ \A n \in Nodes : Reworked(n) => Reworked(n)'
      /\ l.epoch > 0 /\ l.epoch \in Nat
  BY RowRewritten
<1>2. /\ EpochsOrdered /\ \A q \in Runs : run[q].epoch \in Nat
      /\ l.epoch \in Nat /\ l.epoch > CommitEpoch /\ Runs \subseteq Nat /\ CommitEpoch \in Nat
  BY PipelineAssumption DEF DeployInv, AtWork, DeployTypeOK, RunRows, AppLeases, Runs, CommitEpoch, Base
<1>3. \A q \in Runs \ {r} : /\ run[q].epoch < l.epoch
                            /\ run[q].epoch > 0 => q < r
                            /\ run[q].stage = "queued" => r < q
  BY DEF AtWork
<1>4. \A q \in Runs : run'[q].epoch <= appLease'.epoch
  BY <1>1, <1>2, <1>3
<1>5. \A q, p \in Runs : run'[q].epoch > 0 /\ run'[p].epoch > 0 /\ q < p => run'[q].epoch < run'[p].epoch
  BY <1>1, <1>2, <1>3 DEF EpochsOrdered
<1>6. \A q, p \in Runs : run'[q].epoch > 0 /\ run'[p].stage = "queued" => q < p
  <2> SUFFICES ASSUME NEW q \in Runs, NEW p \in Runs, run'[q].epoch > 0, run'[p].stage = "queued"
               PROVE  q < p
    OBVIOUS
  <2>1. p # r
    BY <1>1 DEF Active
  <2> QED
    BY <1>1, <1>2, <1>3, <2>1 DEF EpochsOrdered
<1>7. app'.by # Base => run'[app'.by].epoch > 0
  <2>1. app'.by = app.by /\ app.by # r /\ (app.by # Base => app.by \in Runs)
    BY PipelineAssumption DEF AtWork, DeployInv, DeployTypeOK, Runs, Base
  <2> QED
    BY <1>1, <1>2, <2>1 DEF EpochsOrdered
<1> QED
  BY <1>1, <1>2, <1>4, <1>5, <1>6, <1>7 DEF EpochsOrdered

(* Nobody but the run at work is admitted.                                     *)
LEMMA OnlyAtWork ==
  ASSUME DeployInv, NEW r, NEW f, NEW l, AtWork(r, f, l), NEW s \in Active \cup {"done", "failed"},
         run' = [run EXCEPT ![r] = [f EXCEPT !.stage = s]], UNCHANGED app,
         appLease'.epoch = l.epoch
  PROVE  \A q \in Runs : leaseAdmits(q)' => q = r
<1>1. \A q \in Runs \ {r} : run'[q] = run[q] /\ run[q].epoch < l.epoch
  BY RowRewritten DEF AtWork
<1>2. \A q \in Runs : run[q].epoch \in Nat /\ l.epoch \in Nat
  BY DEF DeployInv, DeployTypeOK, RunRows, AtWork, AppLeases
<1> QED
  BY <1>1, <1>2 DEF leaseAdmits

(* A run that ends gives its lease up, and nobody is admitted any more.        *)
LEMMA FinishKeeps ==
  ASSUME DeployInv, NEW r, NEW f, NEW l, AtWork(r, f, l), NEW s \in {"done", "failed"},
         finish(r, f, l, s), UNCHANGED <<retire, app, made, box, hand>>
  PROVE  DeployInv'
<1>0. run' = [run EXCEPT ![r] = [f EXCEPT !.stage = s]]
  BY DEF finish
<1>1. /\ r \in Runs /\ run' \in [Runs -> RunRows]
      /\ run'[r].stage = s /\ run'[r].op = run[r].op /\ run'[r].epoch = l.epoch
      /\ run'[r].to = f.to /\ run'[r].lost = run[r].lost
      /\ \A q \in Runs \ {r} : run'[q] = run[q]
      /\ CommitEpoch' = CommitEpoch
      /\ \A n \in Nodes : Reworked(n) => Reworked(n)'
      /\ l.epoch > 0 /\ l.epoch \in Nat
  BY <1>0, RowRewritten
<1>2. appLease' \in AppLeases /\ appLease'.epoch = l.epoch /\ appLease'.holder = 0
  <2>1. l \in AppLeases /\ appLease' = [l EXCEPT !.holder = 0]
    BY DEF finish, releaseAppLease, AtWork
  <2> QED
    BY <2>1 DEF AppLeases
<1>3. \A q \in Runs : ~leaseAdmits(q)'
  BY <1>2 DEF leaseAdmits
<1>4. /\ job' \in [Runs -> StepStatuses]
      /\ \A q \in Runs : job'[q] = IF q = r /\ job[q] \in Open THEN "cancelled" ELSE job[q]
  <2>1. job \in [Runs -> StepStatuses] /\ job' = [job EXCEPT ![r] = IF @ \in Open THEN "cancelled" ELSE @]
    BY DEF finish, cleanUp, DeployInv, DeployTypeOK
  <2>2. (IF job[r] \in Open THEN "cancelled" ELSE job[r]) \in StepStatuses
    BY <1>1, <2>1 DEF StepStatuses
  <2> QED
    BY <1>1, <2>1, <2>2
<1>5. DeployTypeOK'
  BY <1>1, <1>2, <1>4 DEF DeployInv, DeployTypeOK
<1>6. EpochsOrdered'
  BY <1>0, <1>2, EpochsStay
<1>7. CommitHeld'
  <2>1. CommitHeld /\ app.node \in Nodes /\ app' = app /\ box' = box /\ hand' = hand /\ retire' = retire
    BY DEF DeployInv, DeployTypeOK
  <2>2. \A q \in Runs : run'[q].lost = run[q].lost
    BY <1>1
  <2> QED
    BY <1>1, <2>1, <2>2 DEF CommitHeld
<1>8. ASSUME NEW q \in Runs
      PROVE  RunCoherent(q)' /\ RemovalInHand(q)' /\ PlanHeld(q)'
  <2>1. RunCoherent(q) /\ RemovalInHand(q) /\ made' = made /\ retire' = retire /\ hand' = hand
    BY DEF DeployInv
  <2>2. CASE q = r
    <3>1. r <= made /\ made \in Nat /\ r \in Nat /\ (f.op = "failover" => f.to \in Nodes) /\ f.op = run[r].op
      BY PipelineAssumption DEF AtWork, DeployInv, DeployTypeOK
    <3> QED
      BY <1>1, <1>3, <2>1, <2>2, <3>1 DEF RunCoherent, RemovalInHand, PlanHeld, Active
  <2>3. CASE q # r
    BY <1>1, <1>3, <1>4, <2>1, <2>3 DEF RunCoherent, RemovalInHand, PlanHeld
  <2> QED
    BY <2>2, <2>3
<1>9. ASSUME NEW n \in Nodes
      PROVE  HandCoherent(n)'
  <2>1. HandCoherent(n) /\ hand' = hand /\ box' = box
    BY DEF DeployInv
  <2>2. run[r].epoch > 0 => f.to = run[r].to
    BY DEF AtWork
  <2> QED
    BY <1>1, <1>3, <2>1, <2>2 DEF HandCoherent, Active
<1> QED
  BY <1>5, <1>6, <1>7, <1>8, <1>9 DEF DeployInv


(* A run that goes on to a step has the lease, and waits for that step.        *)
LEMMA StepKeeps ==
  ASSUME DeployInv, NEW r, NEW f, NEW l, AtWork(r, f, l), NEW s \in Active,
         runStep(r, f, l, s), UNCHANGED <<made, box, hand>>,
         f.to \in Nodes, f.op = "failover" => s = "deploying" /\ f.to # f.lost,
         UNCHANGED retire \/ cancelRetirements(f.to),
         s # "reading-spec" => \/ cancelRetirements(f.to)
                               \/ NoDrops => \A q \in Runs : run[q].lost = f.to => retire[q] # "pending"
  PROVE  DeployInv'
<1>0. run' = [run EXCEPT ![r] = [f EXCEPT !.stage = s]] /\ UNCHANGED app /\ appLease' = l
  BY DEF runStep
<1>1. /\ r \in Runs /\ run' \in [Runs -> RunRows]
      /\ run'[r].stage = s /\ run'[r].op = run[r].op /\ run'[r].epoch = l.epoch
      /\ run'[r].to = f.to /\ run'[r].lost = run[r].lost
      /\ \A q \in Runs \ {r} : run'[q] = run[q]
      /\ CommitEpoch' = CommitEpoch
      /\ \A n \in Nodes : Reworked(n) => Reworked(n)'
      /\ l.epoch > 0 /\ l.epoch \in Nat
  BY <1>0, RowRewritten
<1>2. l \in AppLeases
  BY DEF AtWork
<1>3. \A q \in Runs : leaseAdmits(q)' => q = r
  BY <1>0, OnlyAtWork
<1>4. job' \in [Runs -> StepStatuses] /\ job'[r] = "pending" /\ \A q \in Runs \ {r} : job'[q] = job[q]
  <2>1. job \in [Runs -> StepStatuses] /\ job' = [job EXCEPT ![r] = "pending"]
    BY DEF runStep, DeployInv, DeployTypeOK
  <2> QED
    BY <1>1, <2>1 DEF StepStatuses
<1>5. /\ retire' \in [Runs -> StepStatuses]
      /\ \A q \in Runs : /\ retire'[q] = retire[q] \/ (retire[q] = "pending" /\ retire'[q] = "cancelled")
                         /\ NoDrops /\ s # "reading-spec" /\ run[q].lost = f.to => retire'[q] # "pending"
  <2>1. retire \in [Runs -> StepStatuses]
    BY DEF DeployInv, DeployTypeOK
  <2>2. CASE cancelRetirements(f.to)
    BY <2>1, <2>2 DEF cancelRetirements, StepStatuses
  <2>3. CASE UNCHANGED retire
    BY <2>1, <2>2, <2>3
  <2> QED
    BY <2>2, <2>3
<1>6. DeployTypeOK'
  BY <1>0, <1>1, <1>2, <1>4, <1>5 DEF DeployInv, DeployTypeOK
<1>7. EpochsOrdered'
  BY <1>0, EpochsStay
<1>8. CommitHeld'
  <2>1. CommitHeld /\ app.node \in Nodes /\ app' = app /\ box' = box /\ hand' = hand
    BY <1>0 DEF DeployInv, DeployTypeOK
  <2>2. \A q \in Runs : run'[q].lost = run[q].lost /\ (retire'[q] \in Open => retire[q] \in Open)
    BY <1>1, <1>5 DEF Open
  <2> QED
    BY <1>1, <2>1, <2>2 DEF CommitHeld
<1>9. ASSUME NEW q \in Runs
      PROVE  RunCoherent(q)' /\ RemovalInHand(q)' /\ PlanHeld(q)'
  <2>1. RunCoherent(q) /\ RemovalInHand(q) /\ made' = made /\ hand' = hand
    BY DEF DeployInv
  <2>2. r <= made /\ made \in Nat /\ r \in Nat /\ f.op = run[r].op /\ f.lost = run[r].lost
    BY PipelineAssumption DEF AtWork, DeployInv, DeployTypeOK
  <2>3. RunCoherent(q)'
    <3>1. CASE q = r
      BY <1>1, <2>1, <2>2, <3>1 DEF RunCoherent, Active
    <3>2. CASE q # r
      BY <1>1, <1>3, <1>4, <1>5, <2>1, <3>2 DEF RunCoherent
    <3> QED
      BY <3>1, <3>2
  <2>4. RemovalInHand(q)'
    BY <1>1, <1>5, <2>1 DEF RemovalInHand
  <2>5. PlanHeld(q)'
    <3>1. \A p \in Runs : run'[p].lost = run[p].lost
      BY <1>1
    <3> QED
      BY <1>1, <1>3, <1>4, <1>5, <3>1 DEF PlanHeld
  <2> QED
    BY <2>3, <2>4, <2>5
<1>10. ASSUME NEW n \in Nodes
       PROVE  HandCoherent(n)'
  <2>1. HandCoherent(n) /\ hand' = hand /\ box' = box
    BY DEF DeployInv
  <2>2. run[r].epoch > 0 => f.to = run[r].to
    BY DEF AtWork
  <2> QED
    BY <1>1, <1>3, <1>4, <2>1, <2>2 DEF HandCoherent, Active
<1> QED
  BY <1>6, <1>7, <1>8, <1>9, <1>10 DEF DeployInv

(* A started run that is admitted is at work under the lease as it stands.     *)
LEMMA TickAtWork ==
  ASSUME DeployInv, NEW r \in Runs, run[r].stage \in Active, leaseAdmits(r)
  PROVE  AtWork(r, run[r], appLease) /\ run[r].to \in Nodes
<1>1. /\ EpochsOrdered /\ RunCoherent(r) /\ run[r] \in RunRows /\ appLease \in AppLeases
      /\ made \in Nat /\ r \in Nat /\ Runs \subseteq Nat
      /\ \A q \in Runs : run[q].epoch \in Nat
  BY PipelineAssumption DEF DeployInv, DeployTypeOK, RunRows, Runs
<1>2. run[r].epoch > 0 /\ run[r].to \in Nodes /\ r <= made /\ 1 <= r
  BY <1>1 DEF RunCoherent, Active, Runs
<1>3. appLease.holder # 0 /\ appLease.live /\ run[r].epoch = appLease.epoch /\ appLease.epoch \in Nat
  BY <1>1, <1>2 DEF leaseAdmits
<1>4. \A q \in Runs \ {r} : /\ run[q].epoch < appLease.epoch
                            /\ run[q].epoch > 0 => q < r
                            /\ run[q].stage = "queued" => r < q
  <2> SUFFICES ASSUME NEW q \in Runs, q # r
               PROVE  /\ run[q].epoch < appLease.epoch
                      /\ run[q].epoch > 0 => q < r
                      /\ run[q].stage = "queued" => r < q
    OBVIOUS
  <2>1. q \in Nat /\ run[q].epoch \in Nat /\ run[q].epoch <= run[r].epoch
    BY <1>1, <1>3 DEF EpochsOrdered
  <2>2. q < r /\ run[q].epoch > 0 => run[q].epoch < run[r].epoch
    BY <1>1, <1>2 DEF EpochsOrdered
  <2>3. r < q /\ run[q].epoch > 0 => run[r].epoch < run[q].epoch
    BY <1>1, <1>2 DEF EpochsOrdered
  <2>4. run[q].stage = "queued" => r < q
    BY <1>1, <1>2 DEF EpochsOrdered
  <2> QED
    BY <1>1, <1>2, <1>3, <2>1, <2>2, <2>3, <2>4
<1>5. appLease.epoch > CommitEpoch /\ CommitEpoch \in Nat
  BY <1>1, <1>3, PipelineAssumption DEF EpochsOrdered, CommitEpoch, Base, DeployInv, DeployTypeOK, Runs
<1>6. app.by # r
  BY <1>2, <1>3, <1>5, PipelineAssumption DEF CommitEpoch, Base, Runs
<1> QED
  BY <1>1, <1>2, <1>3, <1>4, <1>5, <1>6 DEF AtWork

(* A run that begins takes the next epoch; nobody else was admitted.           *)
LEMMA BeginAtWork ==
  ASSUME DeployInv, NEW r \in Runs, run[r].stage = "queued", ~Earlier(r),
         NEW l, l = acquireAppLease(r), NEW f \in RunRows, f.epoch = l.epoch,
         f.op = run[r].op, f.lost = run[r].lost, f.op = "failover" => f.to \in Nodes
  PROVE  AtWork(r, f, l)
<1>1. /\ EpochsOrdered /\ RunCoherent(r) /\ run[r] \in RunRows /\ appLease \in AppLeases
      /\ made \in Nat /\ r \in Nat /\ r # 0 /\ Runs \subseteq Nat
      /\ \A q \in Runs : run[q].epoch \in Nat
  BY PipelineAssumption DEF DeployInv, DeployTypeOK, RunRows, Runs
<1>2. r <= made /\ 1 <= r /\ run[r].epoch = 0
  BY <1>1 DEF RunCoherent, Runs
<1>3. l \in AppLeases /\ l.epoch = appLease.epoch + 1 /\ l.holder # 0 /\ l.live /\ l.epoch \in Nat
      /\ appLease.epoch \in Nat
  BY <1>1 DEF acquireAppLease, AppLeases
<1>4. \A q \in Runs \ {r} : /\ run[q].epoch < l.epoch
                            /\ run[q].epoch > 0 => q < r
                            /\ run[q].stage = "queued" => r < q
  <2>1. \A q \in Runs : run[q].stage = "queued" => ~(q \in 1..(r - 1))
    BY DEF Earlier
  <2> QED
    BY <1>1, <1>3, <2>1 DEF EpochsOrdered, Runs
<1>5. l.epoch > CommitEpoch /\ app.by # r
  BY <1>1, <1>2, <1>3, PipelineAssumption DEF EpochsOrdered, CommitEpoch, Base, DeployInv, DeployTypeOK, Runs
<1>6. r \in 1..made /\ l.epoch >= appLease.epoch /\ ~(run[r].epoch > 0)
  BY <1>1, <1>2, <1>3
<1> QED
  BY <1>3, <1>4, <1>5, <1>6 DEF AtWork

(* planStage, for a run that begins as a failover or has read its spec.        *)
LEMMA PlacedKeeps ==
  ASSUME DeployInv, NEW r, NEW f, NEW l, AtWork(r, f, l), NEW stages \in SUBSET {"building", "deploying"},
         Placed(r, f, l, stages), UNCHANGED <<made, box, hand>>,
         f.to \in Nodes, f.op = "failover" => stages = {"deploying"} /\ f.to # f.lost
  PROVE  DeployInv'
<1>1. CASE Fail(r, f, l)
  BY <1>1, FinishKeeps DEF Fail
<1>2. CASE cancelRetirements(f.to) /\ \E stage \in stages : runStep(r, f, l, stage)
  <2>1. PICK stage \in stages : runStep(r, f, l, stage)
    BY <1>2
  <2>2. stage \in Active /\ (f.op = "failover" => stage = "deploying")
    BY DEF Active
  <2> QED
    BY <1>2, <2>1, <2>2, StepKeeps
<1> QED
  BY <1>1, <1>2 DEF Placed

LEMMA DeployPlanKeeps ==
  ASSUME DeployInv, NEW r, NEW f, NEW l, AtWork(r, f, l), f.op = "deploy", f.to \in Nodes,
         planStage(r, f, l), UNCHANGED <<made, box, hand>>
  PROVE  DeployInv'
<1>1. Placed(r, f, l, {"building", "deploying"})
  BY DEF planStage
<1> QED
  BY <1>1, PlacedKeeps

(* A removal is queued where the App was; the new container is elsewhere.      *)
LEMMA CommitKeeps ==
  ASSUME DeployInv, NEW r \in Runs, run[r].stage = "deploying", leaseAdmits(r), stepSucceeded(r),
         commit(r), UNCHANGED <<made, box, hand>>
  PROVE  DeployInv' /\ app'.by >= app.by
<1>1. AtWork(r, run[r], appLease) /\ run[r].to \in Nodes /\ RunCoherent(r) /\ PlanHeld(r)
  BY TickAtWork DEF Active, DeployInv
<1>2. /\ run \in [Runs -> RunRows] /\ app \in [node : Nodes, by : 0..MaxRuns]
      /\ retire \in [Runs -> StepStatuses] /\ job \in [Runs -> StepStatuses]
      /\ appLease \in AppLeases /\ EpochsOrdered /\ MaxRuns \in Nat /\ Runs \subseteq Nat
      /\ \A q \in Runs : run[q].epoch \in Nat
  BY PipelineAssumption DEF DeployInv, DeployTypeOK, RunRows, Runs
<1>3. run[r].epoch > 0 /\ run[r].epoch = appLease.epoch /\ appLease.epoch \in Nat
  BY <1>1, <1>2 DEF RunCoherent, leaseAdmits, Active
<1>4. app'.node = run[r].to /\ app'.by = r /\ app' \in [node : Nodes, by : 0..MaxRuns]
  BY <1>1, <1>2 DEF commit, Runs
<1>5. /\ run' \in [Runs -> RunRows] /\ run'[r].stage = "done" /\ \A q \in Runs \ {r} : run'[q] = run[q]
      /\ run'[r].op = run[r].op /\ run'[r].epoch = run[r].epoch
      /\ run'[r].to = run[r].to /\ run'[r].lost = run[r].lost
  <2>1. PICK row : row = [run[r] EXCEPT !.stage = "done"]
    OBVIOUS
  <2>2. /\ row \in RunRows /\ row.stage = "done" /\ row.op = run[r].op /\ row.epoch = run[r].epoch
        /\ row.to = run[r].to /\ row.lost = run[r].lost
    BY <1>2, <2>1 DEF RunRows
  <2>3. run' = [run EXCEPT ![r] = row]
    BY <2>1 DEF commit, finish
  <2> QED
    BY <1>2, <2>2, <2>3
<1>6. appLease' \in AppLeases /\ appLease'.epoch = appLease.epoch /\ appLease'.holder = 0
  <2>1. appLease' = [appLease EXCEPT !.holder = 0]
    BY <1>3 DEF commit, finish, releaseAppLease
  <2> QED
    BY <1>2, <2>1 DEF AppLeases
<1>7. /\ job' \in [Runs -> StepStatuses] /\ job'[r] = "success" /\ \A q \in Runs : job'[q] = job[q]
  <2>1. job[r] = "success" /\ job' = [job EXCEPT ![r] = IF @ \in Open THEN "cancelled" ELSE @]
    BY DEF commit, finish, cleanUp, stepSucceeded
  <2>2. job' = [job EXCEPT ![r] = "success"]
    BY <1>2, <2>1 DEF Open
  <2> QED
    BY <1>2, <2>1, <2>2 DEF StepStatuses
<1>8. /\ retire' \in [Runs -> StepStatuses]
      /\ \A q \in Runs \ {r} : retire'[q] = retire[q]
      /\ retire'[r] = retire[r] \/ (retire'[r] = "pending" /\ run[r].op = "failover")
  BY <1>2 DEF commit, StepStatuses
<1>9. CommitEpoch' = appLease.epoch
  BY <1>3, <1>4, <1>5 DEF CommitEpoch, Base, Runs
<1>10. app.by <= r
  <2>1. CommitEpoch < appLease.epoch
    BY <1>2 DEF EpochsOrdered, leaseAdmits
  <2>2. CASE app.by = Base
    BY <2>2 DEF Base, Runs
  <2>3. CASE app.by # Base
    <3>1. app.by \in Runs /\ run[app.by].epoch > 0 /\ run[app.by].epoch < appLease.epoch
      BY <1>2, <2>1, <2>3 DEF EpochsOrdered, Runs, Base, CommitEpoch
    <3> QED
      BY <1>2, <1>3, <3>1 DEF EpochsOrdered
  <2> QED
    BY <2>2, <2>3
<1>11. DeployTypeOK'
  BY <1>4, <1>5, <1>6, <1>7, <1>8 DEF DeployInv, DeployTypeOK
<1>12. EpochsOrdered'
  <2>1. \A q \in Runs : run'[q].epoch = run[q].epoch /\ (run'[q].stage = "queued" => run[q].stage = "queued")
    BY <1>5
  <2> QED
    BY <1>2, <1>3, <1>4, <1>6, <1>9, <2>1 DEF EpochsOrdered
<1>13. \A q \in Runs : run'[q].lost = run[q].lost /\ run'[q].to = run[q].to
                       /\ run'[q].op = run[q].op /\ run'[q].epoch = run[q].epoch
  BY <1>5
<1>14. run[r].op = "failover" => run[r].lost # run[r].to
  BY <1>1 DEF RunCoherent, Active
<1>15. CommitHeld'
  <2> SUFFICES ASSUME NoDrops PROVE CommitHeld'
    BY DEF CommitHeld
  <2>1. /\ box[run[r].to] = {r} /\ hand[run[r].to].kind = "none"
        /\ \A q \in Runs : run[q].lost = run[r].to => retire[q] # "pending"
    BY <1>1 DEF PlanHeld, stepSucceeded
  <2>2. \A q \in Runs : run[q].lost = run[r].to => retire'[q] \notin Open
    <3> SUFFICES ASSUME NEW q \in Runs, run[q].lost = run[r].to, retire'[q] \in Open
                 PROVE  FALSE
      OBVIOUS
    <3>1. retire[q] = "running"
      BY <1>8, <1>14, <2>1 DEF Open
    <3>2. hand[run[r].to].kind = "retire"
      BY <3>1 DEF DeployInv, RemovalInHand
    <3> QED
      BY <2>1, <3>2
  <2> QED
    BY <1>4, <1>13, <2>1, <2>2 DEF CommitHeld
<1>16. \A q \in Runs : ~leaseAdmits(q)'
  BY <1>6 DEF leaseAdmits
<1>17. ASSUME NEW q \in Runs
       PROVE  RunCoherent(q)' /\ RemovalInHand(q)' /\ PlanHeld(q)'
  <2>1. RunCoherent(q) /\ RemovalInHand(q) /\ made' = made /\ hand' = hand
    BY DEF DeployInv
  <2>2. RunCoherent(q)'
    <3>1. CASE q = r
      BY <1>1, <1>5, <1>16, <2>1, <3>1 DEF RunCoherent, Active
    <3>2. CASE q # r
      BY <1>5, <1>7, <1>8, <1>16, <2>1, <3>2 DEF RunCoherent
    <3> QED
      BY <3>1, <3>2
  <2>3. RemovalInHand(q)'
    BY <1>8, <1>13, <2>1 DEF RemovalInHand
  <2> QED
    BY <1>16, <2>2, <2>3 DEF PlanHeld
<1>18. ASSUME NEW n \in Nodes
       PROVE  HandCoherent(n)'
  <2>1. HandCoherent(n) /\ hand' = hand /\ box' = box
    BY DEF DeployInv
  <2> QED
    BY <1>13, <1>16, <2>1 DEF HandCoherent, Active
<1> QED
  BY <1>2, <1>4, <1>10, <1>11, <1>12, <1>15, <1>17, <1>18 DEF DeployInv


(* A new run is queued behind the others.                                      *)
LEMMA CreateKeeps ==
  ASSUME DeployInv, NEW op \in {"deploy", "failover"}, NEW to \in Nodes \cup {"none"},
         NEW lost \in Nodes \cup {"none"}, op = "failover" => to \in Nodes,
         createRun(op, to, lost), UNCHANGED <<job, retire, appLease, app, box, hand>>
  PROVE  DeployInv'
<1>1. PICK r : r = made + 1
  OBVIOUS
<1>2. /\ run \in [Runs -> RunRows] /\ made \in Nat /\ r \in Runs /\ Runs \subseteq Nat /\ made' = r
      /\ r \in 0..MaxRuns /\ EpochsOrdered /\ app.by \in 0..MaxRuns
      /\ \A q \in Runs : run[q].epoch \in Nat
  BY <1>1, PipelineAssumption DEF DeployInv, DeployTypeOK, createRun, Runs, RunRows
<1>3. /\ run' \in [Runs -> RunRows] /\ \A q \in Runs \ {r} : run'[q] = run[q]
      /\ run'[r].stage = "queued" /\ run'[r].epoch = 0 /\ run'[r].to = to /\ run'[r].lost = lost
      /\ run'[r].op = op
  <2>1. PICK row : row = [stage |-> "queued", op |-> op, epoch |-> 0, to |-> to, lost |-> lost]
    OBVIOUS
  <2>2. row \in RunRows
    BY <2>1 DEF RunRows
  <2>3. run' = [run EXCEPT ![r] = row]
    BY <1>1, <2>1 DEF createRun
  <2> QED
    BY <1>2, <2>1, <2>2, <2>3
<1>4. /\ run[r].stage = "none" /\ run[r].epoch = 0 /\ run[r].lost = "none"
      /\ job[r] = "absent" /\ retire[r] = "absent"
  BY <1>1, <1>2 DEF DeployInv, RunCoherent
<1>5. app.by # r
  BY <1>2, <1>4 DEF EpochsOrdered, Base, Runs
<1>6. CommitEpoch' = CommitEpoch /\ CommitEpoch \in Nat
  BY <1>2, <1>3, <1>5 DEF CommitEpoch, Base, Runs
<1>7. \A n \in Nodes : Reworked(n) => Reworked(n)'
  <2> SUFFICES ASSUME NEW n \in Nodes, NEW q \in Runs, run[q].to = n, run[q].epoch > CommitEpoch
               PROVE  Reworked(n)'
    BY DEF Reworked
  <2>1. q # r
    BY <1>4, <1>6
  <2> QED
    BY <1>3, <1>6, <2>1 DEF Reworked
<1>8. DeployTypeOK'
  BY <1>2, <1>3 DEF DeployInv, DeployTypeOK
<1>9. EpochsOrdered'
  <2>1. \A q \in Runs : run'[q].epoch = run[q].epoch
    BY <1>3, <1>4
  <2>2. \A q \in Runs : run[q].epoch > 0 => q < r
    <3> SUFFICES ASSUME NEW q \in Runs, run[q].epoch > 0 PROVE q < r
      OBVIOUS
    <3>1. q <= made
      BY <1>2 DEF DeployInv, RunCoherent
    <3> QED
      BY <1>1, <1>2, <3>1
  <2>3. \A q, p \in Runs : run'[q].epoch > 0 /\ run'[p].stage = "queued" => q < p
    BY <1>2, <1>3, <2>1, <2>2 DEF EpochsOrdered
  <2>4. app.by # Base => app.by \in Runs
    BY <1>2, PipelineAssumption DEF Runs, Base
  <2> QED
    BY <1>2, <1>6, <2>1, <2>3, <2>4 DEF EpochsOrdered
<1>10. \A q \in Runs : ~leaseAdmits(q) => ~leaseAdmits(q)'
  BY <1>3, <1>4 DEF leaseAdmits
<1>11. CommitHeld'
  <2>1. CommitHeld /\ app.node \in Nodes
    BY DEF DeployInv, DeployTypeOK
  <2>2. \A q \in Runs : run'[q].lost = app.node => run[q].lost = app.node \/ retire[q] = "absent"
    BY <1>3, <1>4
  <2> QED
    BY <1>7, <2>1, <2>2 DEF CommitHeld, Open
<1>12. ASSUME NEW q \in Runs
       PROVE  RunCoherent(q)' /\ RemovalInHand(q)' /\ PlanHeld(q)'
  <2>1. RunCoherent(q) /\ RemovalInHand(q) /\ PlanHeld(q)
    BY DEF DeployInv
  <2>2. CASE q = r
    BY <1>2, <1>3, <1>4, <1>10, <2>1, <2>2 DEF RunCoherent, RemovalInHand, PlanHeld, Active
  <2>3. CASE q # r
    <3>1. RunCoherent(q)' /\ RemovalInHand(q)'
      BY <1>1, <1>2, <1>3, <1>10, <2>1, <2>3 DEF RunCoherent, RemovalInHand
    <3>2. \A p \in Runs : run'[p].lost = run[p].lost \/ retire[p] = "absent"
      BY <1>3, <1>4
    <3>3. PlanHeld(q)'
      BY <1>3, <1>10, <2>1, <2>3, <3>2 DEF PlanHeld
    <3> QED
      BY <3>1, <3>3
  <2> QED
    BY <2>2, <2>3
<1>13. ASSUME NEW n \in Nodes
       PROVE  HandCoherent(n)'
  <2>1. HandCoherent(n) /\ n # "none"
    BY PipelineAssumption DEF DeployInv
  <2>2. hand[n].kind # "none" => hand[n].run # r
    <3>1. hand[n].kind \in {"none", "retire"} \cup Active
      BY DEF DeployInv, DeployTypeOK, Hands
    <3> QED
      BY <1>4, <2>1, <3>1 DEF HandCoherent
  <2> QED
    BY <1>3, <1>10, <2>1, <2>2 DEF HandCoherent, Active
<1> QED
  BY <1>8, <1>9, <1>11, <1>12, <1>13 DEF DeployInv

(* A run that lost its lease, or waited too long, fails without touching it;   *)
(* its command may be cancelled then or later.                                 *)
LEMMA FailsKeeps ==
  ASSUME DeployInv, NEW r \in Runs, LostLease(r) \/ run[r].stage = "queued",
         run' = [run EXCEPT ![r].stage = "failed"], cleanUp(r) \/ UNCHANGED job,
         UNCHANGED <<made, retire, appLease, app, box, hand>>
  PROVE  DeployInv'
<1>1. /\ run \in [Runs -> RunRows] /\ job \in [Runs -> StepStatuses] /\ EpochsOrdered /\ RunCoherent(r)
  BY DEF DeployInv, DeployTypeOK
<1>2. /\ run' \in [Runs -> RunRows] /\ \A q \in Runs \ {r} : run'[q] = run[q]
      /\ run'[r].stage = "failed" /\ run'[r].epoch = run[r].epoch /\ run'[r].to = run[r].to
      /\ run'[r].lost = run[r].lost /\ run'[r].op = run[r].op
  <2>1. PICK row : row = [run[r] EXCEPT !.stage = "failed"]
    OBVIOUS
  <2>2. /\ row \in RunRows /\ row.stage = "failed" /\ row.op = run[r].op /\ row.epoch = run[r].epoch
        /\ row.to = run[r].to /\ row.lost = run[r].lost
    BY <1>1, <2>1 DEF RunRows
  <2>3. run' = [run EXCEPT ![r] = row]
    BY <2>1
  <2> QED
    BY <1>1, <2>2, <2>3
<1>3. /\ job' \in [Runs -> StepStatuses]
      /\ \A q \in Runs : job'[q] = job[q] \/ (job[q] \in Open /\ job'[q] = "cancelled")
  <2>1. (IF job[r] \in Open THEN "cancelled" ELSE job[r]) \in StepStatuses
    BY <1>1 DEF StepStatuses
  <2> QED
    BY <1>1, <2>1 DEF cleanUp
<1>4. \A q \in Runs : /\ run'[q].lost = run[q].lost /\ run'[q].to = run[q].to
                      /\ run'[q].op = run[q].op /\ run'[q].epoch = run[q].epoch
                      /\ leaseAdmits(q)' = leaseAdmits(q)
                      /\ run'[q].stage # "failed" => run'[q].stage = run[q].stage
  BY <1>2 DEF leaseAdmits
<1>5. CommitEpoch' = CommitEpoch
  BY <1>4, PipelineAssumption DEF CommitEpoch, Base, DeployInv, DeployTypeOK, Runs
<1>6. \A n \in Nodes : Reworked(n)' <=> Reworked(n)
  BY <1>4, <1>5 DEF Reworked
<1>7. DeployTypeOK'
  BY <1>2, <1>3 DEF DeployInv, DeployTypeOK
<1>8. EpochsOrdered'
  <2>1. app.by # Base => app.by \in Runs
    BY PipelineAssumption DEF DeployInv, DeployTypeOK, Runs, Base
  <2> QED
    BY <1>1, <1>4, <1>5, <2>1 DEF EpochsOrdered
<1>9. CommitHeld'
  BY <1>4, <1>6 DEF DeployInv, DeployTypeOK, CommitHeld
<1>10. ~leaseAdmits(r)
  BY <1>1, PipelineAssumption DEF LostLease, RunCoherent, EpochsOrdered, leaseAdmits, DeployInv, DeployTypeOK,
     AppLeases, CommitEpoch, Base, Runs, RunRows
<1>11. ASSUME NEW q \in Runs
       PROVE  RunCoherent(q)' /\ RemovalInHand(q)' /\ PlanHeld(q)'
  <2>1. RunCoherent(q) /\ RemovalInHand(q) /\ PlanHeld(q)
    BY DEF DeployInv
  <2>2. RunCoherent(q)'
    <3>1. CASE q = r
      <4>1. run[r].stage # "none"
        BY DEF LostLease, Active
      <4> QED
        BY <1>2, <1>4, <1>10, <2>1, <3>1, <4>1 DEF RunCoherent, Active
    <3>2. CASE q # r
      BY <1>2, <1>3, <1>4, <2>1, <3>2 DEF RunCoherent, Open
    <3> QED
      BY <3>1, <3>2
  <2>3. RemovalInHand(q)'
    BY <1>4, <2>1 DEF RemovalInHand
  <2>4. PlanHeld(q)'
    BY <1>3, <1>4, <2>1 DEF PlanHeld
  <2> QED
    BY <2>2, <2>3, <2>4
<1>12. ASSUME NEW n \in Nodes
       PROVE  HandCoherent(n)'
  <2>1. HandCoherent(n)
    BY DEF DeployInv
  <2>2. \A q \in Runs : leaseAdmits(q) => run'[q].stage = run[q].stage
    BY <1>2, <1>10
  <2> QED
    BY <1>3, <1>4, <2>1, <2>2 DEF HandCoherent, Active
<1> QED
  BY <1>7, <1>8, <1>9, <1>11, <1>12 DEF DeployInv

(* Ending a run's command late, and a lease that lapses, take away only.       *)
LEMMA LapseKeeps ==
  ASSUME DeployInv, UNCHANGED <<made, run, retire, app, box, hand>>,
         \/ UNCHANGED appLease /\ \E r \in Runs : cleanUp(r)
         \/ UNCHANGED job /\ appLease' = [appLease EXCEPT !.live = FALSE]
  PROVE  DeployInv'
<1>1. job \in [Runs -> StepStatuses] /\ appLease \in AppLeases
  BY DEF DeployInv, DeployTypeOK
<1>2. /\ job' \in [Runs -> StepStatuses]
      /\ \A q \in Runs : job'[q] = job[q] \/ (job[q] \in Open /\ job'[q] = "cancelled")
  <2>1. CASE UNCHANGED job
    BY <1>1, <2>1
  <2>2. CASE \E r \in Runs : cleanUp(r)
    <3>1. PICK r \in Runs : cleanUp(r)
      BY <2>2
    <3>2. (IF job[r] \in Open THEN "cancelled" ELSE job[r]) \in StepStatuses
      BY <1>1 DEF StepStatuses
    <3> QED
      BY <1>1, <3>1, <3>2 DEF cleanUp
  <2> QED
    BY <2>1, <2>2
<1>3. appLease' \in AppLeases /\ appLease'.epoch = appLease.epoch /\ appLease'.holder = appLease.holder
      /\ (appLease'.live => appLease.live)
  BY <1>1 DEF AppLeases
<1>4. \A q \in Runs : leaseAdmits(q)' => leaseAdmits(q)
  BY <1>3 DEF leaseAdmits
<1>5. CommitEpoch' = CommitEpoch /\ \A n \in Nodes : Reworked(n)' <=> Reworked(n)
  BY DEF CommitEpoch, Reworked
<1>6. DeployTypeOK'
  BY <1>2, <1>3 DEF DeployInv, DeployTypeOK
<1>7. EpochsOrdered'
  BY <1>3, <1>5 DEF DeployInv, EpochsOrdered
<1>8. CommitHeld'
  BY <1>5 DEF DeployInv, DeployTypeOK, CommitHeld
<1>9. \A q \in Runs : RunCoherent(q)' /\ RemovalInHand(q)' /\ PlanHeld(q)'
  BY <1>2, <1>4 DEF DeployInv, RunCoherent, RemovalInHand, PlanHeld, Open
<1>10. \A n \in Nodes : HandCoherent(n)'
  <2> SUFFICES ASSUME NEW n \in Nodes PROVE HandCoherent(n)'
    OBVIOUS
  <2>1. HandCoherent(n)
    BY DEF DeployInv
  <2> QED
    BY <1>2, <1>4, <2>1 DEF HandCoherent, Active, Open
<1> QED
  BY <1>6, <1>7, <1>8, <1>9, <1>10 DEF DeployInv


-----------------------------------------------------------------------------
(* Nodes leave the rows, the lease and the App alone.                          *)
LEMMA NodeFrame ==
  ASSUME DeployInv, UNCHANGED <<made, run, appLease, app>>
  PROVE  /\ EpochsOrdered'
         /\ \A n \in Nodes : Reworked(n)' <=> Reworked(n)
         /\ \A q \in Runs : leaseAdmits(q)' <=> leaseAdmits(q)
<1>1. CommitEpoch' = CommitEpoch
  BY DEF CommitEpoch
<1>2. EpochsOrdered
  BY DEF DeployInv
<1> QED
  BY <1>1, <1>2 DEF EpochsOrdered, Reworked, leaseAdmits

(* An admitted run's Node is reworked, if the App was routed there.            *)
LEMMA AdmittedReworks ==
  ASSUME DeployInv, NEW r \in Runs, leaseAdmits(r)
  PROVE  Reworked(run[r].to)
<1>1. appLease.holder # 0 /\ run[r].epoch = appLease.epoch /\ EpochsOrdered
      /\ run[r].epoch \in Nat /\ CommitEpoch \in Nat
  BY PipelineAssumption DEF leaseAdmits, DeployInv, DeployTypeOK, RunRows, CommitEpoch, Base, Runs
<1> QED
  BY <1>1 DEF EpochsOrdered, Reworked

(* Only one run is admitted.                                                   *)
LEMMA AdmittedOne ==
  ASSUME DeployInv, NEW q \in Runs, NEW r \in Runs, leaseAdmits(q), leaseAdmits(r)
  PROVE  q = r
<1>1. /\ appLease.holder # 0 /\ run[r].epoch = appLease.epoch /\ run[q].epoch = appLease.epoch /\ EpochsOrdered
      /\ run[r].epoch \in Nat /\ CommitEpoch \in Nat /\ q \in Nat /\ r \in Nat
  BY PipelineAssumption DEF leaseAdmits, DeployInv, DeployTypeOK, RunRows, CommitEpoch, Base, Runs
<1>2. run[r].epoch > 0
  BY <1>1 DEF EpochsOrdered
<1> QED
  BY <1>1, <1>2 DEF EpochsOrdered

LEMMA ClaimStepKeeps ==
  ASSUME DeployInv, NEW n \in Nodes, NEW r \in Runs, claimStep(n, r)
  PROVE  DeployInv'
<1>1. /\ UNCHANGED <<made, run, appLease, app, retire, box>> /\ hand[n] = Nothing /\ run[r].to = n
      /\ leaseAdmits(r) /\ job[r] \in Open /\ run[r].stage \in Active
  BY DEF claimStep, DeployInv, RunCoherent
<1>2. /\ EpochsOrdered' /\ \A m \in Nodes : Reworked(m)' <=> Reworked(m)
      /\ \A q \in Runs : leaseAdmits(q)' <=> leaseAdmits(q)
  BY <1>1, NodeFrame
<1>3. /\ hand' \in [Nodes -> Hands] /\ \A m \in Nodes \ {n} : hand'[m] = hand[m]
      /\ hand'[n].kind = run[r].stage /\ hand'[n].run = r /\ hand'[n].ran = "no"
  <2>1. PICK row : row = [kind |-> run[r].stage, run |-> r, ran |-> "no"]
    OBVIOUS
  <2>2. row \in Hands
    BY <1>1, <2>1, PipelineAssumption DEF Hands, Runs
  <2>3. hand \in [Nodes -> Hands] /\ hand' = [hand EXCEPT ![n] = row]
    BY <2>1 DEF claimStep, DeployInv, DeployTypeOK
  <2> QED
    BY <2>1, <2>2, <2>3
<1>4. job' \in [Runs -> StepStatuses] /\ job'[r] = "running" /\ \A q \in Runs \ {r} : job'[q] = job[q]
  BY DEF claimStep, DeployInv, DeployTypeOK, StepStatuses
<1>5. Reworked(n)
  BY <1>1, AdmittedReworks
<1>6. DeployTypeOK'
  BY <1>1, <1>3, <1>4 DEF DeployInv, DeployTypeOK
<1>7. CommitHeld'
  BY <1>1, <1>2, <1>3, <1>5 DEF DeployInv, DeployTypeOK, CommitHeld
<1>8. ASSUME NEW q \in Runs
      PROVE  RunCoherent(q)' /\ RemovalInHand(q)' /\ PlanHeld(q)'
  <2>1. RunCoherent(q) /\ RemovalInHand(q) /\ PlanHeld(q) /\ RunCoherent(r)
    BY DEF DeployInv
  <2>2. RunCoherent(q)'
    BY <1>1, <1>2, <1>4, <2>1 DEF RunCoherent, Active
  <2>3. RemovalInHand(q)'
    <3>1. NoDrops /\ retire[q] = "running" => run[q].lost # n
      BY <1>1, <2>1 DEF RemovalInHand, Nothing
    <3> QED
      BY <1>1, <1>3, <2>1, <3>1 DEF RemovalInHand
  <2>4. PlanHeld(q)'
    <3>1. leaseAdmits(q)' => q = r
      BY <1>1, <1>2, AdmittedOne
    <3> QED
      BY <1>1, <1>2, <1>4, <2>1, <3>1 DEF PlanHeld
  <2> QED
    BY <2>2, <2>3, <2>4
<1>9. ASSUME NEW m \in Nodes
      PROVE  HandCoherent(m)'
  <2>1. HandCoherent(m) /\ RunCoherent(r)
    BY DEF DeployInv
  <2>2. CASE m = n
    BY <1>1, <1>3, <2>1, <2>2 DEF HandCoherent, RunCoherent, Active
  <2>3. CASE m # n
    <3>1. hand[m].kind \in Active => hand[m].run # r
      BY <1>1, <2>1, <2>3 DEF HandCoherent
    <3> QED
      BY <1>1, <1>2, <1>3, <1>4, <2>1, <2>3, <3>1 DEF HandCoherent, Active
  <2> QED
    BY <2>2, <2>3
<1> QED
  BY <1>2, <1>6, <1>7, <1>8, <1>9 DEF DeployInv

(* A removal is claimed only where no later run has called it off.             *)
LEMMA ClaimRetirementKeeps ==
  ASSUME DeployInv, NEW n \in Nodes, NEW r \in Runs, claimRetirement(n, r)
  PROVE  DeployInv'
<1>1. /\ UNCHANGED <<made, run, appLease, app, job, box>> /\ hand[n] = Nothing /\ run[r].lost = n
      /\ retire[r] \in Open
  BY DEF claimRetirement
<1>2. /\ EpochsOrdered' /\ \A m \in Nodes : Reworked(m)' <=> Reworked(m)
      /\ \A q \in Runs : leaseAdmits(q)' <=> leaseAdmits(q)
  BY <1>1, NodeFrame
<1>3. /\ hand' \in [Nodes -> Hands] /\ \A m \in Nodes \ {n} : hand'[m] = hand[m]
      /\ hand'[n].kind = "retire" /\ hand'[n].run = r /\ hand'[n].ran = "no"
  <2>1. PICK row : row = [kind |-> "retire", run |-> r, ran |-> "no"]
    OBVIOUS
  <2>2. row \in Hands
    BY <1>1, <2>1, PipelineAssumption DEF Hands, Runs
  <2>3. hand \in [Nodes -> Hands] /\ hand' = [hand EXCEPT ![n] = row]
    BY <2>1 DEF claimRetirement, DeployInv, DeployTypeOK
  <2> QED
    BY <2>1, <2>2, <2>3
<1>4. /\ retire' \in [Runs -> StepStatuses] /\ retire'[r] = "running"
      /\ \A q \in Runs \ {r} : retire'[q] = retire[q]
  BY DEF claimRetirement, DeployInv, DeployTypeOK, StepStatuses
<1>5. NoDrops => retire[r] = "pending"
  <2>1. RemovalInHand(r)
    BY DEF DeployInv
  <2> QED
    BY <1>1, <2>1 DEF RemovalInHand, Nothing, Open
<1>6. NoDrops /\ app.node = n => Reworked(n)
  BY <1>1 DEF DeployInv, CommitHeld
<1>7. DeployTypeOK'
  BY <1>1, <1>3, <1>4 DEF DeployInv, DeployTypeOK
<1>8. CommitHeld'
  <2>1. \A q \in Runs : run[q].lost = app.node /\ retire[q] \notin Open /\ app.node # n => retire'[q] \notin Open
    BY <1>1, <1>4
  <2> QED
    BY <1>1, <1>2, <1>3, <1>6, <2>1 DEF DeployInv, DeployTypeOK, CommitHeld
<1>9. ASSUME NEW q \in Runs
      PROVE  RunCoherent(q)' /\ RemovalInHand(q)' /\ PlanHeld(q)'
  <2>1. RunCoherent(q) /\ RemovalInHand(q) /\ PlanHeld(q) /\ RunCoherent(r)
    BY DEF DeployInv
  <2>2. RunCoherent(q)'
    BY <1>1, <1>2, <1>4, <2>1 DEF RunCoherent, Open
  <2>3. RemovalInHand(q)'
    <3>1. CASE q = r
      BY <1>1, <1>3, <3>1 DEF RemovalInHand
    <3>2. CASE q # r
      <4>1. NoDrops /\ retire[q] = "running" => run[q].lost # n
        BY <1>1, <2>1 DEF RemovalInHand, Nothing
      <4> QED
        BY <1>1, <1>3, <1>4, <2>1, <3>2, <4>1 DEF RemovalInHand
    <3> QED
      BY <3>1, <3>2
  <2>4. PlanHeld(q)'
    <3>1. \A p \in Runs : retire'[p] = "pending" => retire[p] = "pending"
      BY <1>4
    <3>2. NoDrops /\ leaseAdmits(q) /\ run[q].stage \in {"building", "deploying"} => run[q].to # n
      BY <1>1, <1>5, <2>1 DEF PlanHeld
    <3>3. run[q].stage \in {"building", "deploying"} => run[q].to \in Nodes
      BY <2>1 DEF RunCoherent, Active
    <3> QED
      BY <1>1, <1>2, <1>3, <2>1, <3>1, <3>2, <3>3 DEF PlanHeld
  <2> QED
    BY <2>2, <2>3, <2>4
<1>10. ASSUME NEW m \in Nodes
       PROVE  HandCoherent(m)'
  <2>1. HandCoherent(m)
    BY DEF DeployInv
  <2>2. CASE m = n
    BY <1>1, <1>3, <2>2 DEF HandCoherent, Active
  <2>3. CASE m # n
    BY <1>1, <1>2, <1>3, <2>1, <2>3 DEF HandCoherent, Active
  <2> QED
    BY <2>2, <2>3
<1> QED
  BY <1>2, <1>7, <1>8, <1>9, <1>10 DEF DeployInv

(* A command is accepted, or given up because its claim no longer holds.       *)
LEMMA AcceptsKeeps ==
  ASSUME DeployInv, NEW n \in Nodes, accepts(n)
  PROVE  DeployInv'
<1>1. /\ UNCHANGED <<made, run, appLease, app, job, retire, box>>
      /\ hand[n].kind # "none" /\ hand[n].ran = "no" /\ hand[n] \in Hands /\ hand \in [Nodes -> Hands]
  BY DEF accepts, DeployInv, DeployTypeOK
<1>2. /\ EpochsOrdered' /\ \A m \in Nodes : Reworked(m)' <=> Reworked(m)
      /\ \A q \in Runs : leaseAdmits(q)' <=> leaseAdmits(q)
  BY <1>1, NodeFrame
<1>3. PICK h \in Hands : /\ hand' = [hand EXCEPT ![n] = h]
                         /\ \/ Claimed(hand[n]) /\ h.kind = hand[n].kind /\ h.run = hand[n].run /\ h.ran = "started"
                            \/ ~Claimed(hand[n]) /\ h.kind = "none" /\ h.ran = "no"
  <2>1. CASE Claimed(hand[n])
    <3>1. PICK h : h = [hand[n] EXCEPT !.ran = "started"]
      OBVIOUS
    <3>2. h \in Hands /\ h.kind = hand[n].kind /\ h.run = hand[n].run /\ h.ran = "started"
      BY <1>1, <3>1 DEF Hands
    <3> QED
      BY <2>1, <3>1, <3>2 DEF accepts
  <2>2. CASE ~Claimed(hand[n])
    <3>1. Nothing \in Hands /\ Nothing.kind = "none" /\ Nothing.ran = "no"
      BY PipelineAssumption DEF Nothing, Hands
    <3> QED
      BY <2>2, <3>1 DEF accepts
  <2> QED
    BY <2>1, <2>2
<1>4. hand' \in [Nodes -> Hands] /\ hand'[n] = h /\ \A m \in Nodes \ {n} : hand'[m] = hand[m]
  BY <1>1, <1>3
<1>5. NoDrops /\ app.node = n => Reworked(n)
  BY <1>1 DEF DeployInv, CommitHeld
<1>6. DeployTypeOK'
  BY <1>1, <1>4 DEF DeployInv, DeployTypeOK
<1>7. CommitHeld'
  BY <1>1, <1>2, <1>4, <1>5 DEF DeployInv, DeployTypeOK, CommitHeld
<1>8. ASSUME NEW q \in Runs
      PROVE  RunCoherent(q)' /\ RemovalInHand(q)' /\ PlanHeld(q)'
  <2>1. RunCoherent(q) /\ RemovalInHand(q) /\ PlanHeld(q)
    BY DEF DeployInv
  <2>2. RunCoherent(q)'
    BY <1>1, <1>2, <2>1 DEF RunCoherent
  <2>3. RemovalInHand(q)'
    BY <1>1, <1>3, <1>4, <2>1 DEF RemovalInHand, Claimed
  <2>4. PlanHeld(q)'
    <3>1. NoDrops /\ leaseAdmits(q) /\ run[q].stage = "deploying" /\ job[q] = "success" => run[q].to # n
      BY <1>1, <2>1 DEF PlanHeld
    <3>2. run[q].stage = "deploying" => run[q].to \in Nodes
      BY <2>1 DEF RunCoherent, Active
    <3> QED
      BY <1>1, <1>2, <1>4, <2>1, <3>1, <3>2 DEF PlanHeld
  <2> QED
    BY <2>2, <2>3, <2>4
<1>9. ASSUME NEW m \in Nodes
      PROVE  HandCoherent(m)'
  <2>1. HandCoherent(m)
    BY DEF DeployInv
  <2>2. CASE m = n
    BY <1>1, <1>2, <1>3, <1>4, <2>1, <2>2 DEF HandCoherent, Active
  <2>3. CASE m # n
    BY <1>1, <1>2, <1>4, <2>1, <2>3 DEF HandCoherent, Active
  <2> QED
    BY <2>2, <2>3
<1> QED
  BY <1>2, <1>6, <1>7, <1>8, <1>9 DEF DeployInv


(* The effect: it may take away what an earlier run left, not what is routed.  *)
LEMMA ActsKeeps ==
  ASSUME DeployInv, NEW n \in Nodes, acts(n)
  PROVE  DeployInv'
<1>1. /\ UNCHANGED <<made, run, appLease, app, job, retire>> /\ hand[n].ran = "started"
      /\ hand[n] \in Hands /\ hand \in [Nodes -> Hands] /\ box \in [Nodes -> SUBSET (0..MaxRuns)]
  BY DEF acts, DeployInv, DeployTypeOK
<1>2. /\ EpochsOrdered' /\ \A m \in Nodes : Reworked(m)' <=> Reworked(m)
      /\ \A q \in Runs : leaseAdmits(q)' <=> leaseAdmits(q)
  BY <1>1, NodeFrame
<1>3. HandCoherent(n)
  BY DEF DeployInv
<1>4. hand[n].kind # "none" /\ hand[n].run \in Runs
  BY <1>1, <1>3 DEF HandCoherent
<1>5. PICK o \in {"success", "failure", "unknown"} :
        /\ hand' = [hand EXCEPT ![n].ran = o]
        /\ \E b \in IF hand[n].kind \in {"deploying", "retire"}
                    THEN {After(n)} \cup (IF o = "success" THEN {} ELSE {{}, box[n]})
                    ELSE {box[n]} :
             box' = [box EXCEPT ![n] = b]
  BY DEF acts
<1>6. PICK b \in IF hand[n].kind \in {"deploying", "retire"}
                 THEN {After(n)} \cup (IF o = "success" THEN {} ELSE {{}, box[n]})
                 ELSE {box[n]} :
        box' = [box EXCEPT ![n] = b]
  BY <1>5
<1>7. b \in SUBSET (0..MaxRuns) /\ (hand[n].kind = "deploying" /\ o = "success" => b = {hand[n].run})
  <2>1. After(n) \in SUBSET (0..MaxRuns) /\ box[n] \in SUBSET (0..MaxRuns)
    BY <1>1, <1>4, PipelineAssumption DEF After, Runs
  <2> QED
    BY <1>6, <2>1 DEF After
<1>8. /\ box' \in [Nodes -> SUBSET (0..MaxRuns)] /\ box'[n] = b /\ \A m \in Nodes \ {n} : box'[m] = box[m]
  BY <1>1, <1>6, <1>7
<1>9. /\ hand' \in [Nodes -> Hands] /\ \A m \in Nodes \ {n} : hand'[m] = hand[m]
      /\ hand'[n].kind = hand[n].kind /\ hand'[n].run = hand[n].run /\ hand'[n].ran = o
  <2>1. PICK h : h = [hand[n] EXCEPT !.ran = o]
    OBVIOUS
  <2>2. h \in Hands /\ h.kind = hand[n].kind /\ h.run = hand[n].run /\ h.ran = o
    BY <1>1, <2>1 DEF Hands
  <2>3. hand' = [hand EXCEPT ![n] = h]
    BY <1>5, <2>1
  <2> QED
    BY <1>1, <2>2, <2>3
<1>10. NoDrops /\ app.node = n => Reworked(n)
  BY <1>4 DEF DeployInv, CommitHeld
<1>11. DeployTypeOK'
  BY <1>1, <1>8, <1>9 DEF DeployInv, DeployTypeOK
<1>12. CommitHeld'
  BY <1>1, <1>2, <1>8, <1>9, <1>10 DEF DeployInv, DeployTypeOK, CommitHeld
<1>13. ASSUME NEW q \in Runs
       PROVE  RunCoherent(q)' /\ RemovalInHand(q)' /\ PlanHeld(q)'
  <2>1. RunCoherent(q) /\ RemovalInHand(q) /\ PlanHeld(q)
    BY DEF DeployInv
  <2>2. RunCoherent(q)'
    BY <1>1, <1>2, <2>1 DEF RunCoherent
  <2>3. RemovalInHand(q)'
    BY <1>1, <1>9, <2>1 DEF RemovalInHand
  <2>4. PlanHeld(q)'
    <3>1. NoDrops /\ leaseAdmits(q) /\ run[q].stage = "deploying" /\ job[q] = "success" => run[q].to # n
      BY <1>4, <2>1 DEF PlanHeld
    <3>2. run[q].stage = "deploying" => run[q].to \in Nodes
      BY <2>1 DEF RunCoherent, Active
    <3> QED
      BY <1>1, <1>2, <1>8, <1>9, <2>1, <3>1, <3>2 DEF PlanHeld
  <2> QED
    BY <2>2, <2>3, <2>4
<1>14. ASSUME NEW m \in Nodes
       PROVE  HandCoherent(m)'
  <2>1. HandCoherent(m)
    BY DEF DeployInv
  <2>2. CASE m = n
    BY <1>1, <1>2, <1>4, <1>7, <1>8, <1>9, <2>1, <2>2 DEF HandCoherent, Active
  <2>3. CASE m # n
    BY <1>1, <1>2, <1>8, <1>9, <2>1, <2>3 DEF HandCoherent, Active
  <2> QED
    BY <2>2, <2>3
<1> QED
  BY <1>2, <1>11, <1>12, <1>13, <1>14 DEF DeployInv

(* The report of a step: success means that the container is there.            *)
LEMMA ReportsKeeps ==
  ASSUME DeployInv, NEW n \in Nodes, reports(n)
  PROVE  DeployInv'
<1>1. /\ UNCHANGED <<made, run, appLease, app, box>> /\ hand[n].ran \in {"success", "failure", "unknown"}
      /\ hand[n] \in Hands /\ hand \in [Nodes -> Hands]
      /\ job \in [Runs -> StepStatuses] /\ retire \in [Runs -> StepStatuses]
  BY DEF reports, DeployInv, DeployTypeOK
<1>2. /\ EpochsOrdered' /\ \A m \in Nodes : Reworked(m)' <=> Reworked(m)
      /\ \A q \in Runs : leaseAdmits(q)' <=> leaseAdmits(q)
  BY <1>1, NodeFrame
<1>3. HandCoherent(n)
  BY DEF DeployInv
<1>4. hand[n].kind # "none" /\ hand[n].run \in Runs
  BY <1>1, <1>3 DEF HandCoherent
<1>5. PICK r \in Runs, o \in {"success", "failure", "unknown"} : r = hand[n].run /\ o = hand[n].ran
  BY <1>1, <1>4
<1>6. /\ hand' \in [Nodes -> Hands] /\ hand'[n].kind = "none" /\ hand'[n].ran = "no"
      /\ \A m \in Nodes \ {n} : hand'[m] = hand[m]
  <2>1. Nothing \in Hands /\ hand' = [hand EXCEPT ![n] = Nothing]
    BY PipelineAssumption DEF reports, Nothing, Hands
  <2> QED
    BY <1>1, <2>1 DEF Nothing
<1>7. /\ job' \in [Runs -> StepStatuses]
      /\ \A q \in Runs : \/ job'[q] = job[q]
                         \/ /\ q = r /\ job[q] = "running" /\ leaseAdmits(q) /\ hand[n].kind # "retire"
                            /\ job'[q] = o
  <2>1. CASE hand[n].kind # "retire" /\ Claimed(hand[n])
    <3>1. job' = [job EXCEPT ![r] = o] /\ job[r] = "running" /\ leaseAdmits(r)
      BY <1>5, <2>1 DEF reports, Claimed
    <3> QED
      BY <1>1, <2>1, <3>1 DEF StepStatuses
  <2>2. CASE ~(hand[n].kind # "retire" /\ Claimed(hand[n]))
    BY <1>1, <2>2 DEF reports
  <2> QED
    BY <2>1, <2>2
<1>8. /\ retire' \in [Runs -> StepStatuses]
      /\ \A q \in Runs : \/ retire'[q] = retire[q] /\ ~(q = r /\ hand[n].kind = "retire" /\ retire[q] = "running")
                         \/ retire[q] = "running" /\ retire'[q] = o
  <2>1. CASE hand[n].kind = "retire" /\ Claimed(hand[n])
    <3>1. retire' = [retire EXCEPT ![r] = o] /\ retire[r] = "running"
      BY <1>5, <2>1 DEF reports, Claimed
    <3> QED
      BY <1>1, <2>1, <3>1 DEF StepStatuses
  <2>2. CASE ~(hand[n].kind = "retire" /\ Claimed(hand[n]))
    BY <1>1, <1>5, <2>2 DEF reports, Claimed
  <2> QED
    BY <2>1, <2>2
<1>9. NoDrops /\ app.node = n => Reworked(n)
  BY <1>4 DEF DeployInv, CommitHeld
<1>10. DeployTypeOK'
  BY <1>1, <1>6, <1>7, <1>8 DEF DeployInv, DeployTypeOK
<1>11. CommitHeld'
  <2>1. \A q \in Runs : retire[q] \notin Open => retire'[q] \notin Open
    BY <1>8 DEF Open
  <2> QED
    BY <1>1, <1>2, <1>6, <1>9, <2>1 DEF DeployInv, DeployTypeOK, CommitHeld
<1>12. ASSUME NEW q \in Runs
       PROVE  RunCoherent(q)' /\ RemovalInHand(q)' /\ PlanHeld(q)'
  <2>1. RunCoherent(q) /\ RemovalInHand(q) /\ PlanHeld(q)
    BY DEF DeployInv
  <2>2. RunCoherent(q)'
    BY <1>1, <1>2, <1>7, <1>8, <2>1 DEF RunCoherent
  <2>3. RemovalInHand(q)'
    BY <1>1, <1>5, <1>6, <1>8, <2>1 DEF RemovalInHand
  <2>4. PlanHeld(q)'
    <3> SUFFICES ASSUME NoDrops, leaseAdmits(q), run[q].stage \in {"building", "deploying"}
                 PROVE  /\ \A p \in Runs : run[p].lost = run[q].to => retire'[p] # "pending"
                        /\ run[q].stage = "deploying" /\ job'[q] = "success" =>
                             box[run[q].to] = {q} /\ hand'[run[q].to].kind = "none"
      BY <1>1, <1>2 DEF PlanHeld
    <3>1. \A p \in Runs : run[p].lost = run[q].to => retire'[p] # "pending"
      BY <1>8, <2>1 DEF PlanHeld
    <3>2. ASSUME run[q].stage = "deploying", job'[q] = "success"
          PROVE  box[run[q].to] = {q} /\ hand'[run[q].to].kind = "none"
      <4>1. run[q].to \in Nodes
        BY <2>1 DEF RunCoherent, Active
      <4>2. CASE job[q] = "success"
        BY <1>6, <2>1, <3>2, <4>1, <4>2 DEF PlanHeld
      <4>3. CASE job[q] # "success"
        <5>1. q = r /\ job[q] = "running" /\ hand[n].kind # "retire" /\ o = "success"
          BY <1>7, <3>2, <4>3
        <5>2. hand[n].kind \in Active
          BY <1>1, <1>4, <5>1 DEF Hands
        <5>3. run[q].to = n /\ hand[n].kind = "deploying"
          BY <1>3, <1>5, <3>2, <5>1, <5>2 DEF HandCoherent
        <5> QED
          BY <1>3, <1>5, <1>6, <5>1, <5>3 DEF HandCoherent
      <4> QED
        BY <4>2, <4>3
    <3> QED
      BY <3>1, <3>2
  <2> QED
    BY <2>2, <2>3, <2>4
<1>13. ASSUME NEW m \in Nodes
       PROVE  HandCoherent(m)'
  <2>1. HandCoherent(m)
    BY DEF DeployInv
  <2>2. CASE m = n
    BY <1>6, <2>2 DEF HandCoherent, Active
  <2>3. CASE m # n
    <3>1. \A q \in Runs : job'[q] = "running" => job[q] = "running"
      BY <1>7
    <3> QED
      BY <1>1, <1>2, <1>6, <2>1, <2>3, <3>1 DEF HandCoherent, Active
  <2> QED
    BY <2>2, <2>3
<1> QED
  BY <1>2, <1>10, <1>11, <1>12, <1>13 DEF DeployInv

(* What a Node's health and the check's suspicion touch is none of these.      *)
LEMMA HealthKeeps ==
  ASSUME DeployInv, UNCHANGED <<made, run, job, retire, appLease, app, box, hand>>
  PROVE  DeployInv'
BY DEF DeployInv, DeployTypeOK, EpochsOrdered, CommitHeld, CommitEpoch, Reworked, RunCoherent, RemovalInHand,
   PlanHeld, HandCoherent, leaseAdmits


-----------------------------------------------------------------------------
LEMMA BeginKeeps ==
  ASSUME DeployInv, NEW r \in Runs, begin(r)
  PROVE  DeployInv'
<1>1. /\ run[r].stage = "queued" /\ ~Earlier(r) /\ UNCHANGED <<made, box, hand>>
      /\ run[r] \in RunRows /\ app.node \in Nodes /\ RunCoherent(r)
  BY DEF begin, DeployInv, DeployTypeOK
<1>2. PICK l, f : l = acquireAppLease(r) /\ f = [run[r] EXCEPT !.epoch = l.epoch]
  OBVIOUS
<1>3. l.epoch \in Nat
  BY <1>2 DEF acquireAppLease, DeployInv, DeployTypeOK, AppLeases
<1>4. /\ f \in RunRows /\ f.op = run[r].op /\ f.to = run[r].to /\ f.lost = run[r].lost
      /\ f.op = "failover" => f.to \in Nodes
  BY <1>1, <1>2, <1>3 DEF RunRows, RunCoherent
<1>5. ASSUME NEW to \in Nodes \cup {"none"}, f.op = "failover" => to \in Nodes
      PROVE  /\ AtWork(r, [f EXCEPT !.to = to], l) /\ [f EXCEPT !.to = to].to = to
             /\ [f EXCEPT !.to = to].op = f.op /\ [f EXCEPT !.to = to].lost = f.lost
  <2>1. PICK g : g = [f EXCEPT !.to = to]
    OBVIOUS
  <2>2. /\ g \in RunRows /\ g.to = to /\ g.op = f.op /\ g.lost = f.lost /\ g.epoch = f.epoch
    BY <1>4, <1>5, <2>1 DEF RunRows
  <2>3. f.epoch = l.epoch
    BY <1>1, <1>2 DEF RunRows
  <2>4. g.epoch = l.epoch /\ g.op = run[r].op /\ g.lost = run[r].lost /\ (g.op = "failover" => g.to \in Nodes)
    BY <1>4, <1>5, <2>2, <2>3
  <2>5. l = acquireAppLease(r)
    BY <1>2
  <2>6. AtWork(r, g, l)
    BY <1>1, <2>2, <2>4, <2>5, BeginAtWork
  <2> QED
    BY <2>1, <2>2, <2>6
<1>6. AtWork(r, f, l)
  <2>1. [f EXCEPT !.to = f.to] = f /\ f.to \in Nodes \cup {"none"}
    BY <1>4 DEF RunRows
  <2> QED
    BY <1>4, <1>5, <2>1
<1>7. CASE f.op = "failover" /\ planStage(r, f, l)
  <2>1. CASE finish(r, f, l, "done") /\ UNCHANGED <<retire, app>>
    BY <1>1, <1>6, <2>1, FinishKeeps
  <2>2. CASE Fail(r, f, l)
    BY <1>1, <1>6, <2>2, FinishKeeps DEF Fail
  <2>3. CASE \E to \in survivor(f) \ {f.lost} : Placed(r, [f EXCEPT !.to = to], l, {"deploying"})
    <3>1. PICK to \in survivor(f) \ {f.lost} : Placed(r, [f EXCEPT !.to = to], l, {"deploying"})
      BY <2>3
    <3>2. to \in Nodes
      <4>1. \A S \in SUBSET Nodes : S # {} => firstOf(S) \in Nodes
        BY DEF firstOf
      <4>2. LiveNodes \ {f.lost} \in SUBSET Nodes
        BY DEF LiveNodes
      <4> QED
        BY <1>4, <1>7, <4>1, <4>2 DEF survivor
    <3>3. /\ AtWork(r, [f EXCEPT !.to = to], l) /\ [f EXCEPT !.to = to].to \in Nodes
          /\ [f EXCEPT !.to = to].to # [f EXCEPT !.to = to].lost
      BY <1>5, <3>1, <3>2
    <3> QED
      BY <1>1, <3>1, <3>3, PlacedKeeps
  <2> QED
    BY <1>7, <2>1, <2>2, <2>3 DEF planStage
<1>8. CASE f.op = "deploy" /\ Fail(r, f, l)
  BY <1>1, <1>6, <1>8, FinishKeeps DEF Fail
<1>9. CASE /\ f.op = "deploy" /\ UNCHANGED retire
           /\ runStep(r, [f EXCEPT !.to = IF f.to = "none" THEN app.node ELSE f.to], l, "reading-spec")
  <2>1. PICK to \in Nodes : to = IF f.to = "none" THEN app.node ELSE f.to
    BY <1>1, <1>4 DEF RunRows
  <2>2. runStep(r, [f EXCEPT !.to = to], l, "reading-spec")
    BY <1>9, <2>1
  <2>3. /\ AtWork(r, [f EXCEPT !.to = to], l) /\ [f EXCEPT !.to = to].to \in Nodes
        /\ [f EXCEPT !.to = to].op # "failover"
    BY <1>5, <1>9
  <2>4. "reading-spec" \in Active
    BY DEF Active
  <2> QED
    BY <1>1, <1>9, <2>2, <2>3, <2>4, StepKeeps
<1> QED
  BY <1>2, <1>7, <1>8, <1>9 DEF begin

LEMMA TickKeeps ==
  ASSUME DeployInv, NEW r \in Runs, tick(r)
  PROVE  DeployInv'
<1>1. /\ run[r].stage \in Active /\ leaseAdmits(r) /\ UNCHANGED <<made, box, hand>>
      /\ run[r] \in RunRows /\ RunCoherent(r) /\ PlanHeld(r)
  BY DEF tick, DeployInv, DeployTypeOK
<1>2. AtWork(r, run[r], appLease) /\ run[r].to \in Nodes
  BY <1>1, TickAtWork
<1>3. CASE Fail(r, run[r], appLease)
  BY <1>1, <1>2, <1>3, FinishKeeps DEF Fail
<1>4. CASE run[r].stage = "reading-spec" /\ planStage(r, run[r], appLease)
  <2>1. run[r].op = "deploy"
    BY <1>1, <1>4 DEF RunCoherent, RunRows
  <2> QED
    BY <1>1, <1>2, <1>4, <2>1, DeployPlanKeeps
<1>5. CASE run[r].stage = "building" /\ runStep(r, run[r], appLease, "deploying") /\ UNCHANGED retire
  <2>1. run[r].op # "failover" /\ "deploying" \in Active
    BY <1>1, <1>5 DEF RunCoherent, Active
  <2>2. NoDrops => \A q \in Runs : run[q].lost = run[r].to => retire[q] # "pending"
    BY <1>1, <1>5 DEF PlanHeld
  <2> QED
    BY <1>1, <1>2, <1>5, <2>1, <2>2, StepKeeps
<1>6. CASE stepSucceeded(r) /\ run[r].stage = "deploying" /\ commit(r)
  BY <1>1, <1>6, CommitKeeps
<1> QED
  BY <1>3, <1>4, <1>5, <1>6 DEF tick

LEMMA FailOverKeeps ==
  ASSUME DeployInv, NEW n \in Nodes, failOver(n)
  PROVE  DeployInv'
<1>1. UNCHANGED <<job, retire, appLease, app, box, hand>>
  BY DEF failOver
<1>2. CASE UNCHANGED <<made, run>>
  BY <1>1, <1>2, HealthKeeps
<1>3. CASE LET others == LiveNodes \ {n} IN
           createRun("failover", IF others = {} THEN n ELSE firstOf(others), n)
  <2>1. PICK to : to = IF LiveNodes \ {n} = {} THEN n ELSE firstOf(LiveNodes \ {n})
    OBVIOUS
  <2>2. to \in Nodes
    <3>1. \A S \in SUBSET Nodes : S # {} => firstOf(S) \in Nodes
      BY DEF firstOf
    <3>2. LiveNodes \ {n} \in SUBSET Nodes
      BY DEF LiveNodes
    <3> QED
      BY <2>1, <3>1, <3>2
  <2>3. createRun("failover", to, n)
    BY <1>3, <2>1
  <2> QED
    BY <1>1, <2>2, <2>3, CreateKeeps
<1> QED
  BY <1>2, <1>3 DEF failOver

(* A dropped command is forgotten by its Node.                                 *)
LEMMA DropsKeeps ==
  ASSUME DeployInv, NEW n \in Nodes, drops(n)
  PROVE  DeployInv'
<1>1. /\ UNCHANGED <<made, run, appLease, app, job, retire, box>> /\ ~NoDrops
      /\ hand \in [Nodes -> Hands] /\ hand' = [hand EXCEPT ![n] = Nothing] /\ Nothing \in Hands
  BY PipelineAssumption DEF drops, DeployInv, DeployTypeOK, NoDrops, Nothing, Hands
<1>2. EpochsOrdered' /\ \A q \in Runs : leaseAdmits(q)' <=> leaseAdmits(q)
  BY <1>1, NodeFrame
<1>3. DeployTypeOK'
  BY <1>1 DEF DeployInv, DeployTypeOK
<1>4. CommitHeld' /\ \A r \in Runs : RunCoherent(r)' /\ RemovalInHand(r)' /\ PlanHeld(r)'
  BY <1>1, <1>2 DEF DeployInv, CommitHeld, RemovalInHand, PlanHeld, RunCoherent
<1>5. ASSUME NEW m \in Nodes
      PROVE  HandCoherent(m)'
  <2>1. HandCoherent(m) /\ (m # n => hand'[m] = hand[m]) /\ (m = n => hand'[m] = Nothing)
    BY <1>1 DEF DeployInv
  <2> QED
    BY <1>1, <1>2, <2>1 DEF HandCoherent, Active, Nothing
<1> QED
  BY <1>2, <1>3, <1>4, <1>5 DEF DeployInv

LEMMA DeployNextInv == DeployInv /\ [DeployNext]_deployVars => DeployInv'
<1> SUFFICES ASSUME DeployInv, [DeployNext]_deployVars PROVE DeployInv'
  OBVIOUS
<1>1. CASE UNCHANGED deployVars
  BY <1>1, HealthKeeps DEF deployVars
<1>2. ASSUME NEW to \in Targets, deploy(to) PROVE DeployInv'
  BY <1>2, CreateKeeps, PipelineAssumption DEF deploy
<1>3. ASSUME NEW r \in Runs, RunSteps(r) PROVE DeployInv'
  <2>1. CASE begin(r)
    BY <2>1, BeginKeeps
  <2>2. CASE tickLost(r)
    BY <2>2, FailsKeeps DEF tickLost
  <2>3. CASE tick(r)
    BY <2>3, TickKeeps
  <2>4. CASE sweepStale(r)
    BY <2>4, FailsKeeps DEF sweepStale
  <2>5. CASE afterSweep(r)
    BY <2>5, LapseKeeps DEF afterSweep
  <2> QED
    BY <1>3, <2>1, <2>2, <2>3, <2>4, <2>5 DEF RunSteps
<1>4. CASE LeaseExpires
  BY <1>4, LapseKeeps DEF LeaseExpires
<1>5. ASSUME NEW n \in Nodes, AgentSteps(n) PROVE DeployInv'
  BY <1>5, ClaimStepKeeps, ClaimRetirementKeeps, AcceptsKeeps, ActsKeeps, ReportsKeeps DEF AgentSteps
<1>6. ASSUME NEW n \in Nodes,
             checkClears(n) \/ checkSuspects(n) \/ NodeCutOff(n) \/ NodeFallsSilent(n) \/ heartbeat(n)
      PROVE DeployInv'
  BY <1>6, HealthKeeps DEF checkClears, checkSuspects, NodeCutOff, NodeFallsSilent, heartbeat
<1>7. ASSUME NEW n \in Nodes, failOver(n) PROVE DeployInv'
  BY <1>7, FailOverKeeps
<1>8. ASSUME NEW n \in Nodes, drops(n) PROVE DeployInv'
  BY <1>8, DropsKeeps
<1> QED
  BY <1>1, <1>2, <1>3, <1>4, <1>5, <1>6, <1>7, <1>8 DEF DeployNext

LEMMA DeployInvariant == DeploySpec => []DeployInv
BY DeployInitInv, DeployNextInv, PTL DEF DeploySpec

(* The App's row always names the container that runs, unless a later run has  *)
(* turned to that Node (pipeline.ts, commit and cancelRetirements), with any   *)
(* number of runs, failovers, lapsed leases and Nodes that come back; that a   *)
(* claimed removal is not dropped before it is accepted is assumed.            *)
THEOREM RoutedContainerStaysUp ==
  ASSUME "drop" \notin Hitches
  PROVE  DeploySpec => []RoutedContainerUp
<1>1. DeployInv => RoutedContainerUp
  BY DEF DeployInv, CommitHeld, RoutedContainerUp, NoDrops
<1> QED
  BY <1>1, DeployInvariant, PTL

(* Runs commit in the order they were created (pipeline.ts, begin), whatever   *)
(* leases they lose and whatever is dropped.                                   *)
THEOREM CommitsStayInOrder == DeploySpec => CommitsInOrder
<1>1. ASSUME DeployInv, [DeployNext]_deployVars
      PROVE  [app'.by >= app.by]_app
  <2>1. SUFFICES ASSUME app' # app PROVE app'.by >= app.by
    OBVIOUS
  <2>2. DeployNext
    BY <1>1, <2>1 DEF deployVars
  <2>3. PICK r \in Runs : begin(r) \/ tick(r)
    BY <2>1, <2>2 DEF DeployNext, RunSteps, AgentSteps, deploy, tickLost, sweepStale, afterSweep, LeaseExpires,
       checkClears, checkSuspects, failOver, claimStep, claimRetirement, accepts, acts, reports, drops,
       NodeCutOff, NodeFallsSilent, heartbeat
  <2>4. ASSUME NEW f, NEW l, planStage(r, f, l) PROVE FALSE
    <3>1. ASSUME NEW g, NEW stages, Placed(r, g, l, stages) PROVE FALSE
      BY <2>1, <3>1 DEF Placed, Fail, runStep
    <3>2. ~Fail(r, f, l)
      BY <2>1 DEF Fail
    <3> QED
      BY <2>1, <2>4, <3>1, <3>2 DEF planStage
  <2>5. ~begin(r)
    BY <2>1, <2>4 DEF begin, Fail, runStep
  <2>6. tick(r) /\ stepSucceeded(r) /\ run[r].stage = "deploying" /\ commit(r)
    BY <2>1, <2>3, <2>4, <2>5 DEF tick, Fail, runStep
  <2> QED
    BY <1>1, <2>6, CommitKeeps DEF tick
<1> QED
  BY <1>1, DeployInvariant, PTL DEF DeploySpec, CommitsInOrder
=============================================================================
