-------------------------------- MODULE Alerts --------------------------------
(* One alert rule, one subject and one destination (alerts.ts,                 *)
(* alertDelivery.ts): the cron reads what breaches the rule in a query and     *)
(* applies it in a later mutation, operators change the rule in between, and   *)
(* every announcement becomes a delivery that an action sends and retries.     *)
(* Time is in minutes, and shorter than the 30 days a resolved incident stays. *)
EXTENDS Naturals, Sequences

CONSTANTS
  ForMinutes, CooldownMinutes,
  NoticeWindow,       \* incidents lastFiringNotice looks at, the new one included
  MaxSends,           \* MAX_DELIVERY_ATTEMPTS
  MaxIncidents,       \* incidents that fire
  MaxEdits,           \* changes of the rule and the destination
  MaxMinute

ASSUME AlertsAssumption ==
  {ForMinutes, CooldownMinutes, NoticeWindow, MaxSends, MaxIncidents, MaxEdits,
   MaxMinute} \subseteq Nat

VARIABLES
  minute,      \* time, from 1
  rule,        \* [on, mutedUntil, edits], edits standing for updatedAt
  incident,    \* the open one: [status, since, notifiedAt]
  resolvedOnes,\* firingNotifiedAt of the resolved ones by age, 0 when not set
  evaluation,  \* what the cron read, last at minute: [at, minute, edits, breach]
  destination, \* it is enabled
  deliveries,  \* [event, status, attempts, at]
  noticedAt    \* when a firing was last announced, 0 before

ruleVars == <<rule, incident, resolvedOnes, noticedAt>>
alertVars == <<minute, ruleVars, evaluation, destination, deliveries>>

NoIncident == [status |-> "none", since |-> 0, notifiedAt |-> 0]
NoEvaluation == [at |-> "idle", minute |-> 0, edits |-> 0, breach |-> FALSE]

AlertsInit ==
  /\ minute = 1
  /\ rule = [on |-> FALSE, mutedUntil |-> 0, edits |-> 0]
  /\ incident = NoIncident /\ resolvedOnes = <<>> /\ noticedAt = 0
  /\ evaluation = NoEvaluation
  /\ destination = TRUE
  /\ deliveries = <<>>

-----------------------------------------------------------------------------
(* Operators. Every change of the rule shows in its updatedAt.                 *)
Edited(r) == rule.edits < MaxEdits /\ rule' = [r EXCEPT !.edits = rule.edits + 1]

createRule ==
  /\ rule.edits = 0
  /\ Edited([rule EXCEPT !.on = TRUE])
  /\ UNCHANGED <<minute, incident, resolvedOnes, noticedAt, evaluation, destination,
                 deliveries>>

(* updateRule, and turning a rule on again.                                    *)
updateRule ==
  /\ rule.edits > 0
  /\ Edited([rule EXCEPT !.on = TRUE])
  /\ UNCHANGED <<minute, incident, resolvedOnes, noticedAt, evaluation, destination,
                 deliveries>>

(* Turning it off closes its incident without a word.                          *)
Resolved == IF incident.status = "firing" THEN Append(resolvedOnes, incident.notifiedAt)
            ELSE resolvedOnes
setRuleDisabled ==
  /\ rule.on
  /\ Edited([rule EXCEPT !.on = FALSE])
  /\ incident' = NoIncident
  /\ resolvedOnes' = Resolved
  /\ UNCHANGED <<minute, noticedAt, evaluation, destination, deliveries>>

muteRule(until) ==
  /\ rule.edits > 0
  /\ until = 0 \/ until > minute
  /\ Edited([rule EXCEPT !.mutedUntil = until])
  /\ UNCHANGED <<minute, incident, resolvedOnes, noticedAt, evaluation, destination,
                 deliveries>>

(* The rule goes with its incidents; a new one starts without a past.          *)
deleteRule ==
  /\ rule.edits > 0
  /\ Edited([on |-> FALSE, mutedUntil |-> 0, edits |-> 0])
  /\ incident' = NoIncident /\ resolvedOnes' = <<>> /\ noticedAt' = 0
  /\ UNCHANGED <<minute, evaluation, destination, deliveries>>

updateDestination ==
  /\ Edited(rule)
  /\ destination' = ~destination
  /\ UNCHANGED <<minute, incident, resolvedOnes, noticedAt, evaluation, deliveries>>

-----------------------------------------------------------------------------
(* The cron. What a condition says of the fleet it observes is left open.      *)
evaluateCondition == BOOLEAN

computeBreaches(breach) ==
  /\ evaluation.at = "idle" /\ evaluation.minute < minute
  /\ rule.on
  /\ breach => incident.status # "none" \/ Len(resolvedOnes) < MaxIncidents
  /\ evaluation' = [at |-> "read", minute |-> minute, edits |-> rule.edits,
                    breach |-> breach]
  /\ UNCHANGED <<minute, ruleVars, destination, deliveries>>

(* The row of an announcement, without its wording.                            *)
notificationContent(event) ==
  [event |-> event, status |-> "pending", attempts |-> 0, at |-> "scheduled"]
announce(event) ==
  deliveries' = IF destination THEN Append(deliveries, notificationContent(event)) ELSE deliveries

(* lastFiringNotice: of the newest incidents, all but the one that fires now.  *)
Considered == {i \in 1..Len(resolvedOnes) : Len(resolvedOnes) - i < NoticeWindow - 1}

(* Mutant of CoolingDown: the notices of earlier incidents are not looked at.  *)
NeverCoolingDown(now) == FALSE
CoolingDown(now) ==
  \E i \in Considered : resolvedOnes[i] # 0 /\ now - resolvedOnes[i] < CooldownMinutes

(* evaluateRule, for a breach: a new incident is pending, or fires at once; a  *)
(* firing one is announced once, unless the rule is muted or cooling down.     *)
Breached(now) ==
  CASE incident.status = "none" ->
         [status |-> IF ForMinutes = 0 THEN "firing" ELSE "pending", since |-> now,
          notifiedAt |-> 0]
    [] incident.status = "pending" /\ now - incident.since >= ForMinutes ->
         [incident EXCEPT !.status = "firing"]
    [] OTHER -> incident
Muted(now) == rule.mutedUntil > now
Announces(i, now) ==
  i.status = "firing" /\ i.notifiedAt = 0 /\ ~Muted(now) /\ ~CoolingDown(now)
evaluateBreach(now) ==
  LET i == Breached(now) IN
  /\ IF Announces(i, now)
     THEN /\ incident' = [i EXCEPT !.notifiedAt = now]
          /\ noticedAt' = now
          /\ announce("firing")
     ELSE incident' = i /\ UNCHANGED <<noticedAt, deliveries>>
  /\ UNCHANGED resolvedOnes

(* A condition that cleared: pending goes, firing resolves.                    *)
evaluateClear(now) ==
  /\ incident' = NoIncident
  /\ resolvedOnes' = Resolved
  /\ IF incident.notifiedAt # 0 /\ ~Muted(now) THEN announce("resolved")
     ELSE UNCHANGED deliveries
  /\ UNCHANGED noticedAt

(* applyBreaches skips a rule that was turned off or changed since it was read.*)
applyBreaches ==
  /\ evaluation.at = "read"
  /\ evaluation' = [NoEvaluation EXCEPT !.minute = evaluation.minute]
  /\ IF rule.on /\ rule.edits = evaluation.edits
     THEN IF evaluation.breach THEN evaluateBreach(evaluation.minute)
          ELSE evaluateClear(evaluation.minute)
     ELSE UNCHANGED <<incident, resolvedOnes, noticedAt, deliveries>>
  /\ UNCHANGED <<minute, rule, destination>>

-----------------------------------------------------------------------------
(* A delivery. The action reads the row and its destination, then sends.       *)
Sets(d, r) == deliveries' = [deliveries EXCEPT ![d] = r]
NotDelivered(r) ==
  IF r.attempts + 1 >= MaxSends
  THEN [r EXCEPT !.status = "failed", !.attempts = @ + 1, !.at = "done"]
  ELSE [r EXCEPT !.attempts = @ + 1, !.at = "scheduled"]

loadForSend(d) ==
  /\ deliveries[d].at = "scheduled"
  /\ Sets(d, IF destination THEN [deliveries[d] EXCEPT !.at = "sending"]
             ELSE [deliveries[d] EXCEPT !.status = "failed", !.attempts = @ + 1,
                                        !.at = "done"])
  /\ UNCHANGED <<minute, ruleVars, evaluation, destination>>

(* The receiver accepts, refuses for good, or is to be asked again.            *)
recordOutcome(d) ==
  /\ deliveries[d].at = "sending"
  /\ \E r \in {[deliveries[d] EXCEPT !.status = "delivered", !.attempts = @ + 1,
                                     !.at = "done"],
               [deliveries[d] EXCEPT !.status = "failed", !.attempts = @ + 1,
                                     !.at = "done"],
               NotDelivered(deliveries[d])} : Sets(d, r)
  /\ UNCHANGED <<minute, ruleVars, evaluation, destination>>

MinutePasses ==
  /\ minute < MaxMinute
  /\ minute' = minute + 1
  /\ UNCHANGED <<ruleVars, evaluation, destination, deliveries>>

-----------------------------------------------------------------------------
Sends(d) == loadForSend(d) \/ recordOutcome(d)
AlertsNext ==
  \/ createRule \/ updateRule \/ setRuleDisabled \/ deleteRule \/ updateDestination
  \/ \E until \in 0..MaxMinute : muteRule(until)
  \/ \E breach \in evaluateCondition : computeBreaches(breach)
  \/ applyBreaches
  \/ \E d \in 1..Len(deliveries) : Sends(d)
  \/ MinutePasses

AlertsSpec == AlertsInit /\ [][AlertsNext]_alertVars

(* What the cron scheduled runs.                                               *)
AlertsFairness == WF_alertVars(\E d \in 1..Len(deliveries) : Sends(d))

AlertsFairSpec == AlertsSpec /\ AlertsFairness

-----------------------------------------------------------------------------
TooSoon == noticedAt # 0 /\ noticedAt' # 0 /\ noticedAt' # noticedAt
           /\ noticedAt' - noticedAt < CooldownMinutes
NoticedLately == \E i \in 1..Len(resolvedOnes) : /\ resolvedOnes[i] # 0
                                                /\ Len(resolvedOnes) - i + 1 < NoticeWindow

(* Two firing announcements of a rule and subject are the cooldown apart       *)
(* (schema.ts, cooldownMinutes) as long as fewer incidents than                *)
(* lastFiringNotice looks at have fired since the last announcement: no edit   *)
(* of the rule, mute, late evaluation or turning it off and on again shortens  *)
(* the cooldown. After more incidents than that it may be shortened.           *)
CooldownKeptNearby == [][TooSoon => ~NoticedLately]_alertVars

(* Every delivery is delivered or given up (alertDelivery.ts).                 *)
AlertsSettled == \A d \in 1..Len(deliveries) : deliveries[d].status # "pending"
=============================================================================
