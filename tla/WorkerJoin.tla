----------------------------- MODULE WorkerJoin -----------------------------
(* Joining Workers: one-time registration tokens and the requests of          *)
(* installers that use them, on several hosts and more than once              *)
(* (packages/backend/convex/machines.ts, /agents/register of http.ts, the     *)
(* registration step of installScript.ts, the retention of reconcile.ts).     *)
(*                                                                            *)
(* registerAgent is one transaction. Its answer travels: the installer may    *)
(* never hear it, and only what it hears is written to the host.              *)
EXTENDS Naturals, FiniteSets

CONSTANTS
  JoinHosts,       \* hosts; all call themselves by the same name
  JoinTokens,      \* registration tokens, in the order they are issued
  TokenTTL,        \* REGISTRATION_TOKEN_TTL_MS
  TokenKept,       \* REGISTRATION_TOKEN_RETENTION_MS
  MaxMinutes,      \* the end of time
  MaxJoins         \* requests the installers make

ASSUME JoinAssumption ==
  /\ JoinTokens \subseteq Nat
  /\ {TokenTTL, TokenKept, MaxMinutes, MaxJoins} \subseteq Nat
  /\ TokenTTL < TokenKept   \* 15 minutes, one hour

VARIABLES
  minute,
  tokenRow,    \* registrationTokens; a row that is not there is "none"
  machines,    \* the rows registration inserts: name, machine token, who asked
  creds,       \* machine tokens given so far
  joining,     \* per host: the request it waits for, or the answer on its way
  env,         \* per host: the machine token in its agent.env, 0 for none
  joins        \* requests made

joinVars == <<minute, tokenRow, machines, creds, joining, env, joins>>

NoToken == [at |-> 0, state |-> "none"]
NotJoining == [at |-> "idle"]

JoinInit ==
  /\ minute = 1 /\ tokenRow = [t \in JoinTokens |-> NoToken]
  /\ machines = {} /\ creds = 0 /\ joins = 0
  /\ joining = [h \in JoinHosts |-> NotJoining] /\ env = [h \in JoinHosts |-> 0]

-----------------------------------------------------------------------------
(* A token is random: an issued one was never issued before.                  *)
issueRegistrationToken(t) ==
  /\ tokenRow[t] = NoToken /\ \A u \in JoinTokens : u < t => tokenRow[u] # NoToken
  /\ tokenRow' = [tokenRow EXCEPT ![t] = [at |-> minute, state |-> "fresh"]]
  /\ UNCHANGED <<minute, machines, creds, joining, env, joins>>

(* An installer posts the token, with labels an admin could set or could not. *)
Ask(h, t, labels) ==
  /\ joins < MaxJoins /\ joining[h] = NotJoining /\ env[h] = 0 /\ tokenRow[t] # NoToken
  /\ joining' = [joining EXCEPT ![h] = [at |-> "asked", token |-> t, labels |-> labels]]
  /\ joins' = joins + 1
  /\ UNCHANGED <<minute, tokenRow, machines, creds, env>>

(* registerAgent's answers, in the order it checks.                           *)
Answer(t, labels) ==
  IF tokenRow[t].state \in {"none", "deleted"} THEN "401"
  ELSE IF tokenRow[t].state = "used" THEN "409"
  ELSE IF minute - tokenRow[t].at >= TokenTTL THEN "410"
  ELSE IF labels = "bad" THEN "400" ELSE "201"

(* The host's own name, or with the first suffix that is free.                *)
TakenNames == {m.name : m \in machines}
OwnName == 1   \* a mutant: the name is not looked up
FreeName == CHOOSE n \in 1 .. Cardinality(machines) + 1 :
              n \notin TakenNames /\ \A k \in 1 .. (n - 1) : k \in TakenNames

(* The token is spent in the transaction that inserts the row.                *)
SpentLater(t) == tokenRow   \* a mutant: the token is not marked
Spent(t) == [tokenRow EXCEPT ![t].state = "used"]

registerAgent(h) ==
  LET r == joining[h]
      a == Answer(r.token, r.labels)
  IN /\ r.at = "asked"
     /\ joining' = [joining EXCEPT ![h] = [at |-> "answered", answer |-> a, cred |-> creds + 1]]
     /\ \/ /\ a = "201"
           /\ tokenRow' = Spent(r.token) /\ creds' = creds + 1
           /\ machines' = machines \cup
                {[name |-> FreeName, cred |-> creds + 1, host |-> h, by |-> r.token,
                  age |-> minute - tokenRow[r.token].at]}
        \/ a # "201" /\ UNCHANGED <<tokenRow, creds, machines>>
     /\ UNCHANGED <<minute, env, joins>>

(* The installer hears: it writes the machine token, or fails. Its file was   *)
(* removed with the previous directory, so a failure leaves none.             *)
Hear(h) ==
  /\ joining[h].at = "answered"
  /\ joining' = [joining EXCEPT ![h] = NotJoining]
  /\ env' = IF joining[h].answer = "201" THEN [env EXCEPT ![h] = joining[h].cred] ELSE env
  /\ UNCHANGED <<minute, tokenRow, machines, creds, joins>>

(* The request or its answer is lost, the deployment answers 500 for want of  *)
(* its own URL, or the installer is killed: the operator runs it again.       *)
GiveUp(h) ==
  /\ joining[h] # NotJoining
  /\ joining' = [joining EXCEPT ![h] = NotJoining]
  /\ UNCHANGED <<minute, tokenRow, machines, creds, env, joins>>

(* Reconcile deletes tokens past their retention, and used ones at once.      *)
OldTokens == {t \in JoinTokens : tokenRow[t] # NoToken /\ tokenRow[t].state # "deleted"
                 /\ (minute >= tokenRow[t].at + TokenKept \/ tokenRow[t].state = "used")}
purgeTokens ==
  /\ OldTokens # {}
  /\ tokenRow' = [t \in JoinTokens |-> IF t \in OldTokens THEN [tokenRow[t] EXCEPT !.state = "deleted"]
                                       ELSE tokenRow[t]]
  /\ UNCHANGED <<minute, machines, creds, joining, env, joins>>

MinutePasses ==
  /\ minute < MaxMinutes /\ minute' = minute + 1
  /\ UNCHANGED <<tokenRow, machines, creds, joining, env, joins>>

JoinNext ==
  \/ \E t \in JoinTokens : issueRegistrationToken(t)
  \/ \E h \in JoinHosts, t \in JoinTokens, l \in {"good", "bad"} : Ask(h, t, l)
  \/ \E h \in JoinHosts : registerAgent(h) \/ Hear(h) \/ GiveUp(h)
  \/ purgeTokens
  \/ MinutePasses

JoinSpec == JoinInit /\ [][JoinNext]_joinVars

-----------------------------------------------------------------------------
(* A registration token admits one Worker, while it is fresh, whoever else    *)
(* asks with it, whatever answers are lost and although its used row is soon  *)
(* deleted (machines.ts registerAgent, reconcile.ts).                         *)
OneWorkerPerToken ==
  \A v \in machines : v.age < TokenTTL /\ \A w \in machines : v.by = w.by => v = w

(* Workers keep distinct names and distinct machine tokens, and a host that   *)
(* says it joined holds the token of a row that was made for it.              *)
WorkersDistinct ==
  /\ \A v, w \in machines : (v.name = w.name \/ v.cred = w.cred) => v = w
  /\ \A h \in JoinHosts : env[h] # 0 => \E w \in machines : w.cred = env[h] /\ w.host = h

WorkersJoinOnce == OneWorkerPerToken /\ WorkersDistinct
=============================================================================
