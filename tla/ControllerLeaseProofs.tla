----------------------- MODULE ControllerLeaseProofs -----------------------
(* Theorems about the controller lease, for every set of processes, every    *)
(* TTL and head start, and every bound.                                      *)
EXTENDS ControllerLease, TLAPS

USE DEF Lease, Proc, Rpc, Request, Write

LEMMA InitTypeOK == Init => TypeOK
  BY LeaseConstants DEF Init, TypeOK, NoRpc

\* What Convex does to the row keeps it a row.
LEMMA HandleType ==
  ASSUME TypeOK, NEW i \in Instances, NEW kind, NEW epoch, NEW answer,
         Handle(kind, i, epoch, answer)
  PROVE  lease' \in Lease
<1>1. ASSUME AcquireGranted(i) PROVE lease' \in Lease
  <2> DEFINE e == IF ownLease(i) THEN lease.epoch ELSE lease.epoch + 1
  <2>0. lease.epoch \in Nat /\ now \in Nat /\ TTL \in Nat
    BY LeaseConstants DEF TypeOK
  <2>1. e \in Nat /\ now + TTL \in Nat
    BY <2>0
  <2>2. lease' = [row |-> "stored", epoch |-> e, holder |-> i, expiresAt |-> now + TTL]
    BY <1>1 DEF AcquireGranted
  <2> HIDE DEF e
  <2> QED BY <2>1, <2>2
<1>2. ASSUME AcquireRefused(i) \/ AcquireStartsClock(i) PROVE lease' \in Lease
  BY <1>2 DEF TypeOK, AcquireRefused, AcquireStartsClock
<1>3. ASSUME renew(i, epoch, answer) PROVE lease' \in Lease
  BY <1>3, LeaseConstants DEF TypeOK, renew
<1>4. ASSUME release(i, epoch) PROVE lease' \in Lease
  <2>1. CASE lease' = lease
    BY <2>1 DEF TypeOK
  <2>2. CASE lease' # lease
    <3> DEFINE t == IF lease.expiresAt < now THEN lease.expiresAt ELSE now
    <3>1. lease' = [lease EXCEPT !.epoch = lease.epoch + 1, !.holder = None, !.expiresAt = t]
      BY <1>4, <2>2 DEF release
    <3>2. t \in Nat
      BY DEF TypeOK
    <3> HIDE DEF t
    <3>3. /\ lease.epoch + 1 \in Nat
          /\ lease \in Lease
      BY DEF TypeOK
    <3> QED BY <3>1, <3>2, <3>3
  <2> QED BY <2>1, <2>2
<1> QED BY <1>1, <1>2, <1>3, <1>4 DEF Handle, acquire

LEMMA AbandonType ==
  ASSUME TypeOK, NEW i \in Instances, Abandon(i)
  PROVE  rpc' \in [Instances -> Rpc] /\ late' \subseteq Request
<1>1. rpc' \in [Instances -> Rpc]
  BY DEF TypeOK, Abandon, NoRpc
<1>2. late' \subseteq Request
  <2> DEFINE r == [kind |-> rpc[i].kind, from |-> i, epoch |-> rpc[i].epoch]
  <2>1. ASSUME rpc[i].kind \in LateKinds PROVE r \in Request
    BY <2>1, LeaseConstants DEF TypeOK
  <2> QED BY <2>1 DEF TypeOK, Abandon
<1> QED BY <1>1, <1>2

LEMMA EnterType ==
  ASSUME TypeOK, NEW i \in Instances,
         NEW state \in {"standby", "serving", "unwinding", "releasing", "dead"},
         Enter(i, state)
  PROVE  proc' \in [Instances -> Proc]
<1>1. [proc[i] EXCEPT !.pc = state] \in Proc
  BY DEF TypeOK
<1>2. proc' = [proc EXCEPT ![i] = [proc[i] EXCEPT !.pc = state]]
  BY DEF Enter, TypeOK
<1> QED BY <1>1, <1>2 DEF TypeOK

LEMMA NextTypeOK == TypeOK /\ [Next]_vars => TypeOK'
<1> SUFFICES ASSUME TypeOK, [Next]_vars PROVE TypeOK'
  OBVIOUS
<1>1. ASSUME NEW i \in Instances, ProcStep(i) PROVE TypeOK'
  <2>1. CASE AskForLease(i)
    BY <2>1 DEF TypeOK, AskForLease, Send
  <2>2. CASE AcquireReply(i)
    BY <2>2, LeaseConstants DEF TypeOK, AcquireReply, NoRpc
  <2>3. CASE RequestFails(i)
    BY <2>3, AbandonType DEF TypeOK, RequestFails
  <2>4. CASE AskForRenewal(i)
    BY <2>4 DEF TypeOK, AskForRenewal, Send
  <2>5. CASE RenewReply(i)
    <3>1. rpc' \in [Instances -> Rpc]
      BY <2>5 DEF TypeOK, RenewReply, NoRpc
    <3>2. CASE Enter(i, "unwinding")
      BY <2>5, <3>1, <3>2, EnterType DEF TypeOK, RenewReply
    <3>3. CASE proc' = [proc EXCEPT ![i].expiry = rpc[i].began + TTL]
      <4>1. rpc[i].began + TTL \in Nat
        BY LeaseConstants DEF TypeOK
      <4>2. [proc[i] EXCEPT !.expiry = rpc[i].began + TTL] \in Proc
        BY <4>1 DEF TypeOK
      <4> QED BY <2>5, <3>1, <3>3, <4>2 DEF TypeOK, RenewReply
    <3> QED BY <2>5, <3>2, <3>3 DEF RenewReply
  <2>6. CASE ExpireLocally(i)
    BY <2>6, AbandonType, EnterType DEF TypeOK, ExpireLocally
  <2>7. CASE StopServing(i)
    <3> DEFINE p == [proc[i] EXCEPT !.pc = "unwinding"]
    <3>0. p \in Proc
      BY DEF TypeOK
    <3>1. [p EXCEPT !.after = "dead"] \in Proc
      <4> HIDE DEF p
      <4> QED BY <3>0
    <3>2. proc' = [proc EXCEPT ![i] = [proc[i] EXCEPT !.pc = "unwinding", !.after = "dead"]]
      BY <2>7 DEF StopServing
    <3> QED BY <2>7, <3>1, <3>2, AbandonType DEF TypeOK, StopServing
  <2>8. CASE AskForRelease(i)
    BY <2>8 DEF TypeOK, AskForRelease, Enter, Send
  <2>9. CASE ReleaseEnds(i)
    BY <2>9, AbandonType DEF TypeOK, ReleaseEnds, Enter
  <2>10. CASE Crash(i)
    BY <2>10, AbandonType, EnterType DEF TypeOK, Crash
  <2>11. CASE SendWrite(i)
    BY <2>11 DEF TypeOK, SendWrite
  <2> QED
    BY <1>1, <2>1, <2>2, <2>3, <2>4, <2>5, <2>6, <2>7, <2>8, <2>9, <2>10, <2>11 DEF ProcStep
<1>2. ASSUME NEW i \in Instances, HandleRpc(i) PROVE TypeOK'
  <2>1. lease' \in Lease
    BY <1>2, HandleType DEF HandleRpc
  <2>2. rpc' \in [Instances -> Rpc]
    <3>1. PICK answer \in {"yes", "no"} :
            rpc' = [rpc EXCEPT ![i].answer = answer,
                               ![i].epoch = IF rpc[i].kind = "acquire" THEN lease'.epoch ELSE @]
      BY <1>2 DEF HandleRpc
    <3> DEFINE e == IF rpc[i].kind = "acquire" THEN lease'.epoch ELSE rpc[i].epoch
    <3>2. rpc[i] \in Rpc /\ e \in Nat
      BY <2>1 DEF TypeOK
    <3>3. rpc' = [rpc EXCEPT ![i] = [rpc[i] EXCEPT !.answer = answer, !.epoch = e]]
      BY <3>1 DEF TypeOK
    <3> HIDE DEF e
    <3>4. [rpc[i] EXCEPT !.answer = answer, !.epoch = e] \in Rpc
      BY <3>2
    <3> QED BY <3>3, <3>4 DEF TypeOK
  <2> QED BY <1>2, <2>1, <2>2 DEF HandleRpc, TypeOK
<1>3. ASSUME NEW r \in late, HandleLate(r) PROVE TypeOK'
  <2>1. r.from \in Instances
    BY DEF TypeOK
  <2>2. lease' \in Lease
    BY <1>3, <2>1, HandleType DEF HandleLate
  <2> QED BY <1>3, <2>2 DEF HandleLate, TypeOK
<1>4. ASSUME NEW w \in writes, HandleWrite(w) PROVE TypeOK'
  BY <1>4 DEF HandleWrite, TypeOK
<1>5. ASSUME NEW w \in writes, WriteRefused(w) PROVE TypeOK'
  <2>1. w.from \in Instances
    BY DEF TypeOK
  <2> QED BY <1>5, <2>1, AbandonType, EnterType DEF WriteRefused, TypeOK
<1>6. CASE Tick
  BY <1>6 DEF Tick, TypeOK
<1>7. CASE LoseMessage
  BY <1>7 DEF LoseMessage, TypeOK
<1>8. CASE UNCHANGED vars
  BY <1>8 DEF vars, TypeOK
<1> QED BY <1>1, <1>2, <1>3, <1>4, <1>5, <1>6, <1>7, <1>8 DEF Next

\* Type correctness: no handler writes a row, and no supervisor keeps a record,
\* that the code's own types would not admit.
THEOREM LeaseTypeCorrect == Spec => []TypeOK
  BY InitTypeOK, NextTypeOK, PTL DEF Spec

-----------------------------------------------------------------------------
(* The epoch as a fencing token                                              *)

\* Under row l, epoch e is behind, or is its holder's, and the holder is j.
Claim(l, j, e) == e <= l.epoch /\ (e = l.epoch /\ l.holder # None => l.holder = j)

RowOK ==
  /\ lease.row = "absent" => lease.epoch = 0 /\ lease.holder = None
  /\ lease.expiresAt <= now + TTL

\* Every epoch a process writes with, is told or has written with is such a claim.
ProcClaims == \A i \in Instances :
  proc[i].pc \in {"serving", "unwinding"} => Claim(lease, i, proc[i].epoch)

RpcClaims == \A i \in Instances :
  rpc[i].kind = "acquire" /\ rpc[i].answer = "yes" => Claim(lease, i, rpc[i].epoch)

WriteClaims ==
  /\ \A w \in writes : Claim(lease, w.from, w.epoch)
  /\ \A w \in accepted : Claim(lease, w.from, w.epoch)

Fenced == RowOK /\ ProcClaims /\ RpcClaims /\ WriteClaims /\ EpochNamesOneWriter

LEMMA InitFenced == Init => Fenced
  BY LeaseConstants
     DEF Init, Fenced, RowOK, ProcClaims, RpcClaims, WriteClaims, EpochNamesOneWriter, NoRpc

\* What a request may do to the row: nothing that revives or shares an epoch.
LEMMA HandleRow ==
  ASSUME TypeOK, RowOK, NEW i \in Instances, NEW kind, NEW epoch, NEW answer,
         Handle(kind, i, epoch, answer)
  PROVE  /\ lease'.row = "absent" => lease'.epoch = 0 /\ lease'.holder = None
         /\ lease'.expiresAt <= now + TTL
         /\ \A j \in Instances, e \in Nat : Claim(lease, j, e) => Claim(lease', j, e)
         /\ kind = "acquire" /\ answer = "yes" => lease'.holder = i
         /\ lease.epoch <= lease'.epoch
         /\ lease'.holder # lease.holder /\ lease'.holder # None => lease.epoch < lease'.epoch
<1>0. /\ lease \in Lease /\ lease.epoch \in Nat /\ lease.expiresAt \in Nat
      /\ now \in Nat /\ TTL \in Nat
  BY LeaseConstants DEF TypeOK
<1>1. CASE UNCHANGED lease /\ ~(kind = "acquire" /\ answer = "yes")
  BY <1>0, <1>1 DEF RowOK
<1>2. CASE AcquireGranted(i)
  <2> DEFINE e == IF ownLease(i) THEN lease.epoch ELSE lease.epoch + 1
  <2>1. lease' = [row |-> "stored", epoch |-> e, holder |-> i, expiresAt |-> now + TTL]
    BY <1>2 DEF AcquireGranted
  <2>2. /\ lease'.row = "stored" /\ lease'.epoch = e /\ lease'.holder = i
        /\ lease'.expiresAt = now + TTL
    BY <2>1
  <2>3. e \in Nat /\ lease.epoch <= e /\ (lease.holder # i => lease.epoch < e)
    BY <1>0 DEF ownLease
  <2>4. e = lease.epoch => lease.holder = i
    BY <1>0 DEF ownLease
  <2> HIDE DEF e
  <2> QED BY <1>0, <2>2, <2>3, <2>4 DEF Claim
<1>3. CASE AcquireStartsClock(i) /\ answer = "no"
  <2>1. lease.epoch = 0 /\ lease.holder = None
    BY <1>3 DEF AcquireStartsClock, RowOK
  <2>2. /\ lease'.row = "stored" /\ lease'.epoch = 0 /\ lease'.holder = None
        /\ lease'.expiresAt = now
    BY <1>3 DEF AcquireStartsClock
  <2> QED BY <1>0, <1>3, <2>1, <2>2 DEF Claim
<1>4. CASE kind = "renew" /\ lease' = [lease EXCEPT !.expiresAt = now + TTL]
  <2>1. /\ lease'.row = lease.row /\ lease'.epoch = lease.epoch /\ lease'.holder = lease.holder
        /\ lease'.expiresAt = now + TTL
    BY <1>0, <1>4
  <2> QED BY <1>0, <1>4, <2>1 DEF Claim, RowOK
<1>5. CASE /\ kind = "release" /\ lease.holder = i
           /\ lease' = [lease EXCEPT !.epoch = @ + 1, !.holder = None,
                                     !.expiresAt = IF @ < now THEN @ ELSE now]
  <2>1. /\ lease'.row = lease.row /\ lease'.epoch = lease.epoch + 1 /\ lease'.holder = None
        /\ lease'.expiresAt = IF lease.expiresAt < now THEN lease.expiresAt ELSE now
    BY <1>0, <1>5
  <2> QED BY <1>0, <1>5, <2>1, LeaseConstants DEF Claim, RowOK
<1> QED BY <1>1, <1>2, <1>3, <1>4, <1>5 DEF Handle, acquire, AcquireRefused, renew, release

\* Leaving the holder's states, and giving up a request, adds no claim.
LEMMA ProcStepFenced ==
  ASSUME TypeOK, Fenced, NEW i \in Instances, ProcStep(i)
  PROVE  Fenced'
<1> USE DEF Fenced
<1>2. CASE AcquireReply(i)
  <2>1. UNCHANGED <<now, lease, writes, accepted>> /\ rpc' = [rpc EXCEPT ![i] = NoRpc]
    BY <1>2 DEF AcquireReply
  <2>2. RowOK' /\ WriteClaims' /\ EpochNamesOneWriter'
    BY <2>1 DEF RowOK, WriteClaims, EpochNamesOneWriter
  <2>3. RpcClaims'
    BY <2>1 DEF RpcClaims, NoRpc, TypeOK
  <2>4. ProcClaims'
    <3>1. CASE proc' = proc
      BY <2>1, <3>1 DEF ProcClaims
    <3>2. CASE /\ rpc[i].kind = "acquire" /\ rpc[i].answer = "yes"
               /\ proc' = [proc EXCEPT ![i] = [pc |-> "serving", epoch |-> rpc[i].epoch,
                                              expiry |-> rpc[i].began + TTL, after |-> "standby"]]
      BY <2>1, <3>2 DEF ProcClaims, RpcClaims, TypeOK
    <3> QED BY <1>2, <3>1, <3>2 DEF AcquireReply
  <2> QED BY <2>2, <2>3, <2>4
<1>3. ASSUME UNCHANGED <<now, lease, accepted>>,
             \A w \in writes' : w \in writes \/
               \E j \in Instances : /\ proc[j].pc \in {"serving", "unwinding"}
                                    /\ w.from = j /\ w.epoch = proc[j].epoch,
             \A j \in Instances : \/ rpc'[j] = rpc[j]
                                  \/ rpc'[j].kind # "acquire" \/ rpc'[j].answer # "yes",
             \A j \in Instances : proc'[j].pc \in {"serving", "unwinding"} =>
               proc[j].pc \in {"serving", "unwinding"} /\ proc'[j].epoch = proc[j].epoch
      PROVE  Fenced'
  BY <1>3 DEF RowOK, ProcClaims, RpcClaims, WriteClaims, EpochNamesOneWriter
<1> HIDE DEF Fenced
<1>1. CASE AskForLease(i) \/ AskForRenewal(i)
  BY <1>1, <1>3 DEF AskForLease, AskForRenewal, Send, TypeOK
<1>4. CASE RequestFails(i)
  BY <1>3, <1>4 DEF RequestFails, Abandon, NoRpc, TypeOK
<1>5. CASE RenewReply(i)
  BY <1>3, <1>5 DEF RenewReply, Enter, NoRpc, TypeOK
<1>6. CASE ExpireLocally(i)
  BY <1>3, <1>6 DEF ExpireLocally, Enter, Abandon, NoRpc, TypeOK
<1>7. CASE StopServing(i)
  BY <1>3, <1>7 DEF StopServing, Abandon, NoRpc, TypeOK
<1>8. CASE AskForRelease(i)
  BY <1>3, <1>8 DEF AskForRelease, Enter, Send, TypeOK
<1>9. CASE ReleaseEnds(i)
  BY <1>3, <1>9 DEF ReleaseEnds, Enter, Abandon, NoRpc, TypeOK
<1>10. CASE Crash(i)
  BY <1>3, <1>10 DEF Crash, Enter, Abandon, NoRpc, TypeOK
<1>11. CASE SendWrite(i)
  BY <1>3, <1>11 DEF SendWrite, TypeOK
<1> QED BY <1>1, <1>2, <1>4, <1>5, <1>6, <1>7, <1>8, <1>9, <1>10, <1>11 DEF ProcStep

\* Convex processes a request: the row moves on and every claim stays one.
LEMMA HandleFenced ==
  ASSUME TypeOK, Fenced, NEW i \in Instances, NEW kind, NEW epoch, NEW answer,
         Handle(kind, i, epoch, answer), UNCHANGED <<now, proc, writes, accepted>>
  PROVE  /\ RowOK' /\ ProcClaims' /\ WriteClaims' /\ EpochNamesOneWriter'
         /\ \A j \in Instances, e \in Nat : Claim(lease, j, e) => Claim(lease', j, e)
         /\ kind = "acquire" /\ answer = "yes" => Claim(lease', i, lease'.epoch)
<1>0. RowOK /\ ProcClaims /\ WriteClaims /\ EpochNamesOneWriter
  BY DEF Fenced
<1>1. /\ lease'.row = "absent" => lease'.epoch = 0 /\ lease'.holder = None
      /\ lease'.expiresAt <= now + TTL
      /\ \A j \in Instances, e \in Nat : Claim(lease, j, e) => Claim(lease', j, e)
      /\ kind = "acquire" /\ answer = "yes" => lease'.holder = i
  BY <1>0, HandleRow
<1>2. RowOK'
  BY <1>1 DEF RowOK
<1>3. ProcClaims'
  BY <1>0, <1>1 DEF ProcClaims, TypeOK
<1>4. WriteClaims' /\ EpochNamesOneWriter'
  BY <1>0, <1>1 DEF WriteClaims, EpochNamesOneWriter, TypeOK
<1>5. lease'.epoch <= lease'.epoch
  BY HandleType
<1> QED BY <1>1, <1>2, <1>3, <1>4, <1>5 DEF Claim

LEMMA NextFenced == TypeOK /\ Fenced /\ [Next]_vars => Fenced'
<1> SUFFICES ASSUME TypeOK, Fenced, [Next]_vars PROVE Fenced'
  OBVIOUS
<1>1. ASSUME NEW i \in Instances, ProcStep(i) PROVE Fenced'
  BY <1>1, ProcStepFenced
<1>2. ASSUME NEW i \in Instances, HandleRpc(i) PROVE Fenced'
  <2>1. PICK answer \in {"yes", "no"} :
          /\ Handle(rpc[i].kind, i, rpc[i].epoch, answer)
          /\ rpc' = [rpc EXCEPT ![i].answer = answer,
                                ![i].epoch = IF rpc[i].kind = "acquire" THEN lease'.epoch ELSE @]
    BY <1>2 DEF HandleRpc
  <2>2. UNCHANGED <<now, proc, writes, accepted>>
    BY <1>2 DEF HandleRpc
  <2>3. /\ RowOK' /\ ProcClaims' /\ WriteClaims' /\ EpochNamesOneWriter'
        /\ \A j \in Instances, e \in Nat : Claim(lease, j, e) => Claim(lease', j, e)
        /\ rpc[i].kind = "acquire" /\ answer = "yes" => Claim(lease', i, lease'.epoch)
    BY <2>1, <2>2, HandleFenced
  <2>4. /\ rpc'[i].kind = rpc[i].kind /\ rpc'[i].answer = answer
        /\ rpc[i].kind = "acquire" => rpc'[i].epoch = lease'.epoch
    BY <2>1 DEF TypeOK
  <2>5. \A j \in Instances \ {i} : rpc'[j] = rpc[j] /\ rpc[j].epoch \in Nat
    BY <2>1 DEF TypeOK
  <2>6. RpcClaims'
    BY <2>3, <2>4, <2>5 DEF Fenced, RpcClaims
  <2> QED BY <2>3, <2>6 DEF Fenced
<1>3. ASSUME NEW r \in late, HandleLate(r) PROVE Fenced'
  <2>1. r.from \in Instances
    BY DEF TypeOK
  <2>2. PICK answer \in {"yes", "no"} : Handle(r.kind, r.from, r.epoch, answer)
    BY <1>3 DEF HandleLate
  <2>3. UNCHANGED <<now, proc, rpc, writes, accepted>>
    BY <1>3 DEF HandleLate
  <2>4. /\ RowOK' /\ ProcClaims' /\ WriteClaims' /\ EpochNamesOneWriter'
        /\ \A j \in Instances, e \in Nat : Claim(lease, j, e) => Claim(lease', j, e)
    BY <2>1, <2>2, <2>3, HandleFenced
  <2>5. RpcClaims'
    BY <2>3, <2>4 DEF Fenced, RpcClaims, TypeOK
  <2> QED BY <2>4, <2>5 DEF Fenced
<1>4. ASSUME NEW w \in writes, HandleWrite(w) PROVE Fenced'
  <2>1. UNCHANGED <<now, lease, proc, rpc>>
    BY <1>4 DEF HandleWrite
  <2>2. RowOK' /\ ProcClaims' /\ RpcClaims'
    BY <2>1 DEF Fenced, RowOK, ProcClaims, RpcClaims
  <2>3. WriteClaims'
    BY <1>4, <2>1 DEF HandleWrite, Fenced, WriteClaims, TypeOK
  <2>4. EpochNamesOneWriter'
    <3>1. CASE UNCHANGED accepted
      BY <3>1 DEF Fenced, EpochNamesOneWriter
    <3>2. CASE authorizeController(w) /\ accepted' = accepted \cup {[from |-> w.from, epoch |-> w.epoch]}
      <4>1. lease.holder # None /\ lease.epoch = w.epoch
        BY <3>2 DEF authorizeController, Unexpired
      <4>2. lease.holder = w.from
        BY <4>1 DEF Fenced, WriteClaims, Claim
      <4>3. \A a \in accepted : a.epoch = w.epoch => a.from = w.from
        BY <4>1, <4>2 DEF Fenced, WriteClaims, Claim
      <4> QED BY <3>2, <4>3 DEF Fenced, EpochNamesOneWriter
    <3> QED BY <1>4, <3>1, <3>2 DEF HandleWrite
  <2> QED BY <2>2, <2>3, <2>4 DEF Fenced
<1>5. ASSUME NEW w \in writes, WriteRefused(w) PROVE Fenced'
  <2>1. w.from \in Instances
    BY DEF TypeOK
  <2>2. /\ UNCHANGED <<now, lease, accepted>>
        /\ writes' \subseteq writes
        /\ \A j \in Instances : rpc'[j] = rpc[j] \/ rpc'[j].kind # "acquire"
        /\ \A j \in Instances : proc'[j].pc \in {"serving", "unwinding"} =>
             proc[j].pc \in {"serving", "unwinding"} /\ proc'[j].epoch = proc[j].epoch
    BY <1>5, <2>1 DEF WriteRefused, Enter, Abandon, NoRpc, TypeOK
  <2> QED BY <2>2 DEF Fenced, RowOK, ProcClaims, RpcClaims, WriteClaims, EpochNamesOneWriter
<1>6. CASE Tick
  BY <1>6, LeaseConstants DEF Tick, TypeOK, Fenced, RowOK, ProcClaims, RpcClaims, WriteClaims, EpochNamesOneWriter
<1>7. CASE LoseMessage
  BY <1>7 DEF LoseMessage, Fenced, RowOK, ProcClaims, RpcClaims, WriteClaims, EpochNamesOneWriter
<1>8. CASE UNCHANGED vars
  BY <1>8 DEF vars, Fenced, RowOK, ProcClaims, RpcClaims, WriteClaims, EpochNamesOneWriter
<1> QED BY <1>1, <1>2, <1>3, <1>4, <1>5, <1>6, <1>7, <1>8 DEF Next

LEMMA LeaseFenced == Spec => [](TypeOK /\ Fenced)
<1>1. Init => TypeOK /\ Fenced
  BY InitTypeOK, InitFenced
<1>2. TypeOK /\ Fenced /\ [Next]_vars => (TypeOK /\ Fenced)'
  BY NextTypeOK, NextFenced
<1> QED BY <1>1, <1>2, PTL DEF Spec

\* All writes committed under an epoch are one process's, although the routes check a
\* credential that several processes share, and whatever the network does.
THEOREM OneWriterPerEpoch == Spec => []EpochNamesOneWriter
<1>1. Fenced => EpochNamesOneWriter
  BY DEF Fenced
<1> QED BY <1>1, LeaseFenced, PTL

\* Once a newer holder's write is committed, no older holder's is.
THEOREM FencingHolds == Spec => FencedInOrder
<1>1. ASSUME TypeOK, Fenced, Next
      PROVE  \A a \in accepted' \ accepted, b \in accepted : b.epoch <= a.epoch
  <2>1. ASSUME NEW w \in writes, HandleWrite(w),
               NEW a \in accepted' \ accepted, NEW b \in accepted
        PROVE  b.epoch <= a.epoch
    <3>1. a = [from |-> w.from, epoch |-> w.epoch] /\ authorizeController(w)
      BY <2>1 DEF HandleWrite
    <3>2. a.epoch = lease.epoch
      BY <3>1 DEF authorizeController
    <3> QED BY <1>1, <3>2 DEF Fenced, WriteClaims, Claim
  <2>2. ASSUME accepted' = accepted
        PROVE  \A a \in accepted' \ accepted, b \in accepted : b.epoch <= a.epoch
    BY <2>2
  <2>3. ASSUME NEW i \in Instances, ProcStep(i) \/ HandleRpc(i) PROVE accepted' = accepted
    BY <2>3 DEF ProcStep, AskForLease, AcquireReply, RequestFails, AskForRenewal, RenewReply,
                ExpireLocally, StopServing, AskForRelease, ReleaseEnds, Crash, SendWrite, HandleRpc
  <2>4. ASSUME NEW r \in late, HandleLate(r) PROVE accepted' = accepted
    BY <2>4 DEF HandleLate
  <2>5. ASSUME NEW w \in writes, WriteRefused(w) PROVE accepted' = accepted
    BY <2>5 DEF WriteRefused
  <2>6. ASSUME Tick \/ LoseMessage PROVE accepted' = accepted
    BY <2>6 DEF Tick, LoseMessage
  <2> QED BY <1>1, <2>1, <2>2, <2>3, <2>4, <2>5, <2>6 DEF Next
<1>2. TypeOK /\ Fenced /\ [Next]_vars =>
        [\A a \in accepted' \ accepted, b \in accepted : b.epoch <= a.epoch]_vars
  BY <1>1
<1> QED BY <1>2, LeaseFenced, PTL DEF Spec, FencedInOrder

\* The epoch of the row only grows, and grows with every new holder.
THEOREM EpochMonotone == Spec => EpochAdvances
<1> DEFINE Advance ==
      /\ lease.epoch <= lease'.epoch
      /\ lease'.holder # lease.holder /\ lease'.holder # None => lease.epoch < lease'.epoch
<1>1. ASSUME TypeOK, Fenced, Next PROVE Advance
  <2>1. ASSUME NEW i \in Instances, NEW kind, NEW epoch, NEW answer, Handle(kind, i, epoch, answer)
        PROVE  Advance
    BY <1>1, <2>1, HandleRow DEF Fenced
  <2>2. ASSUME lease' = lease PROVE Advance
    BY <1>1, <2>2 DEF TypeOK
  <2>3. ASSUME NEW i \in Instances, ProcStep(i) PROVE lease' = lease
    BY <2>3 DEF ProcStep, AskForLease, AcquireReply, RequestFails, AskForRenewal, RenewReply,
                ExpireLocally, StopServing, AskForRelease, ReleaseEnds, Crash, SendWrite
  <2>4. ASSUME NEW i \in Instances, HandleRpc(i) PROVE Advance
    BY <2>1, <2>4 DEF HandleRpc
  <2>5. ASSUME NEW r \in late, HandleLate(r) PROVE Advance
    <3>1. r.from \in Instances
      BY <1>1 DEF TypeOK
    <3> QED BY <2>1, <2>5, <3>1 DEF HandleLate
  <2>6. ASSUME NEW w \in writes, HandleWrite(w) \/ WriteRefused(w) PROVE lease' = lease
    BY <2>6 DEF HandleWrite, WriteRefused
  <2>7. ASSUME Tick \/ LoseMessage PROVE lease' = lease
    BY <2>7 DEF Tick, LoseMessage
  <2> HIDE DEF Advance
  <2> QED BY <1>1, <2>2, <2>3, <2>4, <2>5, <2>6, <2>7 DEF Next
<1>2. TypeOK /\ Fenced /\ [Next]_vars => [Advance]_vars
  BY <1>1
<1> QED BY <1>2, LeaseFenced, PTL DEF Spec, EpochAdvances

-----------------------------------------------------------------------------
(* Local authority                                                           *)

\* Row l is j's under epoch e, at least until x.
Backs(l, j, e, x) == l.holder = j /\ l.epoch = e /\ x <= l.expiresAt

\* Each request belongs to one state of its supervisor, and began in the past.
Waits(i) ==
  /\ rpc[i].kind = "acquire" => proc[i].pc = "standby"
  /\ rpc[i].kind = "renew" => proc[i].pc = "serving" /\ rpc[i].epoch = proc[i].epoch
  /\ rpc[i].kind = "release" => proc[i].pc = "releasing"
  /\ rpc[i].began <= now

\* What a process believes, or is about to be told, until it runs out locally.
Backed(i) ==
  /\ proc[i].pc = "serving" /\ now < proc[i].expiry =>
       Backs(lease, i, proc[i].epoch, proc[i].expiry)
  /\ rpc[i].kind \in {"acquire", "renew"} /\ rpc[i].answer = "yes" /\ now < rpc[i].began + TTL =>
       Backs(lease, i, rpc[i].epoch, rpc[i].began + TTL)

Authorised ==
  /\ RowOK
  /\ \A r \in late : r.kind # "release"
  /\ \A i \in Instances : Waits(i) /\ Backed(i)

LEMMA InitAuthorised == Init => Authorised
  BY LeaseConstants DEF Init, Authorised, RowOK, Waits, Backed, NoRpc

\* While the row backs j, a request takes it from j only if it is j's own release.
LEMMA HandleBacks ==
  ASSUME TypeOK, RowOK, NEW i \in Instances, NEW kind, NEW epoch, NEW answer,
         Handle(kind, i, epoch, answer)
  PROVE  /\ \A j \in Instances, e \in Nat, x \in Nat :
              Backs(lease, j, e, x) /\ now < x /\ ~(kind = "release" /\ i = j) => Backs(lease', j, e, x)
         /\ kind = "acquire" /\ answer = "yes" => Backs(lease', i, lease'.epoch, now + TTL)
         /\ kind = "renew" /\ answer = "yes" => Backs(lease', i, epoch, now + TTL)
<1>0. /\ lease \in Lease /\ lease.epoch \in Nat /\ lease.expiresAt \in Nat
      /\ now \in Nat /\ TTL \in Nat /\ lease.expiresAt <= now + TTL
  BY LeaseConstants DEF TypeOK, RowOK
<1>1. CASE UNCHANGED lease /\ ~(kind \in {"acquire", "renew"} /\ answer = "yes")
  BY <1>1 DEF Backs
<1>2. CASE AcquireGranted(i) /\ kind = "acquire"
  <2>1. /\ lease'.holder = i /\ lease'.expiresAt = now + TTL
        /\ lease'.epoch = IF ownLease(i) THEN lease.epoch ELSE lease.epoch + 1
    BY <1>2 DEF AcquireGranted
  <2>2. ASSUME NEW j \in Instances, NEW e \in Nat, NEW x \in Nat, Backs(lease, j, e, x), now < x
        PROVE  Backs(lease', j, e, x)
    <3>1. lease.holder = j /\ lease.epoch = e /\ x <= lease.expiresAt
      BY <2>2 DEF Backs
    <3>2. Unexpired
      BY <1>0, <2>2, <3>1, LeaseConstants DEF Unexpired
    <3>3. ownLease(i)
      BY <1>2, <3>2 DEF AcquireGranted, Held
    <3>4. i = j
      BY <3>1, <3>3 DEF ownLease
    <3>5. x <= now + TTL
      BY <1>0, <2>2, <3>1
    <3> QED BY <2>1, <3>1, <3>3, <3>4, <3>5 DEF Backs
  <2>3. now + TTL <= now + TTL
    BY <1>0
  <2> QED BY <1>2, <2>1, <2>2, <2>3 DEF Backs
<1>3. CASE AcquireStartsClock(i) /\ kind = "acquire" /\ answer = "no"
  <2>1. lease.holder = None
    BY <1>3 DEF AcquireStartsClock, RowOK
  <2> QED BY <1>3, <2>1, LeaseConstants DEF Backs
<1>4. CASE /\ kind = "renew" /\ ownLease(i) /\ lease.epoch = epoch
           /\ lease' = [lease EXCEPT !.expiresAt = now + TTL]
  <2>1. lease'.epoch = lease.epoch /\ lease'.holder = i /\ lease.holder = i /\ lease'.expiresAt = now + TTL
    BY <1>0, <1>4 DEF ownLease
  <2>2. \A x \in Nat : x <= lease.expiresAt => x <= now + TTL
    BY <1>0
  <2>3. now + TTL <= now + TTL
    BY <1>0
  <2> QED BY <1>4, <2>1, <2>2, <2>3 DEF Backs
<1>5. CASE /\ kind = "release" /\ lease.holder = i
  BY <1>5 DEF Backs
<1> QED BY <1>1, <1>2, <1>3, <1>4, <1>5 DEF Handle, acquire, AcquireRefused, renew, release

\* A step of process i that leaves the row alone only has to keep i's own facts.
LEMMA OwnStepAuthorised ==
  ASSUME TypeOK, Authorised, NEW i \in Instances, UNCHANGED <<now, lease>>,
         \A r \in late' : r.kind # "release",
         \A j \in Instances \ {i} : proc'[j] = proc[j] /\ rpc'[j] = rpc[j],
         Waits(i)', Backed(i)'
  PROVE  Authorised'
  BY DEF Authorised, RowOK, Waits, Backed

\* Giving up a request leaves nothing to be told, and no late release.
LEMMA AbandonAuthorised ==
  ASSUME TypeOK, Authorised, "release" \notin LateKinds, NEW i \in Instances, Abandon(i)
  PROVE  /\ rpc'[i].kind = "none" /\ rpc'[i].began = 0
         /\ \A j \in Instances \ {i} : rpc'[j] = rpc[j]
         /\ \A r \in late' : r.kind # "release"
  BY DEF Abandon, NoRpc, Authorised, TypeOK

\* A process that no longer serves believes nothing.
LEMMA StopAuthorised ==
  ASSUME TypeOK, Authorised, "release" \notin LateKinds, NEW i \in Instances,
         UNCHANGED <<now, lease>>, Abandon(i),
         \A j \in Instances \ {i} : proc'[j] = proc[j],
         proc'[i].pc # "serving" \/ proc'[i] = proc[i]
  PROVE  Authorised'
<1>1. /\ rpc'[i].kind = "none" /\ rpc'[i].began = 0
      /\ \A j \in Instances \ {i} : rpc'[j] = rpc[j]
      /\ \A r \in late' : r.kind # "release"
  BY AbandonAuthorised
<1>2. Waits(i)'
  BY <1>1 DEF Waits, TypeOK
<1>3. Backed(i)'
  BY <1>1 DEF Backed, Authorised
<1> QED BY <1>1, <1>2, <1>3, OwnStepAuthorised

LEMMA ProcStepAuthorised ==
  ASSUME TypeOK, Authorised, "release" \notin LateKinds, NEW i \in Instances, ProcStep(i)
  PROVE  Authorised'
<1>0. Waits(i) /\ Backed(i) /\ \A r \in late : r.kind # "release"
  BY DEF Authorised
<1>1. CASE AskForLease(i)
  <2>1. /\ proc' = proc /\ UNCHANGED <<now, lease, late>> /\ proc[i].pc = "standby"
        /\ rpc'[i] = [kind |-> "acquire", epoch |-> 0, began |-> now, answer |-> "waiting"]
        /\ \A j \in Instances \ {i} : rpc'[j] = rpc[j]
    BY <1>1 DEF AskForLease, Send, TypeOK
  <2>2. Waits(i)' /\ Backed(i)'
    BY <2>1, <1>0 DEF Waits, Backed, TypeOK
  <2> QED BY <1>0, <2>1, <2>2, OwnStepAuthorised
<1>2. CASE AcquireReply(i)
  <2>1. /\ UNCHANGED <<now, lease, late>>
        /\ rpc'[i] = NoRpc
        /\ \A j \in Instances \ {i} : rpc'[j] = rpc[j] /\ proc'[j] = proc[j]
    BY <1>2 DEF AcquireReply, TypeOK
  <2>2. Waits(i)'
    BY <2>1 DEF Waits, NoRpc, TypeOK
  <2>3. Backed(i)'
    <3>1. CASE proc' = proc
      BY <1>0, <2>1, <3>1 DEF Backed, NoRpc
    <3>2. CASE /\ rpc[i].kind = "acquire" /\ rpc[i].answer = "yes" /\ now < rpc[i].began + TTL
               /\ proc' = [proc EXCEPT ![i] = [pc |-> "serving", epoch |-> rpc[i].epoch,
                                              expiry |-> rpc[i].began + TTL, after |-> "standby"]]
      <4>1. proc'[i].epoch = rpc[i].epoch /\ proc'[i].expiry = rpc[i].began + TTL
        BY <3>2 DEF TypeOK
      <4>2. Backs(lease, i, rpc[i].epoch, rpc[i].began + TTL)
        BY <1>0, <3>2 DEF Backed
      <4> QED BY <2>1, <4>1, <4>2 DEF Backed, NoRpc
    <3> QED BY <1>2, <3>1, <3>2 DEF AcquireReply
  <2> QED BY <1>0, <2>1, <2>2, <2>3, OwnStepAuthorised
<1>3. CASE RequestFails(i)
  BY <1>3, StopAuthorised DEF RequestFails
<1>4. CASE AskForRenewal(i)
  <2>1. /\ proc' = proc /\ UNCHANGED <<now, lease, late>> /\ proc[i].pc = "serving"
        /\ rpc'[i] = [kind |-> "renew", epoch |-> proc[i].epoch, began |-> now, answer |-> "waiting"]
        /\ \A j \in Instances \ {i} : rpc'[j] = rpc[j]
    BY <1>4 DEF AskForRenewal, Send, TypeOK
  <2>2. Waits(i)' /\ Backed(i)'
    BY <2>1, <1>0 DEF Waits, Backed, TypeOK
  <2> QED BY <1>0, <2>1, <2>2, OwnStepAuthorised
<1>5. CASE RenewReply(i)
  <2>1. /\ UNCHANGED <<now, lease, late>>
        /\ rpc'[i] = NoRpc
        /\ \A j \in Instances \ {i} : rpc'[j] = rpc[j] /\ proc'[j] = proc[j]
    BY <1>5 DEF RenewReply, Enter, TypeOK
  <2>2. Waits(i)'
    BY <2>1 DEF Waits, NoRpc, TypeOK
  <2>3. Backed(i)'
    <3>1. CASE Enter(i, "unwinding")
      BY <2>1, <3>1 DEF Enter, Backed, NoRpc, TypeOK
    <3>2. CASE /\ rpc[i].kind = "renew" /\ rpc[i].answer = "yes"
               /\ proc' = [proc EXCEPT ![i].expiry = rpc[i].began + TTL]
      <4>1. proc'[i].epoch = proc[i].epoch /\ proc'[i].expiry = rpc[i].began + TTL
        BY <3>2 DEF TypeOK
      <4>2. rpc[i].epoch = proc[i].epoch
        BY <1>0, <3>2 DEF Waits
      <4>3. now < rpc[i].began + TTL => Backs(lease, i, rpc[i].epoch, rpc[i].began + TTL)
        BY <1>0, <3>2 DEF Backed
      <4> QED BY <2>1, <4>1, <4>2, <4>3 DEF Backed, NoRpc
    <3> QED BY <1>5, <3>1, <3>2 DEF RenewReply
  <2> QED BY <1>0, <2>1, <2>2, <2>3, OwnStepAuthorised
<1>6. CASE ExpireLocally(i)
  BY <1>6, StopAuthorised DEF ExpireLocally, Enter, TypeOK
<1>7. CASE StopServing(i)
  BY <1>7, StopAuthorised DEF StopServing, TypeOK
<1>8. CASE AskForRelease(i)
  <2>1. /\ UNCHANGED <<now, lease, late>> /\ proc'[i].pc = "releasing"
        /\ rpc'[i] = [kind |-> "release", epoch |-> proc[i].epoch, began |-> now, answer |-> "waiting"]
        /\ \A j \in Instances \ {i} : rpc'[j] = rpc[j] /\ proc'[j] = proc[j]
    BY <1>8 DEF AskForRelease, Enter, Send, TypeOK
  <2>2. Waits(i)' /\ Backed(i)'
    BY <2>1 DEF Waits, Backed, TypeOK
  <2> QED BY <1>0, <2>1, <2>2, OwnStepAuthorised
<1>9. CASE ReleaseEnds(i)
  BY <1>9, StopAuthorised DEF ReleaseEnds, Enter, TypeOK
<1>10. CASE Crash(i)
  BY <1>10, StopAuthorised DEF Crash, Enter, TypeOK
<1>11. CASE SendWrite(i)
  BY <1>11 DEF SendWrite, Authorised, RowOK, Waits, Backed
<1> QED BY <1>1, <1>2, <1>3, <1>4, <1>5, <1>6, <1>7, <1>8, <1>9, <1>10, <1>11 DEF ProcStep

LEMMA NextAuthorised ==
  ASSUME "release" \notin LateKinds
  PROVE  TypeOK /\ Authorised /\ [Next]_vars => Authorised'
<1> SUFFICES ASSUME TypeOK, Authorised, [Next]_vars PROVE Authorised'
  OBVIOUS
<1>0. /\ now \in Nat /\ TTL \in Nat /\ RowOK
      /\ \A j \in Instances : /\ proc[j].epoch \in Nat /\ proc[j].expiry \in Nat
                              /\ rpc[j].epoch \in Nat /\ rpc[j].began \in Nat
                              /\ rpc[j].began + TTL \in Nat
  BY LeaseConstants DEF TypeOK, Authorised
<1>1. ASSUME NEW i \in Instances, ProcStep(i) PROVE Authorised'
  BY <1>1, ProcStepAuthorised
<1>2. ASSUME NEW i \in Instances, HandleRpc(i) PROVE Authorised'
  <2>1. PICK answer \in {"yes", "no"} :
          /\ Handle(rpc[i].kind, i, rpc[i].epoch, answer)
          /\ rpc' = [rpc EXCEPT ![i].answer = answer,
                                ![i].epoch = IF rpc[i].kind = "acquire" THEN lease'.epoch ELSE @]
    BY <1>2 DEF HandleRpc
  <2>2. UNCHANGED <<now, proc, late>> /\ rpc[i].answer = "waiting"
    BY <1>2 DEF HandleRpc
  <2>3. /\ rpc'[i].kind = rpc[i].kind /\ rpc'[i].answer = answer /\ rpc'[i].began = rpc[i].began
        /\ rpc'[i].epoch = IF rpc[i].kind = "acquire" THEN lease'.epoch ELSE rpc[i].epoch
        /\ \A j \in Instances \ {i} : rpc'[j] = rpc[j]
    BY <2>1 DEF TypeOK
  <2>4. RowOK'
    BY <1>0, <2>1, <2>2, HandleRow DEF RowOK
  <2>5. /\ \A j \in Instances, e \in Nat, x \in Nat :
             Backs(lease, j, e, x) /\ now < x /\ ~(rpc[i].kind = "release" /\ i = j)
               => Backs(lease', j, e, x)
        /\ rpc[i].kind = "acquire" /\ answer = "yes" => Backs(lease', i, lease'.epoch, now + TTL)
        /\ rpc[i].kind = "renew" /\ answer = "yes" => Backs(lease', i, rpc[i].epoch, now + TTL)
    BY <1>0, <2>1, HandleBacks
  <2>6. ASSUME NEW j \in Instances PROVE Waits(j)'
    BY <2>2, <2>3 DEF Authorised, Waits
  <2>7. ASSUME NEW j \in Instances \ {i} PROVE Backed(j)'
    BY <1>0, <2>2, <2>3, <2>5 DEF Authorised, Backed
  <2>8. Backed(i)'
    <3>0. Backed(i) /\ Waits(i)
      BY DEF Authorised
    <3>1. proc[i].pc = "serving" /\ now < proc[i].expiry =>
            Backs(lease', i, proc[i].epoch, proc[i].expiry)
      <4>1. proc[i].pc = "serving" => rpc[i].kind # "release"
        BY <3>0 DEF Waits
      <4> QED BY <1>0, <2>5, <3>0, <4>1 DEF Backed
    <3>2. ASSUME NEW e, Backs(lease', i, e, now + TTL) PROVE Backs(lease', i, e, rpc[i].began + TTL)
      <4>1. lease'.expiresAt \in Nat
        BY <2>1, HandleType
      <4>2. rpc[i].began <= now
        BY <3>0 DEF Waits
      <4> QED BY <1>0, <3>2, <4>1, <4>2 DEF Backs
    <3>3. rpc[i].kind \in {"acquire", "renew"} /\ answer = "yes" =>
            Backs(lease', i, rpc'[i].epoch, rpc[i].began + TTL)
      BY <2>3, <2>5, <3>2
    <3> QED BY <2>2, <2>3, <3>1, <3>3 DEF Backed
  <2> QED BY <2>2, <2>4, <2>6, <2>7, <2>8 DEF Authorised
<1>3. ASSUME NEW r \in late, HandleLate(r) PROVE Authorised'
  <2>1. r.from \in Instances /\ r.kind # "release"
    BY DEF TypeOK, Authorised
  <2>2. PICK answer \in {"yes", "no"} : Handle(r.kind, r.from, r.epoch, answer)
    BY <1>3 DEF HandleLate
  <2>3. UNCHANGED <<now, proc, rpc>> /\ late' \subseteq late
    BY <1>3 DEF HandleLate
  <2>4. RowOK'
    BY <1>0, <2>1, <2>2, <2>3, HandleRow DEF RowOK
  <2>5. \A j \in Instances, e \in Nat, x \in Nat :
          Backs(lease, j, e, x) /\ now < x => Backs(lease', j, e, x)
    BY <1>0, <2>1, <2>2, HandleBacks
  <2>6. ASSUME NEW j \in Instances PROVE Waits(j)' /\ Backed(j)'
    BY <1>0, <2>3, <2>5 DEF Authorised, Waits, Backed
  <2> QED BY <2>3, <2>4, <2>6 DEF Authorised
<1>4. ASSUME NEW w \in writes, HandleWrite(w) PROVE Authorised'
  BY <1>4 DEF HandleWrite, Authorised, RowOK, Waits, Backed
<1>5. ASSUME NEW w \in writes, WriteRefused(w) PROVE Authorised'
  <2>1. w.from \in Instances
    BY DEF TypeOK
  <2>2. CASE UNCHANGED <<proc, rpc, late>>
    BY <1>5, <2>2 DEF WriteRefused, Authorised, RowOK, Waits, Backed
  <2>3. CASE Enter(w.from, "unwinding") /\ Abandon(w.from)
    BY <1>5, <2>1, <2>3, StopAuthorised DEF WriteRefused, Enter, TypeOK
  <2> QED BY <1>5, <2>2, <2>3 DEF WriteRefused
<1>6. CASE Tick
  BY <1>0, <1>6 DEF Tick, Authorised, RowOK, Waits, Backed, TypeOK
<1>7. CASE LoseMessage
  BY <1>7 DEF LoseMessage, Authorised, RowOK, Waits, Backed
<1>8. CASE UNCHANGED vars
  BY <1>8 DEF vars, Authorised, RowOK, Waits, Backed
<1> QED BY <1>1, <1>2, <1>3, <1>4, <1>5, <1>6, <1>7, <1>8 DEF Next

\* The holder's local count of its grant never overlaps another's, for every TTL and
\* head start and any number of processes, as long as no release arrives after its
\* client gave up on it; the run that drops this assumption shows why it is needed.
THEOREM OneAuthority ==
  ASSUME "release" \notin LateKinds
  PROVE  Spec => []SoleAuthority
<1>1. Init => TypeOK /\ Authorised
  BY InitTypeOK, InitAuthorised
<1>2. TypeOK /\ Authorised /\ [Next]_vars => (TypeOK /\ Authorised)'
  BY NextTypeOK, NextAuthorised
<1>3. Authorised => SoleAuthority
  BY DEF Authorised, Backed, Backs, SoleAuthority, Authority
<1> QED BY <1>1, <1>2, <1>3, PTL DEF Spec

\* Terms, and the writes committed under them, only ever move forward.
THEOREM TermsMoveForward == Spec => TermsInOrder
BY FencingHolds, EpochMonotone DEF TermsInOrder
=============================================================================
