--------------------------- MODULE ControllerLease ---------------------------
(* The controller lease of one Profile (ADR 0014): the Convex row that says   *)
(* which controller process may serve the Profile (controllerLease.ts), the   *)
(* LeaseSupervisor loop of every candidate process (lease.go), and the HTTP   *)
(* calls between them, which may be delayed, lost, or processed after the     *)
(* client gave up on them.                                                    *)
(*                                                                            *)
(* Convex mutations are serialisable transactions, so every handler is one    *)
(* action. Time is a global clock; every deadline of a process is an interval *)
(* it counts from its own request, so clock skew between hosts plays no part. *)
(* A process may be paused for any time between two of its steps.             *)
EXTENDS Naturals, FiniteSets

CONSTANTS
  Instances,   \* controller processes; a restarted process is another instance
  Identities,  \* credentials: one per Worker, and the shared controller token
  IdentityOf,  \* the credential each instance calls with
  Poor,        \* identities whose fresh benchmark rates the network as poor
  None,        \* no holder
  TTL,         \* LEASE_TTL_MS
  HeadStart,   \* POOR_NETWORK_HEAD_START_MS
  LateKinds,   \* requests the network may deliver after the client gave up
  MaxTime, MaxEpoch, MaxWrites  \* bounds of the checked instances

ASSUME LeaseConstants ==
  /\ IdentityOf \in [Instances -> Identities]
  /\ Poor \subseteq Identities
  /\ None \notin Instances
  /\ TTL \in Nat \ {0}
  /\ HeadStart \in Nat
  /\ LateKinds \subseteq {"acquire", "renew", "release"}
  /\ MaxTime \in Nat /\ MaxEpoch \in Nat /\ MaxWrites \in Nat

VARIABLES
  now,       \* the clock
  lease,     \* the controllerLeases row of the Profile
  proc,      \* each process: where its supervisor is, its epoch, its local expiry
  rpc,       \* each process's outstanding lease request and the answer to it
  late,      \* abandoned requests the server has not processed yet
  writes,    \* fenced writes in flight, and refusals on their way back
  accepted   \* history: the fenced writes Convex has committed

vars == <<now, lease, proc, rpc, late, writes, accepted>>

Request == [kind : {"acquire", "renew", "release"}, from : Instances, epoch : Nat]
Write   == [from : Instances, epoch : Nat]

\* The doc type of a lease row; `row` says whether the table has one.
Lease == [row : {"absent", "stored"}, epoch : Nat, holder : Instances \cup {None}, expiresAt : Nat]

Proc == [pc : {"standby", "serving", "unwinding", "releasing", "dead"},
         epoch : Nat, expiry : Nat, after : {"standby", "dead"}]

Rpc == [kind : {"none", "acquire", "renew", "release"}, epoch : Nat, began : Nat,
        answer : {"waiting", "yes", "no"}]

NoRpc == [kind |-> "none", epoch |-> 0, began |-> 0, answer |-> "waiting"]

TypeOK ==
  /\ now \in Nat
  /\ lease \in Lease
  /\ proc \in [Instances -> Proc]
  /\ rpc \in [Instances -> Rpc]
  /\ late \subseteq Request
  /\ writes \subseteq [from : Instances, epoch : Nat, state : {"sent", "refused"}]
  /\ accepted \subseteq Write

Init ==
  /\ now = 0
  /\ lease = [row |-> "absent", epoch |-> 0, holder |-> None, expiresAt |-> 0]
  /\ proc = [i \in Instances |-> [pc |-> "standby", epoch |-> 0, expiry |-> 0, after |-> "standby"]]
  /\ rpc = [i \in Instances |-> NoRpc]
  /\ late = {}
  /\ writes = {}
  /\ accepted = {}

-----------------------------------------------------------------------------
(* Convex: controllerLease.ts                                                *)

Unexpired == lease.holder # None /\ lease.expiresAt > now

\* Same process, same credential, unexpired: this acquire keeps the epoch.
ownLease(i) == Unexpired /\ lease.holder = i

Held(i) == Unexpired /\ ~ownLease(i)

FreeSince == IF lease.row = "stored" /\ lease.expiresAt < now THEN lease.expiresAt ELSE now

\* A poor candidate waits out the head start that began when the lease freed.
InHeadStart(i) ==
  ~ownLease(i) /\ IdentityOf[i] \in Poor /\ now - FreeSince < HeadStart

\* Every acquire answered with `granted: false` that writes nothing: the lease is
\* held, or in its head start, or the Profile and Worker rows, which other parts
\* of the system change at any time, do not let this candidate in (unknown, paused
\* or incomplete Profile, Worker not ready or incapable).
AcquireRefused(i) == UNCHANGED lease

\* The first poor candidate of a Profile nobody has held starts the clock.
AcquireStartsClock(i) ==
  /\ InHeadStart(i)
  /\ lease.row = "absent"
  /\ lease' = [row |-> "stored", epoch |-> 0, holder |-> None, expiresAt |-> now]

\* Mutant: an expired grant of another process is taken over under its epoch.
AcquireGrantedKeepsEpoch(i) ==
  /\ ~Held(i)
  /\ ~InHeadStart(i)
  /\ lease.holder # None \/ lease.epoch < MaxEpoch
  /\ lease' = [row |-> "stored",
               epoch |-> IF lease.holder # None THEN lease.epoch ELSE lease.epoch + 1,
               holder |-> i,
               expiresAt |-> now + TTL]

AcquireGranted(i) ==
  /\ ~Held(i)
  /\ ~InHeadStart(i)
  /\ ownLease(i) \/ lease.epoch < MaxEpoch
  /\ lease' = [row |-> "stored",
               epoch |-> IF ownLease(i) THEN lease.epoch ELSE lease.epoch + 1,
               holder |-> i,
               expiresAt |-> now + TTL]

acquire(i, answer) ==
  \/ answer = "yes" /\ AcquireGranted(i)
  \/ answer = "no" /\ (AcquireRefused(i) \/ AcquireStartsClock(i))

renew(i, epoch, answer) ==
  \/ /\ answer = "yes"
     /\ ownLease(i)
     /\ lease.epoch = epoch
     /\ lease' = [lease EXCEPT !.expiresAt = now + TTL]
  \/ /\ answer = "no"
     /\ ~(ownLease(i) /\ lease.epoch = epoch)
     /\ UNCHANGED lease

\* Mutant: releasing deletes the row, and with it the epoch it had reached.
ReleaseForgetsRow(i, epoch) ==
  \/ /\ lease.holder = i /\ lease.epoch = epoch
     /\ lease' = [lease EXCEPT !.row = "absent", !.epoch = 0, !.holder = None, !.expiresAt = 0]
  \/ ~(lease.holder = i /\ lease.epoch = epoch) /\ UNCHANGED lease

\* Mutant: releasing clears the expiry with the other fields of the grant.
ReleaseClearsExpiry(i, epoch) ==
  \/ /\ lease.holder = i /\ lease.epoch = epoch
     /\ lease' = [lease EXCEPT !.epoch = @ + 1, !.holder = None, !.expiresAt = None]
  \/ ~(lease.holder = i /\ lease.epoch = epoch) /\ UNCHANGED lease

\* No expiry check: the holder of an expired row may still release it.
release(i, epoch) ==
  \/ /\ lease.holder = i /\ lease.epoch = epoch
     /\ lease' = [lease EXCEPT !.epoch = @ + 1, !.holder = None,
                               !.expiresAt = IF @ < now THEN @ ELSE now]
  \/ ~(lease.holder = i /\ lease.epoch = epoch) /\ UNCHANGED lease

\* One lease request of process i, carrying `epoch`, and Convex's answer to it.
Handle(kind, i, epoch, answer) ==
  \/ kind = "acquire" /\ acquire(i, answer)
  \/ kind = "renew" /\ renew(i, epoch, answer)
  \/ kind = "release" /\ answer = "yes" /\ release(i, epoch)

\* Mutant: the route checks that the caller's Worker holds the lease, not the epoch.
AuthorizeIgnoresEpoch(w) ==
  /\ Unexpired
  /\ IdentityOf[lease.holder] = IdentityOf[w.from]

\* The check of every controller route: the credential, the epoch, the expiry.
\* It does not look at the instance.
authorizeController(w) ==
  /\ Unexpired
  /\ IdentityOf[lease.holder] = IdentityOf[w.from]
  /\ lease.epoch = w.epoch

\* A grant answers with the epoch it grants; other answers keep the request's.
HandleRpc(i) ==
  /\ rpc[i].kind # "none" /\ rpc[i].answer = "waiting"
  /\ \E answer \in {"yes", "no"} :
       /\ Handle(rpc[i].kind, i, rpc[i].epoch, answer)
       /\ rpc' = [rpc EXCEPT ![i].answer = answer,
                             ![i].epoch = IF rpc[i].kind = "acquire" THEN lease'.epoch ELSE @]
  /\ UNCHANGED <<now, proc, late, writes, accepted>>

\* A request whose client no longer waits is processed all the same.
HandleLate(r) ==
  /\ \E answer \in {"yes", "no"} : Handle(r.kind, r.from, r.epoch, answer)
  /\ late' = late \ {r}
  /\ UNCHANGED <<now, proc, rpc, writes, accepted>>

\* A controller write: committed with the check, or refused with status 412.
HandleWrite(w) ==
  /\ w.state = "sent"
  /\ \/ /\ authorizeController(w)
        /\ accepted' = accepted \cup {[from |-> w.from, epoch |-> w.epoch]}
        /\ writes' = writes \ {w}
     \/ /\ ~authorizeController(w)
        /\ writes' = (writes \ {w}) \cup {[w EXCEPT !.state = "refused"]}
        /\ UNCHANGED accepted
  /\ UNCHANGED <<now, lease, proc, rpc, late>>

-----------------------------------------------------------------------------
(* The controller process: LeaseSupervisor.Run and keepLease, lease.go       *)

Enter(i, state) == proc' = [proc EXCEPT ![i].pc = state]

Send(i, kind, epoch) ==
  /\ rpc[i].kind = "none"
  /\ rpc' = [rpc EXCEPT ![i] = [kind |-> kind, epoch |-> epoch, began |-> now,
                                answer |-> "waiting"]]

\* The client stops waiting. A request the server has not processed is lost or,
\* for the kinds the network may delay that long, still on its way.
Abandon(i) ==
  /\ rpc' = [rpc EXCEPT ![i] = NoRpc]
  /\ \/ UNCHANGED late
     \/ /\ rpc[i].kind \in LateKinds /\ rpc[i].answer = "waiting"
        /\ late' = late \cup {[kind |-> rpc[i].kind, from |-> i, epoch |-> rpc[i].epoch]}

AskForLease(i) ==
  /\ proc[i].pc = "standby"
  /\ Send(i, "acquire", 0)
  /\ UNCHANGED <<now, lease, proc, late, writes, accepted>>

\* The reply to an acquire. A grant that arrives after its own TTL, counted from
\* when the request began, conveys no authority.
AcquireReply(i) ==
  /\ rpc[i].kind = "acquire" /\ rpc[i].answer # "waiting"
  /\ proc' = IF rpc[i].answer = "yes" /\ now < rpc[i].began + TTL
             THEN [proc EXCEPT ![i] = [pc |-> "serving", epoch |-> rpc[i].epoch,
                                       expiry |-> rpc[i].began + TTL, after |-> "standby"]]
             ELSE proc
  /\ rpc' = [rpc EXCEPT ![i] = NoRpc]
  /\ UNCHANGED <<now, lease, late, writes, accepted>>

\* An acquire or a renewal fails without an answer (network error, client timeout).
RequestFails(i) ==
  /\ rpc[i].kind \in {"acquire", "renew"}
  /\ Abandon(i)
  /\ UNCHANGED <<now, lease, proc, writes, accepted>>

AskForRenewal(i) ==
  /\ proc[i].pc = "serving" /\ now < proc[i].expiry
  /\ Send(i, "renew", proc[i].epoch)
  /\ UNCHANGED <<now, lease, proc, late, writes, accepted>>

\* Mutant: the extension is counted from when the reply arrived.
RenewReplyCountsFromReceipt(i) ==
  /\ proc[i].pc = "serving"
  /\ rpc[i].kind = "renew" /\ rpc[i].answer # "waiting"
  /\ \/ /\ rpc[i].answer = "yes"
        /\ proc' = [proc EXCEPT ![i].expiry = now + TTL]
     \/ rpc[i].answer = "no" /\ Enter(i, "unwinding")
  /\ rpc' = [rpc EXCEPT ![i] = NoRpc]
  /\ UNCHANGED <<now, lease, late, writes, accepted>>

\* The grant is extended from when the renewal began; a lost lease stops the holder.
RenewReply(i) ==
  /\ proc[i].pc = "serving"
  /\ rpc[i].kind = "renew" /\ rpc[i].answer # "waiting"
  /\ \/ /\ rpc[i].answer = "yes"
        /\ proc' = [proc EXCEPT ![i].expiry = rpc[i].began + TTL]
     \/ rpc[i].answer = "no" /\ Enter(i, "unwinding")
  /\ rpc' = [rpc EXCEPT ![i] = NoRpc]
  /\ UNCHANGED <<now, lease, late, writes, accepted>>

\* keepLease returns at the local expiry, even while a renewal hangs: its request
\* is cancelled and so is the holder.
ExpireLocally(i) ==
  /\ proc[i].pc = "serving" /\ now >= proc[i].expiry
  /\ Enter(i, "unwinding")
  /\ Abandon(i)
  /\ UNCHANGED <<now, lease, writes, accepted>>

\* RunHolder failed by itself or the process was told to stop: the supervisor
\* returns once it has released the lease.
StopServing(i) ==
  /\ proc[i].pc = "serving"
  /\ proc' = [proc EXCEPT ![i] = [@ EXCEPT !.pc = "unwinding", !.after = "dead"]]
  /\ Abandon(i)
  /\ UNCHANGED <<now, lease, writes, accepted>>

\* RunHolder has closed its GitHub session and returned: only now release.
AskForRelease(i) ==
  /\ proc[i].pc = "unwinding"
  /\ Enter(i, "releasing")
  /\ Send(i, "release", proc[i].epoch)
  /\ UNCHANGED <<now, lease, late, writes, accepted>>

\* The release was answered or timed out after five seconds. The loop goes on
\* unless the process is stopping.
ReleaseEnds(i) ==
  /\ proc[i].pc = "releasing"
  /\ Enter(i, proc[i].after)
  /\ Abandon(i)
  /\ UNCHANGED <<now, lease, writes, accepted>>

Crash(i) ==
  /\ proc[i].pc # "dead"
  /\ Enter(i, "dead")
  /\ Abandon(i)
  /\ UNCHANGED <<now, lease, writes, accepted>>

\* Every write of a holder carries its epoch, also while it unwinds (the last
\* heartbeat and calls in progress outlive holderCtx).
SendWrite(i) ==
  /\ proc[i].pc \in {"serving", "unwinding"}
  /\ Cardinality(writes) < MaxWrites
  /\ writes' = writes \cup {[from |-> i, epoch |-> proc[i].epoch, state |-> "sent"]}
  /\ UNCHANGED <<now, lease, proc, rpc, late, accepted>>

\* A 412 on any route calls onLeaseLost, which cancels the holder of that grant.
WriteRefused(w) ==
  /\ w.state = "refused"
  /\ writes' = writes \ {w}
  /\ IF proc[w.from].pc = "serving" /\ proc[w.from].epoch = w.epoch
     THEN Enter(w.from, "unwinding") /\ Abandon(w.from)
     ELSE UNCHANGED <<proc, rpc, late>>
  /\ UNCHANGED <<now, lease, accepted>>

-----------------------------------------------------------------------------
(* The environment                                                           *)

Tick ==
  /\ now < MaxTime
  /\ now' = now + 1
  /\ UNCHANGED <<lease, proc, rpc, late, writes, accepted>>

\* A write, a refusal or a late request the network drops.
LoseMessage ==
  /\ \/ \E w \in writes : writes' = writes \ {w} /\ UNCHANGED late
     \/ \E r \in late : late' = late \ {r} /\ UNCHANGED writes
  /\ UNCHANGED <<now, lease, proc, rpc, accepted>>

ProcStep(i) ==
  \/ AskForLease(i) \/ AcquireReply(i) \/ RequestFails(i)
  \/ AskForRenewal(i) \/ RenewReply(i)
  \/ ExpireLocally(i) \/ StopServing(i)
  \/ AskForRelease(i) \/ ReleaseEnds(i) \/ Crash(i) \/ SendWrite(i)

Next ==
  \/ \E i \in Instances : ProcStep(i) \/ HandleRpc(i)
  \/ \E r \in late : HandleLate(r)
  \/ \E w \in writes : HandleWrite(w) \/ WriteRefused(w)
  \/ Tick \/ LoseMessage

Spec == Init /\ [][Next]_vars
-----------------------------------------------------------------------------
(* What the lease promises                                                   *)

\* Process i runs a holder whose grant has not run out on its own clock.
Authority(i) == proc[i].pc = "serving" /\ now < proc[i].expiry

\* At most one process at a time runs a holder it has a right to run: the local
\* count of the TTL from the start of the request (keepLease) never outlives the
\* row's expiry, and nobody else is granted the lease before it. ADR 0014,
\* Decision: "Exactly one of them, the lease holder, holds GitHub's scale-set
\* session for that Profile at a time."
SoleAuthority ==
  \A i, j \in Instances : Authority(i) /\ Authority(j) => i = j

\* authorizeController compares a credential and an epoch, never an instance, so
\* two processes of one Worker, or two controller-token hosts, are told apart by
\* the epoch alone: all the writes Convex commits under an epoch are one process's.
EpochNamesOneWriter ==
  \A a, b \in accepted : a.epoch = b.epoch => a.from = b.from

\* Fencing: once a write of a newer holder is committed, no write of an older one
\* is, however long it was in flight.
FencedInOrder ==
  [][\A a \in accepted' \ accepted, b \in accepted : b.epoch <= a.epoch]_vars

\* The row's epoch never goes down, and every change of its holder raises it.
EpochAdvances ==
  [][/\ lease.epoch <= lease'.epoch
     /\ lease'.holder # lease.holder /\ lease'.holder # None => lease.epoch < lease'.epoch]_vars

\* Terms and the writes committed under them only ever move forward.
TermsInOrder == FencedInOrder /\ EpochAdvances
=============================================================================
