------------------------------ MODULE EgressGuard ------------------------------
(* The per-guest egress state of one guest address on a Worker                 *)
(* (runtime/internal/egress/guard.go, resolver.go; the batches it applies are  *)
(* netpolicy/elements.go). CNI gives an address to the next microVM as soon as *)
(* the last one stopped, before its state is taken out of the kernel. Register,*)
(* Claim, Unregister and Restore of the address exclude each other by its      *)
(* barrier; the resolver and the readers of the table only take a guest's own  *)
(* lock.                                                                       *)
EXTENDS Naturals

CONSTANTS
  Guests,      \* the microVMs that get the address one after the other
  Observed,    \* those whose flows are recorded
  Restricted,  \* those confined to an allowlist
  Dests,       \* addresses allowed names resolve to
  Upsets,      \* what happens: "nft", "list", "reload"
  MaxUpsets    \* how often

ASSUME EgressAssumption ==
  /\ Restricted \subseteq Observed /\ Observed \subseteq Guests
  /\ "none" \notin Guests
  /\ MaxUpsets \in Nat

VARIABLES
  machine,    \* a microVM: "new", "booting", "running", "stopped" or "gone"
  parkedVM,   \* the guests no Attempt has claimed
  current,  \* the guest Guard.guests holds for the address
  closed,     \* guests whose record is closed
  resolved,   \* per guest, the addresses admitted or attempted
  stale,      \* Guard.stale: [dirty, state]
  kernel,     \* the elements for the address in the table's sets
  barrier,    \* the operation that holds the address: [op, guest, state]
  dns,        \* a query being forwarded, by the record it was looked up in
  watch,      \* the check of the live table: [at, before, seen]
  shaken,     \* guests that ran while the table was reloaded
  recorded,   \* per guest, whose flows its Attempt's record holds
  upsets

egressVars == <<machine, parkedVM, current, closed, resolved, stale, kernel,
                barrier, dns, watch, shaken, recorded, upsets>>

(* RegistrationBatch: the link binding, and membership as the policy needs.    *)
RegistrationBatch(g) ==
  {<<"link", g>>} \cup (IF g \in Restricted THEN {<<"restricted", "address">>} ELSE {})
                  \cup (IF g \in Observed THEN {<<"observed", "address">>} ELSE {})
Flows == {<<kind, g>> : kind \in {"flow", "parked"}, g \in Guests}
Allowed(ds) == {<<"allow", d>> : d \in ds}
closeLocked(g) == RegistrationBatch(g) \cup Allowed(resolved[g])

Clean == [dirty |-> FALSE, state |-> {}]
Dirty(state) == [dirty |-> TRUE, state |-> state]
NoOp == [op |-> "none", guest |-> "none", state |-> {}]
Unlocked == barrier = NoOp

EgressInit ==
  /\ machine = [g \in Guests |-> "new"]
  /\ parkedVM = Guests
  /\ current = "none" /\ closed = {}
  /\ resolved = [g \in Guests |-> {}]
  /\ stale = Clean
  /\ kernel = {}
  /\ barrier = NoOp
  /\ dns = "none"
  /\ watch = [at |-> "idle", before |-> "none", seen |-> {}]
  /\ shaken = {}
  /\ recorded = [g \in Guests |-> {}]
  /\ upsets = 0

Upset(kind) == kind \in Upsets /\ upsets < MaxUpsets /\ upsets' = upsets + 1

(* Apply is one transaction. An error may be a lost acknowledgement.           *)
Applied(k) == kernel' = k /\ UNCHANGED upsets
ApplyFails(k) == Upset("nft") /\ kernel' \in {kernel, k}

-----------------------------------------------------------------------------
(* Register, before the microVM runs any code. The address is its own: the     *)
(* microVM that had it has stopped. A guest still current is closed first.   *)
Register(g) ==
  /\ Unlocked
  /\ machine[g] = "new"
  /\ \A h \in Guests : machine[h] \notin {"booting", "running"}
  /\ machine' = [machine EXCEPT ![g] = "booting"]
  /\ barrier' = [op |-> "register", guest |-> g, state |-> {}]
  /\ current' = "none"
  /\ IF current # "none"
     THEN /\ closed' = closed \cup {current}
          /\ stale' = Dirty(closeLocked(current))
     ELSE UNCHANGED <<closed, stale>>
  /\ UNCHANGED <<parkedVM, resolved, kernel, dns, watch, shaken, recorded, upsets>>

(* Whatever the last guest left is purged before anything is added, its flows  *)
(* as listed from the kernel.                                                  *)
purge(g) ==
  /\ barrier.op = "register" /\ barrier.guest = g /\ stale.dirty
  /\ \/ /\ Applied(kernel \ (stale.state \cup Flows))
        /\ stale' = Clean
        /\ UNCHANGED <<barrier, machine>>
     \/ /\ \/ ApplyFails(kernel \ (stale.state \cup Flows))
           \/ Upset("list") /\ UNCHANGED kernel
        /\ barrier' = NoOp
        /\ machine' = [machine EXCEPT ![g] = "gone"]
        /\ UNCHANGED stale
  /\ UNCHANGED <<parkedVM, current, closed, resolved, dns, watch, shaken, recorded>>

RegisterApplies(g) ==
  /\ barrier.op = "register" /\ barrier.guest = g /\ ~stale.dirty
  /\ \/ /\ Applied(kernel \cup RegistrationBatch(g))
        /\ current' = g
        /\ machine' = [machine EXCEPT ![g] = "running"]
        /\ UNCHANGED stale
     \/ /\ ApplyFails(kernel \cup RegistrationBatch(g))
        /\ stale' = Dirty(RegistrationBatch(g))
        /\ machine' = [machine EXCEPT ![g] = "gone"]
        /\ UNCHANGED current
  /\ barrier' = NoOp
  /\ UNCHANGED <<parkedVM, closed, resolved, dns, watch, shaken, recorded>>

(* Claim hands a parked guest to an Attempt; what it did while parked is taken *)
(* out of the record first. A claim that fails destroys the microVM.           *)
(* Mutant of ClaimBatch: the flows of the parked guest stay.                   *)
ClaimNothing(g) == kernel
ClaimBatch(g) == IF g \in Observed THEN kernel \ Flows ELSE kernel
claimEgress(g) ==
  /\ Unlocked
  /\ machine[g] = "running" /\ g \in parkedVM
  /\ \/ /\ current = g /\ g \notin closed
        /\ Applied(ClaimBatch(g))
        /\ parkedVM' = parkedVM \ {g}
        /\ UNCHANGED machine
     \/ /\ \/ g \in Observed /\ (ApplyFails(kernel \ Flows)
                                  \/ (Upset("list") /\ UNCHANGED kernel))
           \/ current # g /\ UNCHANGED <<kernel, upsets>>
        /\ machine' = [machine EXCEPT ![g] = "stopped"]
        /\ UNCHANGED parkedVM
  /\ UNCHANGED <<current, closed, resolved, stale, barrier, dns, watch, shaken,
                 recorded>>

(* Unregister, at teardown, some time after the microVM stopped: another guest *)
(* may have the address already, and then nothing of it is touched.            *)
(* Mutant of Holds: whoever has the address is unregistered.                   *)
HoldsAnybody(g) == current # "none"
Holds(g) == current = g
Unregister(g) ==
  /\ Unlocked
  /\ machine[g] = "stopped"
  /\ machine' = [machine EXCEPT ![g] = "gone"]
  /\ IF Holds(g)
     THEN /\ closed' = closed \cup {g}
          /\ current' = "none"
          /\ barrier' = [op |-> "unregister", guest |-> g, state |-> closeLocked(g)]
     ELSE UNCHANGED <<closed, current, barrier>>
  /\ UNCHANGED <<parkedVM, resolved, stale, kernel, dns, watch, shaken, recorded, upsets>>

(* The rest of Unregister: flows are listed for the record and removed with    *)
(* the rest; flows that could not be listed are left for a purge.              *)
RecordOf(g) ==
  [recorded EXCEPT ![g] = IF g \in parkedVM THEN {} ELSE kernel \cap Flows]
UnregisterRemoves(g) ==
  /\ barrier.op = "unregister" /\ barrier.guest = g
  /\ \/ \* flows listed, or none kept, and everything removed
        /\ recorded' = IF g \in Observed THEN RecordOf(g) ELSE recorded
        /\ LET rest == kernel \ (barrier.state \cup (IF g \in Observed THEN Flows ELSE {})) IN
           \/ Applied(rest) /\ UNCHANGED stale
           \/ ApplyFails(rest) /\ stale' = Dirty(barrier.state)
     \/ \* flows not listed
        /\ g \in Observed /\ Upset("list")
        /\ kernel' = kernel \ barrier.state
        /\ stale' = Dirty({})
        /\ UNCHANGED recorded
  /\ barrier' = NoOp
  /\ UNCHANGED <<machine, parkedVM, current, closed, resolved, dns, watch, shaken>>

-----------------------------------------------------------------------------
(* The microVM: its connections are recorded by the table's own rules, as long *)
(* as the address is a member.                                                 *)
connects(g) ==
  /\ machine[g] = "running" /\ <<"observed", "address">> \in kernel
  /\ kernel' = kernel \cup {<<IF g \in parkedVM THEN "parked" ELSE "flow", g>>}
  /\ UNCHANGED <<machine, parkedVM, current, closed, resolved, stale, barrier, dns,
                 watch, shaken, recorded, upsets>>

stops(g) ==
  /\ machine[g] = "running"
  /\ machine' = [machine EXCEPT ![g] = "stopped"]
  /\ UNCHANGED <<parkedVM, current, closed, resolved, stale, kernel, barrier, dns,
                 watch, shaken, recorded, upsets>>

(* answer: the record is looked up when the query arrives, the addresses are   *)
(* admitted when upstream has answered, under the record's own lock; attempted *)
(* writes are remembered first. A closed record admits nothing.                *)
queries(g) ==
  /\ machine[g] = "running" /\ current \in Observed /\ dns = "none"
  /\ dns' = current
  /\ UNCHANGED <<machine, parkedVM, current, closed, resolved, stale, kernel, barrier,
                 watch, shaken, recorded, upsets>>

(* Mutant of AdmitsNothing: a closed record still admits.                      *)
AdmitsWhenClosed(g) == g \notin Restricted
AdmitsNothing(g) == g \in closed \/ g \notin Restricted
answer(d) ==
  /\ dns # "none"
  /\ dns' = "none"
  /\ IF AdmitsNothing(dns)
     THEN UNCHANGED <<resolved, kernel, upsets>>
     ELSE /\ resolved' = [resolved EXCEPT ![dns] = @ \cup {d}]
          /\ Applied(kernel \cup Allowed({d})) \/ ApplyFails(kernel \cup Allowed({d}))
  /\ UNCHANGED <<machine, parkedVM, current, closed, stale, barrier, watch, shaken,
                 recorded>>

-----------------------------------------------------------------------------
(* Somebody reloads the table file, which empties every set.                   *)
reload ==
  /\ Upset("reload")
  /\ kernel' = {}
  /\ shaken' = {g \in Guests : machine[g] \in {"booting", "running"}}
  /\ UNCHANGED <<machine, parkedVM, current, closed, resolved, stale, barrier, dns,
                 watch, recorded>>

(* Every ten seconds, and at every readiness check: the guests are asked for   *)
(* before and after the table is read, and one registered throughout whose     *)
(* elements are missing is restored, if it is still the one.                   *)
Registered ==
  /\ \/ /\ watch.at = "idle" /\ current # "none"
        /\ watch' = [watch EXCEPT !.at = "read", !.before = current]
     \/ /\ watch.at = "read"
        /\ watch' = [watch EXCEPT !.at = "after", !.seen = kernel]
     \/ /\ watch.at = "after"
        /\ watch' = [at |-> IF /\ watch.before = current
                               /\ ~(RegistrationBatch(watch.before) \subseteq watch.seen)
                            THEN "restore" ELSE "idle",
                     before |-> IF watch.before = current THEN watch.before ELSE "none",
                     seen |-> {}]
  /\ UNCHANGED <<machine, parkedVM, current, closed, resolved, stale, kernel, barrier,
                 dns, shaken, recorded, upsets>>

(* Mutant of SameGuest: a guest that was closed once is taken for another.     *)
SameGuestUnclosed == current = watch.before /\ closed = {}
SameGuest == current = watch.before /\ current \notin closed
restore ==
  /\ watch.at = "restore" /\ Unlocked
  /\ \/ /\ ~SameGuest
        /\ UNCHANGED <<kernel, shaken, upsets>>
     \/ /\ SameGuest
        /\ Applied(kernel \cup RegistrationBatch(current))
        /\ shaken' = shaken \ {current}
     \/ SameGuest /\ ApplyFails(kernel \cup RegistrationBatch(current)) /\ UNCHANGED shaken
  /\ watch' = [at |-> "idle", before |-> "none", seen |-> {}]
  /\ UNCHANGED <<machine, parkedVM, current, closed, resolved, stale, barrier, dns,
                 recorded>>

-----------------------------------------------------------------------------
EgressNext ==
  \/ \E g \in Guests : \/ Register(g) \/ purge(g) \/ RegisterApplies(g) \/ claimEgress(g)
                       \/ Unregister(g) \/ UnregisterRemoves(g)
                       \/ connects(g) \/ stops(g) \/ queries(g)
  \/ \E d \in Dests : answer(d)
  \/ reload \/ Registered \/ restore

EgressSpec == EgressInit /\ [][EgressNext]_egressVars

(* The check of the table goes on, and an operation that has the address ends. *)
EgressFairness ==
  /\ WF_egressVars(Registered) /\ SF_egressVars(restore)
  /\ WF_egressVars(\E g \in Guests : \/ purge(g) \/ RegisterApplies(g)
                                     \/ UnregisterRemoves(g))

EgressFairSpec == EgressSpec /\ EgressFairness

-----------------------------------------------------------------------------
(* A running guest's address carries its own elements and nobody else's: what  *)
(* an earlier guest of the address was allowed, or was restricted to, and late *)
(* answers to its queries, never apply to the next one (Register, closeLocked, *)
(* answer).                                                                    *)
OwnElementsOnly ==
  \A g \in Guests : machine[g] = "running" =>
    kernel \subseteq closeLocked(g) \cup {<<"flow", g>>, <<"parked", g>>}

(* A guest never runs outside its link binding and allowlist: nothing but a    *)
(* reload of the table takes them away, not even the late teardown of the      *)
(* guest that had the address before (Unregister).                             *)
Confined ==
  \A g \in Guests \ shaken : machine[g] = "running" => RegistrationBatch(g) \subseteq kernel

(* The record of an Attempt holds its own connections: none its microVM made   *)
(* while parked, none of an earlier guest of the address (Claim, purge).       *)
RecordIsOwn == \A g \in Guests : recorded[g] \subseteq {<<"flow", g>>}

(* A running guest has what its own registration gave it and nothing else, and *)
(* its record is of itself.                                                    *)
GuestsApart == OwnElementsOnly /\ Confined /\ RecordIsOwn

(* A reload has taken nothing from a running guest, or it is put back          *)
(* (KeepGuestElements).                                                        *)
TableSettled ==
  \A g \in Guests : machine[g] = "running" => RegistrationBatch(g) \subseteq kernel
=============================================================================
