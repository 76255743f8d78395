----------------------------- MODULE GuestProofs -----------------------------
(* Proofs about what a Worker is given and runs: EgressGuard, WarmPool and     *)
(* Placement.                                                                  *)
EXTENDS EgressGuard, WarmPool, Placement, FiniteSetTheorems, TLAPS

-----------------------------------------------------------------------------
(* EgressGuard: whatever order the operations of one guest address happen in,  *)
(* and whatever fails, a running guest has the elements of its own             *)
(* registration and nobody else's, and its record is of itself. The proof      *)
(* needs to know, at every moment, whose elements may be in the kernel: those  *)
(* of the guest that has the address, of the one being unregistered, or what   *)
(* Guard.stale says is left.                                                   *)

(* What the rules of a guest's registration can have put in the table.         *)
Own(g) == closeLocked(g) \cup (IF g \in Observed THEN {<<"flow", g>>, <<"parked", g>>}
                               ELSE {})

EgressTypes ==
  /\ machine \in [Guests -> {"new", "booting", "running", "stopped", "gone"}]
  /\ parkedVM \subseteq Guests
  /\ current \in Guests \cup {"none"}
  /\ closed \subseteq Guests
  /\ resolved \in [Guests -> SUBSET Dests]
  /\ barrier.op \in {"none", "register", "unregister"}
  /\ barrier.op # "none" => barrier.guest \in Guests
  /\ dns \in Guests \cup {"none"}
  /\ watch = [at |-> watch.at, before |-> watch.before, seen |-> watch.seen]
  /\ watch.at # "idle" => watch.before \in Guests
  /\ recorded \in [Guests -> SUBSET Flows]

(* One microVM has the address, and the barrier, the table of guests and the   *)
(* closed records agree on which.                                              *)
OneHolder ==
  /\ \A g, h \in Guests :
       machine[g] \in {"booting", "running"} /\ machine[h] \in {"booting", "running"} => g = h
  /\ \A g \in Guests : machine[g] = "booting" <=> barrier.op = "register" /\ barrier.guest = g
  /\ \A g \in Guests : machine[g] = "running" => current = g
  /\ \A g \in Guests : machine[g] \in {"new", "booting"} => g \notin closed
  /\ current # "none" => current \notin closed /\ machine[current] \in {"running", "stopped"}
  /\ barrier.op # "none" => current = "none"
  /\ barrier.op = "unregister" =>
       barrier.guest \in closed /\ barrier.state = closeLocked(barrier.guest)
  /\ dns # "none" => dns \in closed \/ dns = current

(* Everything in the kernel is accounted for.                                  *)
Accounted ==
  /\ current # "none" => kernel \subseteq Own(current)
  /\ barrier.op = "unregister" => kernel \subseteq Own(barrier.guest)
  /\ current = "none" /\ barrier.op # "unregister" =>
       kernel = {} \/ (stale.dirty /\ kernel \subseteq stale.state \cup Flows)

(* A claimed guest's flows are those since its claim.                          *)
SinceClaim == \A g \in Guests \ parkedVM : <<"parked", g>> \notin kernel

EgressInv ==
  EgressTypes /\ OneHolder /\ Accounted /\ SinceClaim /\ Confined /\ RecordIsOwn

-----------------------------------------------------------------------------
(* Registering a guest adds no flow.                                           *)
LEMMA BatchesApart ==
  ASSUME NEW g \in Guests
  PROVE  RegistrationBatch(g) \cap Flows = {}
BY DEF RegistrationBatch, Flows

(* Allowing destinations adds no flow.                                         *)
LEMMA AllowedApart ==
  ASSUME NEW ds
  PROVE  Allowed(ds) \cap Flows = {}
BY DEF Allowed, Flows

(* The flows among a guest's own elements, and what closing it removes.        *)
LEMMA OwnFlows ==
  ASSUME NEW g \in Guests
  PROVE  /\ Own(g) \cap Flows \subseteq {<<"flow", g>>, <<"parked", g>>}
         /\ Own(g) \subseteq closeLocked(g) \cup Flows
         /\ g \notin Observed => Own(g) = closeLocked(g)
         /\ closeLocked(g) \cap Flows = {}
<1>1. closeLocked(g) \cap Flows = {}
  BY BatchesApart, AllowedApart DEF closeLocked
<1>2. {<<"flow", g>>, <<"parked", g>>} \subseteq Flows
  BY DEF Flows
<1> QED BY <1>1, <1>2 DEF Own

(* Only a guest whose egress is observed has the observed element.             *)
LEMMA ObservedOwns ==
  ASSUME NEW g \in Guests, <<"observed", "address">> \in Own(g)
  PROVE  g \in Observed
BY DEF Own, closeLocked, RegistrationBatch, Allowed

-----------------------------------------------------------------------------
(* The invariant holds with no guest registered.                               *)
LEMMA InitEgressInv == EgressInit => EgressInv
BY EgressAssumption DEF EgressInit, EgressInv, EgressTypes, OneHolder, Accounted, SinceClaim,
   Confined, RecordIsOwn, NoOp, Flows

(* Every step keeps the types.                                                 *)
LEMMA NextTypes == EgressTypes /\ EgressNext => EgressTypes'
<1> SUFFICES ASSUME EgressTypes, EgressNext PROVE EgressTypes'
  OBVIOUS
<1> USE DEF EgressTypes, NoOp
<1>1. CASE \E g \in Guests : Register(g)
  BY <1>1 DEF Register
<1>2. CASE \E g \in Guests : purge(g)
  BY <1>2 DEF purge
<1>3. CASE \E g \in Guests : RegisterApplies(g)
  BY <1>3 DEF RegisterApplies
<1>4. CASE \E g \in Guests : claimEgress(g)
  BY <1>4 DEF claimEgress
<1>5. CASE \E g \in Guests : Unregister(g)
  BY <1>5 DEF Unregister
<1>6. CASE \E g \in Guests : UnregisterRemoves(g)
  <2>1. PICK g \in Guests : UnregisterRemoves(g)
    BY <1>6
  <2>2. recorded' \in [Guests -> SUBSET Flows]
    BY <2>1 DEF UnregisterRemoves, RecordOf
  <2> QED BY <2>1, <2>2 DEF UnregisterRemoves
<1>7. CASE \E g \in Guests : connects(g) \/ stops(g) \/ queries(g)
  BY <1>7 DEF connects, stops, queries
<1>8. CASE \E d \in Dests : answer(d)
  BY <1>8 DEF answer
<1>9. CASE reload
  BY <1>9 DEF reload
<1>10. CASE Registered
  <2>1. CASE watch.at = "idle" /\ current # "none"
             /\ watch' = [watch EXCEPT !.at = "read", !.before = current]
    BY <1>10, <2>1 DEF Registered
  <2>2. CASE watch.at = "read" /\ watch' = [watch EXCEPT !.at = "after", !.seen = kernel]
    BY <1>10, <2>2 DEF Registered
  <2>3. CASE /\ watch.at = "after"
             /\ watch' = [at |-> watch'.at, before |-> watch'.before, seen |-> {}]
             /\ watch'.at = "idle" \/ watch'.before = watch.before
    BY <1>10, <2>3 DEF Registered
  <2> QED BY <1>10, <2>1, <2>2, <2>3 DEF Registered
<1>11. CASE restore
  BY <1>11 DEF restore
<1> QED BY <1>1, <1>2, <1>3, <1>4, <1>5, <1>6, <1>7, <1>8, <1>9, <1>10, <1>11 DEF EgressNext

(* The addresses of a guest change only while it has the address.              *)
LEMMA ResolvedOnlyCurrent ==
  ASSUME EgressTypes, OneHolder, EgressNext, NEW h \in Guests, h # current
  PROVE  closeLocked(h)' = closeLocked(h)
<1>1. resolved'[h] = resolved[h]
  BY DEF EgressTypes, OneHolder, EgressNext, Register, purge, RegisterApplies, claimEgress,
     Unregister, UnregisterRemoves, connects, stops, queries, answer, AdmitsNothing, reload,
     Registered, restore
<1> QED BY <1>1 DEF closeLocked, RegistrationBatch

(* Every step leaves the address with one microVM at most.                     *)
LEMMA NextOneHolder == EgressTypes /\ OneHolder /\ EgressNext => OneHolder'
<1> SUFFICES ASSUME EgressTypes, OneHolder, EgressNext PROVE OneHolder'
  OBVIOUS
<1> USE EgressAssumption DEF EgressTypes, OneHolder, NoOp, Unlocked
<1>1. CASE \E g \in Guests : Register(g)
  <2>1. PICK g \in Guests : Register(g)
    BY <1>1
  <2>2. /\ machine' = [machine EXCEPT ![g] = "booting"]
        /\ barrier' = [op |-> "register", guest |-> g, state |-> {}] /\ current' = "none"
        /\ barrier.op = "none" /\ machine[g] = "new" /\ dns' = dns
        /\ \A h \in Guests : machine[h] \notin {"booting", "running"}
        /\ closed' = IF current # "none" THEN closed \cup {current} ELSE closed
    BY <2>1 DEF Register
  <2>3. current # g
    BY <2>2
  <2> QED BY <2>2, <2>3
<1>2. CASE \E g \in Guests : purge(g)
  BY <1>2 DEF purge
<1>3. CASE \E g \in Guests : RegisterApplies(g)
  BY <1>3 DEF RegisterApplies
<1>4. CASE \E g \in Guests : claimEgress(g)
  BY <1>4 DEF claimEgress
<1>5. CASE \E g \in Guests : Unregister(g)
  <2>1. PICK g \in Guests : Unregister(g)
    BY <1>5
  <2>2. closeLocked(g)' = closeLocked(g)
    BY <2>1 DEF Unregister, closeLocked
  <2> QED BY <2>1, <2>2 DEF Unregister, Holds
<1>6. CASE \E g \in Guests : UnregisterRemoves(g)
  BY <1>6 DEF UnregisterRemoves
<1>7. CASE \E g \in Guests : connects(g) \/ stops(g) \/ queries(g)
  <2>1. \A h \in Guests : closeLocked(h)' = closeLocked(h)
    BY <1>7 DEF connects, stops, queries, closeLocked
  <2> QED BY <1>7, <2>1 DEF connects, stops, queries
<1>8. CASE \E d \in Dests : answer(d)
  <2>1. \A h \in Guests : h # current => closeLocked(h)' = closeLocked(h)
    BY ResolvedOnlyCurrent
  <2> QED BY <1>8, <2>1 DEF answer
<1>9. CASE reload \/ Registered \/ restore
  <2>1. \A h \in Guests : closeLocked(h)' = closeLocked(h)
    BY <1>9 DEF reload, Registered, restore, closeLocked
  <2> QED BY <1>9, <2>1 DEF reload, Registered, restore
<1> QED BY <1>1, <1>2, <1>3, <1>4, <1>5, <1>6, <1>7, <1>8, <1>9 DEF EgressNext

-----------------------------------------------------------------------------
(* Every element of the kernel stays accounted for: an operation that cannot   *)
(* tell whether its batch was applied leaves what it would have removed, or    *)
(* added, in Guard.stale.                                                      *)
LEMMA NextAccounted == EgressTypes /\ OneHolder /\ Accounted /\ EgressNext => Accounted'
<1> SUFFICES ASSUME EgressTypes, OneHolder, Accounted, EgressNext PROVE Accounted'
  OBVIOUS
<1> USE DEF Accounted
<1>1. ASSUME NEW g \in Guests, Register(g) PROVE Accounted'
  <2>1. current # "none" => kernel \subseteq closeLocked(current) \cup Flows
    BY OwnFlows DEF EgressTypes
  <2> QED BY <1>1, <2>1 DEF Register, Dirty, OneHolder, Unlocked, NoOp
<1>2. ASSUME NEW g \in Guests, purge(g) PROVE Accounted'
  BY <1>2 DEF purge, Applied, ApplyFails, OneHolder, NoOp
<1>3. ASSUME NEW g \in Guests, RegisterApplies(g) PROVE Accounted'
  <2>1. kernel = {}
    BY <1>3 DEF RegisterApplies, OneHolder
  <2>2. RegistrationBatch(g) \subseteq Own(g)'
    BY DEF Own, closeLocked, RegistrationBatch
  <2> QED BY <1>3, <2>1, <2>2, EgressAssumption
          DEF RegisterApplies, Applied, ApplyFails, Dirty, NoOp, OneHolder
<1>4. ASSUME NEW g \in Guests, claimEgress(g) PROVE Accounted'
  <2>1. kernel' \subseteq kernel /\ Own(g)' = Own(g)
    BY <1>4 DEF claimEgress, Applied, ApplyFails, ClaimBatch, Own, closeLocked
  <2> QED BY <1>4, <2>1, EgressAssumption DEF claimEgress, OneHolder, Unlocked, NoOp
<1>5. ASSUME NEW g \in Guests, Unregister(g) PROVE Accounted'
  <2>1. \A h \in Guests : Own(h)' = Own(h)
    BY <1>5 DEF Unregister, Own, closeLocked
  <2> QED BY <1>5, <2>1, EgressAssumption
          DEF Unregister, Holds, EgressTypes, OneHolder, Unlocked, NoOp
<1>6. ASSUME NEW g \in Guests, UnregisterRemoves(g) PROVE Accounted'
  <2>1. /\ barrier.state = closeLocked(g) /\ kernel \subseteq Own(g)
        /\ current = "none" /\ current' = "none" /\ barrier' = NoOp
    BY <1>6 DEF UnregisterRemoves, OneHolder
  <2>2. kernel \subseteq barrier.state \cup (IF g \in Observed THEN Flows ELSE {})
    BY <2>1, OwnFlows
  <2> QED BY <1>6, <2>1, <2>2 DEF UnregisterRemoves, Applied, ApplyFails, Dirty, NoOp
<1>7. ASSUME NEW g \in Guests, connects(g) PROVE Accounted'
  <2>1. current = g /\ g # "none" /\ barrier.op = "none" /\ kernel \subseteq Own(g)
    BY <1>7, EgressAssumption DEF connects, OneHolder, EgressTypes
  <2>2. g \in Observed
    BY <1>7, <2>1, ObservedOwns DEF connects
  <2>3. Own(g)' = Own(g) /\ {<<"flow", g>>, <<"parked", g>>} \subseteq Own(g)
    BY <1>7, <2>2 DEF connects, Own, closeLocked
  <2> QED BY <1>7, <2>1, <2>3 DEF connects
<1>8. ASSUME NEW g \in Guests, stops(g) \/ queries(g) PROVE Accounted'
  <2>1. \A h \in Guests : Own(h)' = Own(h)
    BY <1>8 DEF stops, queries, Own, closeLocked
  <2> QED BY <1>8, <2>1 DEF stops, queries, EgressTypes
<1>9. ASSUME NEW d \in Dests, answer(d) PROVE Accounted'
  <2>1. CASE AdmitsNothing(dns)
    <3>1. \A h \in Guests : Own(h)' = Own(h)
      BY <1>9, <2>1 DEF answer, Own, closeLocked
    <3> QED BY <1>9, <2>1, <3>1 DEF answer, EgressTypes
  <2>2. CASE ~AdmitsNothing(dns)
    <3>1. dns = current /\ dns # "none" /\ dns \in Guests /\ barrier.op = "none"
      BY <1>9, <2>2 DEF answer, AdmitsNothing, OneHolder, EgressTypes
    <3>2. resolved'[dns] = resolved[dns] \cup {d}
      BY <1>9, <2>2, <3>1 DEF answer, EgressTypes
    <3>3. Own(current) \cup Allowed({d}) \subseteq Own(current)'
      BY <1>9, <3>1, <3>2 DEF answer, Own, closeLocked, Allowed, RegistrationBatch
    <3> QED BY <1>9, <2>2, <3>1, <3>3 DEF answer, Applied, ApplyFails
  <2> QED BY <2>1, <2>2
<1>10. CASE reload \/ Registered
  <2>1. \A h \in Guests : Own(h)' = Own(h)
    BY <1>10 DEF reload, Registered, Own, closeLocked
  <2> QED BY <1>10, <2>1 DEF reload, Registered, EgressTypes
<1>11. CASE restore
  <2>1. \A h \in Guests : Own(h)' = Own(h) /\ RegistrationBatch(h) \subseteq Own(h)
    BY <1>11 DEF restore, Own, closeLocked
  <2>2. SameGuest => current \in Guests /\ current # "none"
    BY <1>11, EgressAssumption DEF restore, SameGuest, EgressTypes
  <2> QED BY <1>11, <2>1, <2>2 DEF restore, Applied, ApplyFails, EgressTypes, OneHolder, Unlocked, NoOp
<1> QED BY <1>1, <1>2, <1>3, <1>4, <1>5, <1>6, <1>7, <1>8, <1>9, <1>10, <1>11 DEF EgressNext

(* Every step keeps a claimed microVM free of flows from its time parked.      *)
LEMMA NextSinceClaim ==
  EgressTypes /\ OneHolder /\ Accounted /\ SinceClaim /\ EgressNext => SinceClaim'
<1> SUFFICES ASSUME EgressTypes, OneHolder, Accounted, SinceClaim, EgressNext,
                    NEW h \in Guests, h \notin parkedVM'
             PROVE  <<"parked", h>> \notin kernel'
  BY DEF SinceClaim, EgressTypes
<1> DEFINE p == <<"parked", h>>
<1>0. /\ p \in Flows /\ p \notin Allowed(Dests)
      /\ \A g \in Guests : p \notin RegistrationBatch(g) /\ p # <<"flow", g>>
      /\ \A g \in Guests : g # h => p # <<"parked", g>>
      /\ \A d \in Dests : p \notin Allowed({d})
  BY BatchesApart, AllowedApart DEF Flows
<1>1. h \notin parkedVM => p \notin kernel
  BY DEF SinceClaim
<1> HIDE DEF p
<1>2. ASSUME NEW g \in Guests, claimEgress(g) PROVE p \notin kernel'
  <2>1. CASE h \in parkedVM
    <3>1. h = g /\ current = g /\ kernel' = ClaimBatch(g)
      BY <1>2, <2>1 DEF claimEgress, Applied
    <3>2. g \notin Observed => p \notin kernel
      BY <3>1, <1>0, OwnFlows, EgressAssumption DEF Accounted
    <3> QED BY <3>1, <3>2, <1>0 DEF ClaimBatch
  <2>2. CASE h \notin parkedVM
    BY <1>1, <1>2, <2>2 DEF claimEgress, Applied, ApplyFails, ClaimBatch
  <2> QED BY <2>1, <2>2
<1>3. ASSUME NEW g \in Guests, \/ Register(g) \/ purge(g) \/ Unregister(g)
                               \/ UnregisterRemoves(g) \/ stops(g) \/ queries(g)
      PROVE  p \notin kernel'
  BY <1>1, <1>3 DEF Register, purge, Unregister, UnregisterRemoves, stops, queries, Applied,
     ApplyFails
<1>4. ASSUME NEW g \in Guests, RegisterApplies(g) PROVE p \notin kernel'
  BY <1>0, <1>1, <1>4 DEF RegisterApplies, Applied, ApplyFails
<1>5. ASSUME NEW g \in Guests, connects(g) PROVE p \notin kernel'
  BY <1>0, <1>1, <1>5 DEF connects, p
<1>6. ASSUME NEW d \in Dests, answer(d) PROVE p \notin kernel'
  BY <1>0, <1>1, <1>6 DEF answer, Applied, ApplyFails
<1>7. ASSUME reload \/ Registered PROVE p \notin kernel'
  <2>1. h \notin parkedVM /\ kernel' \subseteq kernel
    BY <1>7 DEF reload, Registered
  <2> QED BY <1>1, <2>1
<1>8. ASSUME restore PROVE p \notin kernel'
  <2>1. SameGuest => current \in Guests
    BY <1>8 DEF restore, SameGuest, EgressTypes
  <2>2. h \notin parkedVM
        /\ kernel' \in {kernel, IF SameGuest THEN kernel \cup RegistrationBatch(current) ELSE kernel}
    BY <1>8 DEF restore, Applied, ApplyFails
  <2> QED BY <1>0, <1>1, <2>1, <2>2
<1> QED BY <1>2, <1>3, <1>4, <1>5, <1>6, <1>7, <1>8 DEF EgressNext, p

(* Only a reload takes a running guest's elements, and then it is shaken.      *)
LEMMA NextConfined ==
  EgressTypes /\ OneHolder /\ Confined /\ EgressNext => Confined'
<1> SUFFICES ASSUME EgressTypes, OneHolder, Confined, EgressNext,
                    NEW h \in Guests, h \notin shaken', machine'[h] = "running"
             PROVE  RegistrationBatch(h) \subseteq kernel'
  BY DEF Confined, RegistrationBatch
<1>0. RegistrationBatch(h) \cap Flows = {}
  BY BatchesApart
<1>1. h \notin shaken /\ machine[h] = "running" => RegistrationBatch(h) \subseteq kernel
  BY DEF Confined
<1> USE DEF EgressTypes
<1>2. ASSUME NEW g \in Guests, Register(g) \/ Unregister(g) \/ stops(g) \/ queries(g)
      PROVE  RegistrationBatch(h) \subseteq kernel'
  BY <1>1, <1>2 DEF Register, Unregister, stops, queries
<1>3. ASSUME NEW g \in Guests, purge(g) \/ UnregisterRemoves(g)
      PROVE  RegistrationBatch(h) \subseteq kernel'
  <2>1. machine[h] # "running"
    BY <1>3, EgressAssumption DEF OneHolder, purge, UnregisterRemoves
  <2> QED BY <1>3, <2>1 DEF purge, UnregisterRemoves
<1>4. ASSUME NEW g \in Guests, RegisterApplies(g)
      PROVE  RegistrationBatch(h) \subseteq kernel'
  <2>1. h = g
    BY <1>4 DEF RegisterApplies, OneHolder
  <2> QED BY <1>4, <2>1 DEF RegisterApplies, Applied
<1>5. ASSUME NEW g \in Guests, claimEgress(g)
      PROVE  RegistrationBatch(h) \subseteq kernel'
  BY <1>0, <1>1, <1>5 DEF claimEgress, Applied, ApplyFails, ClaimBatch
<1>6. ASSUME NEW g \in Guests, connects(g)
      PROVE  RegistrationBatch(h) \subseteq kernel'
  BY <1>1, <1>6 DEF connects
<1>7. ASSUME NEW d \in Dests, answer(d)
      PROVE  RegistrationBatch(h) \subseteq kernel'
  BY <1>1, <1>7 DEF answer, Applied, ApplyFails
<1>8. CASE reload \/ Registered
  BY <1>1, <1>8 DEF reload, Registered
<1>9. CASE restore
  <2>1. current = h
    BY <1>9 DEF restore, OneHolder
  <2> QED BY <1>1, <1>9, <2>1 DEF restore, Applied, ApplyFails
<1> QED BY <1>2, <1>3, <1>4, <1>5, <1>6, <1>7, <1>8, <1>9 DEF EgressNext

(* Every step keeps the observed record to the guest's own traffic.            *)
LEMMA NextRecord ==
  EgressTypes /\ OneHolder /\ Accounted /\ SinceClaim /\ RecordIsOwn /\ EgressNext => RecordIsOwn'
<1> SUFFICES ASSUME EgressTypes, OneHolder, Accounted, SinceClaim, RecordIsOwn, EgressNext
             PROVE  RecordIsOwn'
  OBVIOUS
<1>1. ASSUME NEW g \in Guests, UnregisterRemoves(g) PROVE RecordIsOwn'
  <2>1. kernel \cap Flows \subseteq {<<"flow", g>>, <<"parked", g>>}
    BY <1>1, OwnFlows DEF UnregisterRemoves, Accounted
  <2>2. g \notin parkedVM => kernel \cap Flows \subseteq {<<"flow", g>>}
    BY <2>1 DEF SinceClaim
  <2>3. recorded' \in {recorded, RecordOf(g)}
    BY <1>1 DEF UnregisterRemoves
  <2> QED BY <2>2, <2>3 DEF RecordIsOwn, RecordOf, EgressTypes
<1>2. CASE \A g \in Guests : ~UnregisterRemoves(g)
  <2>1. recorded' = recorded
    BY <1>2 DEF EgressNext, Register, purge, RegisterApplies, claimEgress, Unregister, connects,
       stops, queries, answer, reload, Registered, restore
  <2> QED BY <2>1 DEF RecordIsOwn
<1> QED BY <1>1, <1>2

(* The invariant is inductive.                                                 *)
LEMMA NextEgressInv == EgressInv /\ [EgressNext]_egressVars => EgressInv'
<1>1. CASE EgressNext
  BY <1>1, NextTypes, NextOneHolder, NextAccounted, NextSinceClaim, NextConfined, NextRecord
     DEF EgressInv
<1>2. CASE UNCHANGED egressVars
  BY <1>2 DEF egressVars, EgressInv, EgressTypes, OneHolder, Accounted, SinceClaim, Confined,
     RecordIsOwn, Own, closeLocked
<1> QED BY <1>1, <1>2

(* A running guest's address carries its own elements, all of them unless the  *)
(* table was reloaded, and its record holds its own connections, for any       *)
(* number of guests, destinations and failures (Register, Claim, Unregister,   *)
(* answer, Restore).                                                           *)
THEOREM GuestsStayApart == EgressSpec => []GuestsApart
<1>1. EgressInv => GuestsApart
  <2> SUFFICES ASSUME EgressInv PROVE OwnElementsOnly
    BY DEF EgressInv, GuestsApart
  <2> QED BY EgressAssumption DEF EgressInv, OneHolder, Accounted, OwnElementsOnly, Own
<1> QED BY <1>1, InitEgressInv, NextEgressInv, PTL DEF EgressSpec

-----------------------------------------------------------------------------
(* That the warm pool is sound for any number of slots, Attempts and           *)
(* contracts. The inductive invariant WarmInv says who answers for each        *)
(* microVM: the pool, a claim, the reconcile loop, or a close that is running. *)

VMStates == {"none", "up", "exited", "clean", "dirty"}
Claims == {"off", "cold", "refused", "injecting", "running", "closing", "over"}

WarmTypes ==
  /\ contract \in Contracts \cup {"none"}
  /\ target \in Nat
  /\ parked \subseteq Slots /\ IsFiniteSet(parked)
  /\ taken \subseteq Slots /\ IsFiniteSet(taken)
  /\ poolClosed \in {"no", "closing", "done"}
  /\ vm \in [Slots -> VMStates]
  /\ reserved \in [Slots -> BOOLEAN]
  /\ bootedAs \in [Slots -> Contracts \cup {"none"}]
  /\ rec \in [at : {"off", "loop", "boot", "drain", "publish"}, slot : Slots \cup {"none"},
              as : Contracts \cup {"none"}]
  /\ guest \in [Attempts -> [at : Claims, slot : Slots \cup {"none"},
                             as : Contracts \cup {"none"}]]

(* The reconcile loop holds a microVM only while it drains or publishes it.    *)
RecOK ==
  /\ rec.at \in {"off", "loop", "boot"} => rec.slot = "none"
  /\ rec.at \in {"drain", "publish"} => rec.slot \in Slots
  /\ rec.at \in {"boot", "publish"} => rec.as \in Contracts
  /\ rec.at = "publish" => bootedAs[rec.slot] = rec.as

(* The microVM of a claim is counted as claimed, is being closed, or is down.  *)
Held(i) == i \in taken \cup leaving \/ vm[i] \in Down
GuestHeld ==
  \A a \in Attempts :
    /\ guest[a].at \in {"injecting", "running", "closing"} => guest[a].slot \in Slots
    /\ guest[a].at = "off" => guest[a].slot = "none"
    /\ guest[a].slot \in Slots => Held(guest[a].slot)

(* A Profile without state has nothing parked, and a pool that is shut down    *)
(* has no Profile, no claim and, in the end, no boot under way.                *)
PoolOK ==
  /\ contract = "none" => parked = {}
  /\ poolClosed # "no" => contract = "none" /\ taken = {}
  /\ poolClosed = "done" => rec.at \in {"off", "loop"} /\ leaving = {}

WarmInv == WarmTypes /\ RecOK /\ GuestHeld /\ PoolOK /\ RightContract /\ NoStrayVM

-----------------------------------------------------------------------------
(* Whoever cleans up first, the microVM is down afterwards and no other is     *)
(* touched.                                                                    *)
Downed(i) ==
  /\ vm' \in [Slots -> VMStates]
  /\ vm'[i] \in Down
  /\ \A j \in Slots : j # i => vm'[j] = vm[j]

(* Closing a microVM takes it down, whatever fails.                            *)
LEMMA CleanupDowns ==
  ASSUME WarmTypes, NEW i \in Slots, NEW how \in Down, cleanup(i, how)
  PROVE  Downed(i)
BY DEF WarmTypes, cleanup, Downed, Down, VMStates

(* The invariant holds when the Agent starts: no microVM, an empty pool.       *)
LEMMA InitWarmInv == WarmInit => WarmInv
<1> SUFFICES ASSUME WarmInit PROVE WarmInv
  OBVIOUS
<1> USE WarmPoolAssumption DEF WarmInit, Off
<1>1. WarmTypes
  BY FS_EmptySet DEF WarmTypes, VMStates, Claims
<1>2. RecOK /\ GuestHeld /\ PoolOK
  BY DEF RecOK, GuestHeld, PoolOK
<1>3. RightContract /\ NoStrayVM
  BY DEF RightContract, NoStrayVM, Down
<1> QED BY <1>1, <1>2, <1>3 DEF WarmInv

(* The steps, sorted by how they move microVMs.                                *)
SlotStep(i) == \/ markExited(i) \/ exitedIdle(i) \/ watchIdle(i) \/ ConfigureCloses(i)
               \/ Closes(i) \/ newWarmSlot(i) \/ RecoverOrphans(i)
PoolStep == \/ \E c \in Contracts, n \in 1..MaxTarget : Configure(c, n)
            \/ Remove \/ Shutdown \/ ShutdownReturns
LoopStep == reconcile \/ round \/ drain \/ bootFails \/ publish
ClaimStep(a) == \/ \E c \in Contracts : Claim(a, c)
                \/ inject(a) \/ injectFails(a) \/ ClaimCloses(a) \/ WaitOrCancel(a)

(* The steps, by who takes them: a microVM, an operator, the loop, a claim.    *)
LEMMA Steps ==
  WarmNext <=> \/ \E i \in Slots : SlotStep(i)
               \/ PoolStep \/ LoopStep
               \/ \E a \in Attempts : ClaimStep(a)
BY DEF WarmNext, SlotStep, PoolStep, LoopStep, ClaimStep

(* Every step keeps the types.                                                 *)
LEMMA NextWarmTypes == WarmTypes /\ RecOK /\ GuestHeld /\ WarmNext => WarmTypes'
<1> SUFFICES ASSUME WarmTypes, RecOK, GuestHeld, WarmNext PROVE WarmTypes'
  OBVIOUS
<1> USE WarmPoolAssumption
<1>1. ASSUME NEW i \in Slots, SlotStep(i) PROVE WarmTypes'
  <2>1. CASE markExited(i)
    BY <2>1 DEF markExited, WarmTypes, VMStates, profileVars
  <2>2. CASE exitedIdle(i) \/ Closes(i)
    <3>1. Downed(i)
      BY <2>2, CleanupDowns DEF exitedIdle, Closes
    <3> QED BY <2>2, <3>1 DEF exitedIdle, Closes, Downed, WarmTypes, profileVars
  <2>3. CASE watchIdle(i)
    <3>1. IsFiniteSet(parked')
      BY <2>3, FS_Subset DEF watchIdle, WarmTypes
    <3> QED BY <2>3, <3>1 DEF watchIdle, WarmTypes, vmVars
  <2>4. CASE ConfigureCloses(i)
    <3>1. Downed(i)
      BY <2>4, CleanupDowns DEF ConfigureCloses
    <3> QED BY <2>4, <3>1 DEF ConfigureCloses, Downed, WarmTypes, profileVars
  <2>5. CASE newWarmSlot(i)
    BY <2>5 DEF newWarmSlot, WarmTypes, VMStates, profileVars
  <2>6. CASE RecoverOrphans(i)
    <3>1. Downed(i)
      BY <2>6, CleanupDowns DEF RecoverOrphans
    <3>2. taken' \subseteq taken /\ contract' \in {contract, "none"}
      BY <2>6 DEF RecoverOrphans, releaseSlot
    <3>3. IsFiniteSet(taken')
      BY <3>2, FS_Subset DEF WarmTypes
    <3> QED BY <2>6, <3>1, <3>2, <3>3 DEF RecoverOrphans, Downed, WarmTypes
  <2> QED BY <1>1, <2>1, <2>2, <2>3, <2>4, <2>5, <2>6 DEF SlotStep
<1>2. CASE PoolStep
  <2>0. IsFiniteSet({})
    BY FS_EmptySet
  <2>1. ASSUME NEW c \in Contracts, NEW n \in 1..MaxTarget, Configure(c, n) PROVE WarmTypes'
    <3>1. parked' \in {parked, {}} /\ contract' \in {contract, c} /\ target' \in {target, n}
      BY <2>1 DEF Configure
    <3> QED BY <2>0, <2>1, <3>1 DEF Configure, WarmTypes, vmVars
  <2>2. CASE Remove
    BY <2>0, <2>2 DEF Remove, WarmTypes, vmVars
  <2>3. CASE Shutdown
    BY <2>0, <2>3 DEF Shutdown, WarmTypes, vmVars
  <2>4. CASE ShutdownReturns
    BY <2>4 DEF ShutdownReturns, WarmTypes, vmVars, profileVars
  <2> QED BY <1>2, <2>1, <2>2, <2>3, <2>4 DEF PoolStep
<1>3. CASE LoopStep
  <2>1. CASE reconcile
    BY <2>1 DEF reconcile, Looping, Off, WarmTypes, vmVars, profileVars
  <2>2. CASE round
    <3>1. parked' \subseteq parked
      BY <2>2 DEF round
    <3>2. IsFiniteSet(parked')
      BY <3>1, FS_Subset DEF WarmTypes
    <3>3. rec' \in [at : {"off", "loop", "boot", "drain", "publish"}, slot : Slots \cup {"none"},
                    as : Contracts \cup {"none"}]
      BY <2>2 DEF round, WarmTypes, Off
    <3> QED BY <2>2, <3>1, <3>2, <3>3 DEF round, WarmTypes, vmVars
  <2>3. CASE drain
    <3>1. Downed(rec.slot)
      BY <2>3, CleanupDowns DEF drain, RecOK
    <3> QED BY <2>3, <3>1 DEF drain, Downed, Looping, Off, WarmTypes, profileVars
  <2>4. CASE bootFails
    BY <2>4 DEF bootFails, Off, WarmTypes, vmVars
  <2>5. CASE publish /\ Fits
    <3>1. parked' = parked \cup {rec.slot} /\ rec.slot \in Slots
      BY <2>5 DEF publish, RecOK
    <3>2. IsFiniteSet(parked')
      BY <3>1, FS_AddElement DEF WarmTypes
    <3> QED BY <2>5, <3>1, <3>2 DEF publish, Looping, Off, WarmTypes
  <2>6. CASE publish /\ ~Fits
    <3>1. Downed(rec.slot)
      BY <2>6, CleanupDowns DEF publish, RecOK
    <3> QED BY <2>6, <3>1 DEF publish, Downed, Looping, Off, WarmTypes
  <2> QED BY <1>3, <2>1, <2>2, <2>3, <2>4, <2>5, <2>6 DEF LoopStep
<1>4. ASSUME NEW a \in Attempts, ClaimStep(a) PROVE WarmTypes'
  <2>1. ASSUME NEW c \in Contracts, Claim(a, c) PROVE WarmTypes'
    <3>1. CASE UNCHANGED <<parked, taken>>
      <4>1. guest' = [guest EXCEPT ![a].at = "cold"] \/ guest' = [guest EXCEPT ![a].at = "refused"]
            \/ \E i \in parked : parked' = parked \ {i}
        BY <2>1 DEF Claim
      <4>2. guest' \in [Attempts -> [at : Claims, slot : Slots \cup {"none"},
                                     as : Contracts \cup {"none"}]]
        BY <3>1, <4>1 DEF WarmTypes, Claims
      <4> QED BY <2>1, <3>1, <4>2 DEF Claim, WarmTypes, vmVars
    <3>2. ASSUME NEW i \in parked, parked' = parked \ {i}, taken' = taken \cup {i},
                 guest' = [guest EXCEPT ![a] = [at |-> "injecting", slot |-> i, as |-> c]]
          PROVE  WarmTypes'
      <4>1. IsFiniteSet(parked') /\ IsFiniteSet(taken')
        BY <3>2, FS_Subset, FS_AddElement DEF WarmTypes
      <4>2. guest' \in [Attempts -> [at : Claims, slot : Slots \cup {"none"},
                                     as : Contracts \cup {"none"}]]
        BY <3>2 DEF WarmTypes, Claims
      <4> QED BY <2>1, <3>2, <4>1, <4>2 DEF Claim, WarmTypes, vmVars
    <3> QED BY <2>1, <3>1, <3>2 DEF Claim
  <2>2. CASE inject(a)
    <3>1. guest[a].slot \in Slots
      BY <2>2 DEF inject, GuestHeld
    <3>2. guest' \in [Attempts -> [at : Claims, slot : Slots \cup {"none"},
                                   as : Contracts \cup {"none"}]]
      BY <2>2 DEF inject, WarmTypes, Claims
    <3>3. reserved' \in [Slots -> BOOLEAN]
      BY <2>2, <3>1 DEF inject, WarmTypes
    <3> QED BY <2>2, <3>2, <3>3 DEF inject, WarmTypes, profileVars
  <2>3. CASE injectFails(a)
    BY <2>3 DEF injectFails, WarmTypes, Claims, profileVars, vmVars
  <2>4. CASE ClaimCloses(a) \/ WaitOrCancel(a)
    <3>1. Downed(guest[a].slot)
      BY <2>4, CleanupDowns DEF ClaimCloses, WaitOrCancel, GuestHeld
    <3>2. taken' \subseteq taken /\ contract' \in {contract, "none"}
      BY <2>4 DEF ClaimCloses, WaitOrCancel, releaseSlot
    <3>3. IsFiniteSet(taken')
      BY <3>2, FS_Subset DEF WarmTypes
    <3>4. guest' \in [Attempts -> [at : Claims, slot : Slots \cup {"none"},
                                   as : Contracts \cup {"none"}]]
      BY <2>4 DEF ClaimCloses, WaitOrCancel, End, Off, WarmTypes, Claims
    <3> QED BY <2>4, <3>1, <3>2, <3>3, <3>4 DEF ClaimCloses, WaitOrCancel, Downed, WarmTypes
  <2> QED BY <1>4, <2>1, <2>2, <2>3, <2>4 DEF ClaimStep
<1> QED BY <1>1, <1>2, <1>3, <1>4, Steps

(* newWarmSlot, the loop and the claims move rec, bootedAs or guest; no other  *)
(* step does.                                                                  *)
LEMMA SlotFrame ==
  ASSUME NEW i \in Slots, SlotStep(i), ~newWarmSlot(i)
  PROVE  UNCHANGED <<rec, bootedAs, reserved, guest, poolClosed>>
BY DEF SlotStep, markExited, exitedIdle, watchIdle, ConfigureCloses, Closes, RecoverOrphans, vmVars

(* What Configure, Remove and Shutdown leave alone.                            *)
LEMMA PoolFrame == PoolStep => UNCHANGED <<rec, bootedAs, reserved, vm, guest>>
BY DEF PoolStep, Configure, Remove, Shutdown, ShutdownReturns, vmVars

(* What the reconcile loop leaves alone.                                       *)
LEMMA LoopFrame == LoopStep => UNCHANGED <<bootedAs, reserved, guest, poolClosed, contract, target,
                                           taken, leaving, obsolete, abandoned>>
BY DEF LoopStep, reconcile, round, drain, bootFails, publish, vmVars, profileVars

(* What a claim leaves alone.                                                  *)
LEMMA ClaimFrame ==
  ASSUME NEW a \in Attempts, ClaimStep(a)
  PROVE  UNCHANGED <<rec, bootedAs, poolClosed, target, leaving, obsolete, abandoned>>
BY DEF ClaimStep, Claim, inject, injectFails, ClaimCloses, WaitOrCancel, vmVars, profileVars

(* Every step keeps the loop's record in order.                                *)
LEMMA NextRecOK == WarmTypes /\ RecOK /\ WarmNext => RecOK'
<1> SUFFICES ASSUME WarmTypes, RecOK, WarmNext PROVE RecOK'
  OBVIOUS
<1> USE WarmPoolAssumption
<1>0. ASSUME UNCHANGED <<rec, bootedAs>> PROVE RecOK'
  BY <1>0 DEF RecOK
<1>1. ASSUME NEW i \in Slots, SlotStep(i) PROVE RecOK'
  <2>1. CASE newWarmSlot(i)
    <3>1. rec' = [rec EXCEPT !.at = "publish", !.slot = i] /\ rec.at = "boot"
          /\ bootedAs' = [bootedAs EXCEPT ![i] = rec.as]
      BY <2>1 DEF newWarmSlot
    <3>2. rec'.at = "publish" /\ rec'.slot = i /\ rec'.as = rec.as
      BY <3>1 DEF WarmTypes
    <3>3. bootedAs'[i] = rec.as
      BY <3>1 DEF WarmTypes
    <3> QED BY <3>1, <3>2, <3>3 DEF RecOK
  <2> QED BY <1>0, <1>1, <2>1, SlotFrame
<1>2. CASE PoolStep
  BY <1>0, <1>2, PoolFrame
<1>3. CASE LoopStep
  <2>1. CASE reconcile
    BY <2>1 DEF reconcile, Looping, Off, RecOK
  <2>2. CASE round
    BY <2>2 DEF round, Off, RecOK, WarmTypes
  <2>3. CASE drain
    BY <2>3 DEF drain, Looping, Off, RecOK
  <2>4. CASE bootFails
    BY <2>4 DEF bootFails, Off, RecOK
  <2>5. CASE publish
    BY <2>5 DEF publish, Looping, Off, RecOK
  <2> QED BY <1>3, <2>1, <2>2, <2>3, <2>4, <2>5 DEF LoopStep
<1>4. ASSUME NEW a \in Attempts, ClaimStep(a) PROVE RecOK'
  BY <1>0, <1>4, ClaimFrame
<1> QED BY <1>1, <1>2, <1>3, <1>4, Steps

(* Who holds a microVM: what was claimed or is being closed stays so or is     *)
(* taken down, unless the id is used again.                                    *)
LEMMA HeldStays ==
  ASSUME WarmTypes, WarmTypes', RecOK, GuestHeld, WarmNext, NEW j \in Slots, Held(j),
         \A i \in Slots : newWarmSlot(i) => i # j
  PROVE  Held(j)'
<1> USE DEF Held
<1>1. ASSUME NEW i \in Slots, SlotStep(i) PROVE Held(j)'
  <2>1. CASE markExited(i)
    BY <2>1 DEF markExited, WarmTypes, profileVars, Down
  <2>2. CASE exitedIdle(i) \/ Closes(i)
    <3>1. Downed(i)
      BY <2>2, CleanupDowns DEF exitedIdle, Closes
    <3> QED BY <2>2, <3>1 DEF exitedIdle, Closes, Downed, profileVars
  <2>3. CASE watchIdle(i)
    BY <2>3 DEF watchIdle, vmVars
  <2>4. CASE ConfigureCloses(i)
    <3>1. Downed(i)
      BY <2>4, CleanupDowns DEF ConfigureCloses
    <3> QED BY <2>4, <3>1 DEF ConfigureCloses, Downed, profileVars
  <2>5. CASE newWarmSlot(i)
    <3>1. i # j
      BY <2>5
    <3> QED BY <2>5, <3>1 DEF newWarmSlot, profileVars, WarmTypes
  <2>6. CASE RecoverOrphans(i)
    <3>1. Downed(i)
      BY <2>6, CleanupDowns DEF RecoverOrphans
    <3>2. taken \subseteq taken' \cup {i} /\ leaving' = leaving
      BY <2>6 DEF RecoverOrphans, releaseSlot
    <3> QED BY <3>1, <3>2 DEF Downed
  <2> QED BY <1>1, <2>1, <2>2, <2>3, <2>4, <2>5, <2>6 DEF SlotStep
<1>2. CASE PoolStep
  <2>1. vm' = vm
    BY <1>2, PoolFrame
  <2>2. taken \cup leaving \subseteq taken' \cup leaving'
    BY <1>2 DEF PoolStep, Configure, Remove, Shutdown, ShutdownReturns, profileVars
  <2> QED BY <2>1, <2>2
<1>3. CASE LoopStep
  <2>1. taken' = taken /\ leaving' = leaving
    BY <1>3, LoopFrame
  <2>2. CASE vm' = vm
    BY <2>1, <2>2
  <2>3. CASE Downed(rec.slot)
    BY <2>1, <2>3 DEF Downed
  <2>4. vm' = vm \/ Downed(rec.slot)
    <3>1. CASE drain
      BY <3>1, CleanupDowns DEF drain, RecOK
    <3>2. CASE publish
      BY <3>2, CleanupDowns DEF publish, RecOK
    <3>3. CASE reconcile \/ round \/ bootFails
      BY <3>3 DEF reconcile, round, bootFails, vmVars
    <3> QED BY <1>3, <3>1, <3>2, <3>3 DEF LoopStep
  <2> QED BY <2>2, <2>3, <2>4
<1>4. ASSUME NEW a \in Attempts, ClaimStep(a) PROVE Held(j)'
  <2>1. leaving' = leaving
    BY <1>4, ClaimFrame
  <2>2. ASSUME NEW c \in Contracts, Claim(a, c) PROVE Held(j)'
    <3>1. vm' = vm /\ taken \subseteq taken'
      BY <2>2 DEF Claim, vmVars
    <3> QED BY <2>1, <3>1
  <2>3. CASE inject(a) \/ injectFails(a)
    BY <2>1, <2>3 DEF inject, injectFails, profileVars, vmVars
  <2>4. CASE ClaimCloses(a) \/ WaitOrCancel(a)
    <3>1. Downed(guest[a].slot)
      BY <2>4, CleanupDowns DEF ClaimCloses, WaitOrCancel, GuestHeld
    <3>2. taken \subseteq taken' \cup {guest[a].slot}
      BY <2>4 DEF ClaimCloses, WaitOrCancel, releaseSlot
    <3> QED BY <2>1, <3>1, <3>2 DEF Downed
  <2> QED BY <1>4, <2>2, <2>3, <2>4 DEF ClaimStep
<1> QED BY <1>1, <1>2, <1>3, <1>4, Steps

(* A microVM that no guest, no loop and no set of the pool names is the only   *)
(* kind of id that newWarmSlot boots.                                          *)
LEMMA BootsUnused ==
  ASSUME NEW i \in Slots, newWarmSlot(i)
  PROVE  /\ \A a \in Attempts : guest[a].slot # i
         /\ i \notin parked \cup taken \cup obsolete \cup leaving
         /\ UNCHANGED <<guest, parked, taken, contract, poolClosed, leaving, obsolete, abandoned>>
BY DEF newWarmSlot, Unused, profileVars

(* What a step does to the claim of one Attempt.                               *)
GuestStep(a) ==
  \/ guest'[a] = guest[a]
  \/ guest'[a].slot = guest[a].slot /\ guest[a].at = "off" /\ guest'[a].at \in {"cold", "refused"}
  \/ \E i \in parked : /\ guest'[a].at = "injecting" /\ guest'[a].slot = i
                       /\ guest'[a].as = contract
                       /\ i \in taken' /\ guest[a].at = "off"
  \/ /\ guest'[a].slot = guest[a].slot /\ guest'[a].as = guest[a].as
     /\ guest[a].at = "injecting" /\ guest'[a].at \in {"running", "closing"}
  \/ guest'[a].slot = "none" /\ guest'[a].at \in {"refused", "over"}

(* What a step can do to one claim.                                            *)
LEMMA GuestSteps ==
  ASSUME WarmTypes, WarmNext, NEW a \in Attempts
  PROVE  GuestStep(a)
<1>0. ASSUME guest' = guest PROVE GuestStep(a)
  BY <1>0 DEF GuestStep
<1>1. ASSUME NEW i \in Slots, SlotStep(i) PROVE GuestStep(a)
  <2>1. CASE newWarmSlot(i)
    BY <1>0, <2>1 DEF newWarmSlot
  <2> QED BY <1>0, <1>1, <2>1, SlotFrame
<1>2. CASE PoolStep
  BY <1>0, <1>2, PoolFrame
<1>3. CASE LoopStep
  BY <1>0, <1>3, LoopFrame
<1>4. ASSUME NEW b \in Attempts, ClaimStep(b) PROVE GuestStep(a)
  <2>0. guest \in [Attempts -> [at : Claims, slot : Slots \cup {"none"}, as : Contracts \cup {"none"}]]
    BY DEF WarmTypes
  <2>1. ASSUME NEW c \in Contracts, Claim(b, c) PROVE GuestStep(a)
    <3>1. CASE \E how \in {"cold", "refused"} : guest' = [guest EXCEPT ![b].at = how]
      BY <2>0, <2>1, <3>1 DEF Claim, GuestStep
    <3>2. CASE \E i \in parked :
                 /\ guest' = [guest EXCEPT ![b] = [at |-> "injecting", slot |-> i, as |-> c]]
                 /\ taken' = taken \cup {i} /\ c = contract
      <4>1. PICK i \in parked :
                 /\ guest' = [guest EXCEPT ![b] = [at |-> "injecting", slot |-> i, as |-> c]]
                 /\ taken' = taken \cup {i} /\ c = contract
        BY <3>2
      <4>2. CASE a = b
        <5>1. guest'[a] = [at |-> "injecting", slot |-> i, as |-> contract]
          BY <2>0, <4>1, <4>2
        <5>2. /\ guest'[a].at = "injecting" /\ guest'[a].slot = i /\ guest'[a].as = contract
              /\ guest[a].at = "off" /\ i \in taken'
          BY <2>1, <4>1, <4>2, <5>1 DEF Claim
        <5> QED BY <4>1, <5>2 DEF GuestStep
      <4>3. CASE a # b
        BY <2>0, <4>1, <4>3 DEF GuestStep
      <4> QED BY <4>2, <4>3
    <3> QED BY <2>1, <3>1, <3>2 DEF Claim
  <2>2. CASE inject(b)
    BY <2>0, <2>2 DEF inject, GuestStep
  <2>3. CASE injectFails(b)
    BY <2>0, <2>3 DEF injectFails, GuestStep
  <2>4. CASE ClaimCloses(b) \/ WaitOrCancel(b)
    BY <2>0, <2>4 DEF ClaimCloses, WaitOrCancel, End, Off, GuestStep
  <2> QED BY <1>4, <2>1, <2>2, <2>3, <2>4 DEF ClaimStep
<1> QED BY <1>1, <1>2, <1>3, <1>4, Steps

(* Every step leaves the microVM of a claim answered for.                      *)
LEMMA NextGuestHeld == WarmTypes /\ WarmTypes' /\ RecOK /\ GuestHeld /\ WarmNext => GuestHeld'
<1> SUFFICES ASSUME WarmTypes, WarmTypes', RecOK, GuestHeld, WarmNext, NEW a \in Attempts
             PROVE  /\ guest'[a].at \in {"injecting", "running", "closing"} => guest'[a].slot \in Slots
                    /\ guest'[a].at = "off" => guest'[a].slot = "none"
                    /\ guest'[a].slot \in Slots =>
                         \/ guest'[a].slot \in taken' \cup leaving'
                         \/ vm'[guest'[a].slot] \in Down
  BY DEF GuestHeld, Held
<1>0. "none" \notin Slots
  BY WarmPoolAssumption
<1>1. GuestStep(a)
  BY GuestSteps
<1>2. CASE \E i \in parked : guest'[a].at = "injecting" /\ guest'[a].slot = i /\ i \in taken'
  BY <1>2 DEF WarmTypes
<1>3. CASE guest'[a].slot = guest[a].slot
  <2>1. guest'[a].at \in {"injecting", "running", "closing"}
          => guest[a].at \in {"injecting", "running", "closing"} \/ guest'[a].slot \in Slots
    BY <1>1 DEF GuestStep, WarmTypes
  <2>2. guest'[a].at \in {"injecting", "running", "closing"} => guest'[a].slot \in Slots
    BY <1>3, <2>1 DEF GuestHeld
  <2>3. ASSUME NEW s \in Slots, s = guest[a].slot PROVE s \in taken' \cup leaving' \/ vm'[s] \in Down
    <3>1. Held(s)
      BY <2>3 DEF GuestHeld
    <3>2. \A i \in Slots : newWarmSlot(i) => i # s
      BY <2>3, BootsUnused
    <3>3. Held(s)'
      BY <3>1, <3>2, HeldStays
    <3> QED BY <3>3 DEF Held
  <2>4. guest'[a].slot \in Slots => \/ guest'[a].slot \in taken' \cup leaving'
                                    \/ vm'[guest'[a].slot] \in Down
    BY <1>3, <2>3
  <2>5. guest'[a].at = "off" => guest'[a].slot = "none"
    BY <1>1, <1>3 DEF GuestStep, GuestHeld
  <2> QED BY <2>2, <2>4, <2>5
<1>4. CASE guest'[a].slot = "none" /\ guest'[a].at \in {"refused", "over"}
  BY <1>0, <1>4
<1>5. \/ \E i \in parked : guest'[a].at = "injecting" /\ guest'[a].slot = i /\ i \in taken'
      \/ guest'[a].slot = guest[a].slot
      \/ guest'[a].slot = "none" /\ guest'[a].at \in {"refused", "over"}
  BY <1>1 DEF GuestStep
<1> QED BY <1>2, <1>3, <1>4, <1>5

(* Every step leaves a pool without a Profile, or shut down, empty.            *)
LEMMA NextPoolOK ==
  WarmTypes /\ RecOK /\ GuestHeld /\ PoolOK /\ WarmNext => PoolOK'
<1> SUFFICES ASSUME WarmTypes, RecOK, GuestHeld, PoolOK, WarmNext PROVE PoolOK'
  OBVIOUS
<1>0. "none" \notin Contracts
  BY WarmPoolAssumption
<1>1. ASSUME NEW i \in Slots, SlotStep(i) PROVE PoolOK'
  <2>1. CASE newWarmSlot(i)
    BY <2>1 DEF newWarmSlot, PoolOK, profileVars
  <2>2. CASE RecoverOrphans(i)
    <3>1. taken' \subseteq taken /\ UNCHANGED <<parked, rec, poolClosed, leaving>>
      BY <2>2 DEF RecoverOrphans, releaseSlot
    <3>2. contract' = contract \/ (contract' = "none" /\ parked = {})
      BY <2>2 DEF RecoverOrphans, releaseSlot
    <3> QED BY <3>1, <3>2 DEF PoolOK
  <2>3. CASE markExited(i) \/ exitedIdle(i) \/ watchIdle(i) \/ ConfigureCloses(i) \/ Closes(i)
    <3>1. UNCHANGED <<contract, taken, rec, poolClosed>> /\ parked' \subseteq parked
          /\ leaving' \subseteq leaving
      BY <2>3 DEF markExited, exitedIdle, watchIdle, ConfigureCloses, Closes, profileVars
    <3> QED BY <3>1 DEF PoolOK
  <2> QED BY <1>1, <2>1, <2>2, <2>3 DEF SlotStep
<1>2. CASE PoolStep
  <2>1. ASSUME NEW c \in Contracts, NEW n \in 1..MaxTarget, Configure(c, n) PROVE PoolOK'
    BY <1>0, <2>1 DEF Configure, PoolOK
  <2>2. CASE Remove
    BY <2>2 DEF Remove, PoolOK
  <2>3. CASE Shutdown
    BY <2>3 DEF Shutdown, PoolOK
  <2>4. CASE ShutdownReturns
    BY <2>4 DEF ShutdownReturns, PoolOK, profileVars
  <2> QED BY <1>2, <2>1, <2>2, <2>3, <2>4 DEF PoolStep
<1>3. CASE LoopStep
  <2>0. UNCHANGED <<poolClosed, contract, taken, leaving>>
    BY <1>3, LoopFrame
  <2>1. CASE contract = "none"
    <3>1. parked' = {}
      BY <1>0, <1>3, <2>1 DEF LoopStep, reconcile, round, drain, bootFails, publish, Fits, PoolOK,
                             profileVars, RecOK
    <3>2. poolClosed = "done" => rec'.at \in {"off", "loop"}
      <4>1. ASSUME poolClosed = "done" PROVE ~drain /\ ~bootFails /\ ~publish
        BY <4>1 DEF PoolOK, drain, bootFails, publish
      <4>2. CASE reconcile
        BY <4>2 DEF reconcile, Looping, Off
      <4>3. CASE round
        BY <2>1, <4>3 DEF round, Off
      <4> QED BY <1>3, <4>1, <4>2, <4>3 DEF LoopStep
    <3> QED BY <2>0, <2>1, <3>1, <3>2 DEF PoolOK
  <2>2. CASE contract # "none"
    BY <2>0, <2>2 DEF PoolOK
  <2> QED BY <2>1, <2>2
<1>4. ASSUME NEW a \in Attempts, ClaimStep(a) PROVE PoolOK'
  <2>0. UNCHANGED <<rec, poolClosed, leaving>>
    BY <1>4, ClaimFrame
  <2>1. ASSUME NEW c \in Contracts, Claim(a, c) PROVE PoolOK'
    <3>1. contract' = contract /\ parked' \subseteq parked
      BY <2>1 DEF Claim
    <3>2. contract = "none" => taken' = taken
      BY <1>0, <2>1 DEF Claim
    <3> QED BY <2>0, <3>1, <3>2 DEF PoolOK
  <2>2. CASE inject(a) \/ injectFails(a)
    BY <2>0, <2>2 DEF inject, injectFails, profileVars, PoolOK
  <2>3. CASE ClaimCloses(a) \/ WaitOrCancel(a)
    <3>1. taken' \subseteq taken /\ parked' = parked
      BY <2>3 DEF ClaimCloses, WaitOrCancel, releaseSlot
    <3>2. contract' = contract \/ (contract' = "none" /\ parked = {})
      BY <2>3 DEF ClaimCloses, WaitOrCancel, releaseSlot
    <3> QED BY <2>0, <3>1, <3>2 DEF PoolOK
  <2> QED BY <1>4, <2>1, <2>2, <2>3 DEF ClaimStep
<1> QED BY <1>1, <1>2, <1>3, <1>4, Steps

(* A parked microVM is one that was parked before under the same contract, or  *)
(* the one the loop booted under it.                                           *)
LEMMA ParkedStep ==
  ASSUME WarmTypes, RecOK, PoolOK, WarmNext, NEW i \in parked'
  PROVE  \/ i \in parked /\ contract' = contract
         \/ publish /\ Fits /\ i = rec.slot /\ contract' = contract
<1>1. ASSUME NEW j \in Slots, SlotStep(j) PROVE i \in parked /\ contract' = contract
  <2>1. CASE RecoverOrphans(j)
    BY <2>1 DEF RecoverOrphans, releaseSlot
  <2>2. CASE ~RecoverOrphans(j)
    BY <1>1, <2>2 DEF SlotStep, markExited, exitedIdle, watchIdle, ConfigureCloses, Closes,
                      newWarmSlot, profileVars
  <2> QED BY <2>1, <2>2
<1>2. CASE PoolStep
  BY <1>2 DEF PoolStep, Configure, Remove, Shutdown, ShutdownReturns, profileVars, PoolOK
<1>3. CASE LoopStep
  <2>1. contract' = contract
    BY <1>3, LoopFrame
  <2>2. CASE publish
    BY <2>1, <2>2 DEF publish
  <2>3. CASE ~publish
    BY <1>3, <2>1, <2>3 DEF LoopStep, reconcile, round, drain, bootFails, profileVars
  <2> QED BY <2>2, <2>3
<1>4. ASSUME NEW a \in Attempts, ClaimStep(a) PROVE i \in parked /\ contract' = contract
  <2>1. CASE ClaimCloses(a) \/ WaitOrCancel(a)
    BY <2>1 DEF ClaimCloses, WaitOrCancel, releaseSlot
  <2>2. CASE ~(ClaimCloses(a) \/ WaitOrCancel(a))
    BY <1>4, <2>2 DEF ClaimStep, Claim, inject, injectFails, profileVars
  <2> QED BY <2>1, <2>2
<1> QED BY <1>1, <1>2, <1>3, <1>4, Steps

(* Only an unused id is booted under another contract.                         *)
LEMMA BootedStep ==
  ASSUME WarmTypes, WarmNext, NEW j \in Slots, \A i \in Slots : newWarmSlot(i) => i # j
  PROVE  bootedAs'[j] = bootedAs[j]
<1>1. ASSUME NEW i \in Slots, SlotStep(i) PROVE bootedAs'[j] = bootedAs[j]
  <2>1. CASE newWarmSlot(i)
    <3>1. i # j
      BY <2>1
    <3> QED BY <2>1, <3>1 DEF newWarmSlot, WarmTypes
  <2> QED BY <1>1, <2>1, SlotFrame
<1> QED BY <1>1, PoolFrame, LoopFrame, ClaimFrame, Steps

(* Every step leaves the parked and the running under their own contract.      *)
LEMMA NextRightContract ==
  WarmTypes /\ RecOK /\ GuestHeld /\ PoolOK /\ RightContract /\ WarmNext => RightContract'
<1> SUFFICES ASSUME WarmTypes, RecOK, GuestHeld, PoolOK, RightContract, WarmNext
             PROVE  RightContract'
  OBVIOUS
<1>1. ASSUME NEW i \in parked' PROVE bootedAs'[i] = contract'
  <2>1. CASE i \in parked /\ contract' = contract
    <3>1. i \in Slots /\ \A j \in Slots : newWarmSlot(j) => j # i
      BY <2>1, BootsUnused DEF WarmTypes
    <3>2. bootedAs'[i] = bootedAs[i]
      BY <3>1, BootedStep
    <3> QED BY <2>1, <3>2 DEF RightContract
  <2>2. CASE publish /\ Fits /\ i = rec.slot /\ contract' = contract
    <3>1. bootedAs' = bootedAs /\ contract = rec.as /\ bootedAs[rec.slot] = rec.as
      BY <2>2 DEF publish, Fits, RecOK
    <3> QED BY <2>2, <3>1
  <2> QED BY <2>1, <2>2, ParkedStep
<1>2. ASSUME NEW a \in Attempts, guest'[a].at \in {"injecting", "running"}
      PROVE  bootedAs'[guest'[a].slot] = guest'[a].as
  <2>1. GuestStep(a)
    BY GuestSteps
  <2>2. CASE \E i \in parked : guest'[a].slot = i /\ guest'[a].as = contract
    <3>1. PICK i \in parked : guest'[a].slot = i /\ guest'[a].as = contract
      BY <2>2
    <3>2. i \in Slots /\ \A j \in Slots : newWarmSlot(j) => j # i
      BY <3>1, BootsUnused DEF WarmTypes
    <3>3. bootedAs'[i] = bootedAs[i] /\ bootedAs[i] = contract
      BY <3>2, BootedStep DEF RightContract
    <3> QED BY <3>1, <3>3
  <2>3. CASE /\ guest'[a].slot = guest[a].slot /\ guest'[a].as = guest[a].as
             /\ guest[a].at \in {"injecting", "running"}
    <3>1. PICK s \in Slots : s = guest[a].slot
      BY <2>3 DEF GuestHeld
    <3>2. \A j \in Slots : newWarmSlot(j) => j # s
      BY <3>1, BootsUnused
    <3>3. bootedAs'[s] = bootedAs[s]
      BY <3>2, BootedStep
    <3>4. bootedAs[s] = guest[a].as
      BY <2>3, <3>1 DEF RightContract
    <3> QED BY <2>3, <3>1, <3>3, <3>4
  <2>4. \/ \E i \in parked : guest'[a].slot = i /\ guest'[a].as = contract
        \/ /\ guest'[a].slot = guest[a].slot /\ guest'[a].as = guest[a].as
           /\ guest[a].at \in {"injecting", "running"}
    BY <1>2, <2>1 DEF GuestStep
  <2> QED BY <2>2, <2>3, <2>4
<1> QED BY <1>1, <1>2 DEF RightContract

(* What is kept stays kept, or is taken down by the step that lets it go.      *)
LEMMA KeptStays ==
  ASSUME WarmTypes, RecOK, GuestHeld, WarmNext, NEW j \in Slots, Kept(j)
  PROVE  Kept(j)' \/ vm'[j] \in Down
<1>0. "none" \notin Slots
  BY WarmPoolAssumption
<1>1. ASSUME NEW i \in Slots, SlotStep(i) PROVE Kept(j)' \/ vm'[j] \in Down
  <2>1. CASE markExited(i) \/ exitedIdle(i)
    BY <2>1 DEF markExited, exitedIdle, profileVars, Kept
  <2>2. CASE watchIdle(i)
    BY <2>2 DEF watchIdle, vmVars, Kept
  <2>3. CASE ConfigureCloses(i)
    <3>1. Downed(i)
      BY <2>3, CleanupDowns DEF ConfigureCloses
    <3>2. /\ obsolete \subseteq obsolete' \cup abandoned' \cup {i} /\ abandoned \subseteq abandoned'
          /\ UNCHANGED <<parked, taken, leaving, rec, guest>>
      BY <2>3 DEF ConfigureCloses, profileVars
    <3> QED BY <3>1, <3>2 DEF Kept, Downed
  <2>4. CASE Closes(i)
    <3>1. Downed(i)
      BY <2>4, CleanupDowns DEF Closes
    <3> QED BY <2>4, <3>1 DEF Kept, Downed, Closes, profileVars
  <2>5. CASE newWarmSlot(i)
    <3>1. rec.slot = "none" /\ UNCHANGED <<parked, taken, leaving, obsolete, abandoned, guest>>
      BY <2>5 DEF newWarmSlot, RecOK, profileVars
    <3> QED BY <1>0, <3>1 DEF Kept
  <2>6. CASE RecoverOrphans(i)
    <3>1. Downed(i)
      BY <2>6, CleanupDowns DEF RecoverOrphans
    <3>2. /\ taken \subseteq taken' \cup {i}
          /\ UNCHANGED <<parked, leaving, obsolete, abandoned, rec, guest>>
      BY <2>6 DEF RecoverOrphans, releaseSlot
    <3> QED BY <3>1, <3>2 DEF Kept, Downed
  <2> QED BY <1>1, <2>1, <2>2, <2>3, <2>4, <2>5, <2>6 DEF SlotStep
<1>2. CASE PoolStep
  <2>1. UNCHANGED <<rec, guest>>
    BY <1>2, PoolFrame
  <2>2. parked \cup taken \cup obsolete \cup leaving \cup abandoned
          \subseteq parked' \cup taken' \cup obsolete' \cup leaving' \cup abandoned'
    <3>1. ASSUME NEW c \in Contracts, NEW n \in 1..MaxTarget, Configure(c, n)
          PROVE  /\ UNCHANGED <<taken, leaving, abandoned>>
                 /\ obsolete = {} /\ parked \subseteq parked' \cup obsolete'
      BY <3>1 DEF Configure
    <3>2. CASE Remove \/ Shutdown \/ ShutdownReturns
      BY <3>2 DEF Remove, Shutdown, ShutdownReturns, profileVars
    <3> QED BY <1>2, <3>1, <3>2 DEF PoolStep
  <2> QED BY <2>1, <2>2 DEF Kept
<1>3. CASE LoopStep
  <2>0. UNCHANGED <<taken, leaving, obsolete, abandoned, guest>>
    BY <1>3, LoopFrame
  <2>1. CASE reconcile \/ bootFails
    <3>1. rec.slot = "none" /\ parked' = parked
      BY <2>1 DEF reconcile, bootFails, RecOK, profileVars
    <3> QED BY <1>0, <2>0, <3>1 DEF Kept
  <2>2. CASE round
    <3>1. rec.slot = "none" /\ parked \subseteq parked' \cup {rec'.slot}
      BY <2>2 DEF round, RecOK
    <3> QED BY <1>0, <2>0, <3>1 DEF Kept
  <2>3. CASE drain
    <3>1. Downed(rec.slot)
      BY <2>3, CleanupDowns DEF drain, RecOK
    <3> QED BY <2>0, <2>3, <3>1 DEF Kept, drain, Downed, profileVars
  <2>4. CASE publish /\ Fits
    <3>1. parked' = parked \cup {rec.slot}
      BY <2>4 DEF publish
    <3> QED BY <2>0, <3>1 DEF Kept
  <2>5. CASE publish /\ ~Fits
    <3>1. Downed(rec.slot) /\ parked' = parked
      BY <2>5, CleanupDowns DEF publish, RecOK
    <3> QED BY <2>0, <3>1 DEF Kept, Downed
  <2> QED BY <1>3, <2>1, <2>2, <2>3, <2>4, <2>5 DEF LoopStep
<1>4. ASSUME NEW a \in Attempts, ClaimStep(a) PROVE Kept(j)' \/ vm'[j] \in Down
  <2>0. UNCHANGED <<rec, leaving, obsolete, abandoned>>
    BY <1>4, ClaimFrame
  <2>1. CASE ClaimCloses(a) \/ WaitOrCancel(a)
    <3>1. Downed(guest[a].slot)
      BY <2>1, CleanupDowns DEF ClaimCloses, WaitOrCancel, GuestHeld
    <3>2. taken \subseteq taken' \cup {guest[a].slot} /\ parked' = parked
      BY <2>1 DEF ClaimCloses, WaitOrCancel, releaseSlot
    <3>3. \A b \in Attempts : b # a => guest'[b] = guest[b]
      BY <2>1 DEF ClaimCloses, WaitOrCancel, End, WarmTypes
    <3>4. CASE j = guest[a].slot
      BY <3>1, <3>4 DEF Downed
    <3>5. CASE j # guest[a].slot
      BY <2>0, <3>2, <3>3, <3>5 DEF Kept
    <3> QED BY <3>4, <3>5
  <2>2. CASE ~(ClaimCloses(a) \/ WaitOrCancel(a))
    <3>1. parked \cup taken \subseteq parked' \cup taken'
      BY <1>4, <2>2 DEF ClaimStep, Claim, inject, injectFails, profileVars
    <3>2. \A b \in Attempts : guest[b].slot = j => j \in taken' \/ guest'[b].slot = j
      <4>1. CASE inject(a) \/ injectFails(a)
        BY <4>1 DEF inject, injectFails, WarmTypes
      <4>2. ASSUME NEW c \in Contracts, Claim(a, c), NEW b \in Attempts, guest[b].slot = j,
                   guest'[b].slot # j
            PROVE  FALSE
        <5>1. CASE guest'[b].slot = guest[b].slot
          BY <4>2, <5>1
        <5>2. PICK i \in parked : guest' = [guest EXCEPT ![a] = [at |-> "injecting", slot |-> i, as |-> c]]
          BY <4>2 DEF Claim, WarmTypes
        <5>3. a = b /\ guest[a].at = "off"
          BY <4>2, <5>2 DEF Claim, WarmTypes
        <5> QED BY <1>0, <4>2, <5>3 DEF GuestHeld
      <4> QED BY <1>4, <2>2, <4>1, <4>2 DEF ClaimStep
    <3> QED BY <2>0, <3>1, <3>2 DEF Kept
  <2> QED BY <2>1, <2>2
<1> QED BY <1>1, <1>2, <1>3, <1>4, Steps

(* Every step leaves no microVM to nobody.                                     *)
LEMMA NextNoStray ==
  WarmTypes /\ RecOK /\ GuestHeld /\ NoStrayVM /\ WarmNext => NoStrayVM'
<1> SUFFICES ASSUME WarmTypes, RecOK, GuestHeld, NoStrayVM, WarmNext, NEW j \in Slots
             PROVE  \/ vm'[j] \in Down \cup {"none"}
                    \/ Kept(j)'
                    \/ vm'[j] = "exited" /\ ~reserved'[j]
  BY DEF NoStrayVM
<1>1. CASE Kept(j)
  BY <1>1, KeptStays
<1>2. CASE ~Kept(j)
  <2>0. vm[j] \in Down \cup {"none"} \/ (vm[j] = "exited" /\ ~reserved[j])
    BY <1>2 DEF NoStrayVM
  <2>1. CASE newWarmSlot(j)
    <3>1. rec'.slot = j
      BY <2>1 DEF newWarmSlot, WarmTypes
    <3> QED BY <3>1 DEF Kept
  <2>2. CASE ~newWarmSlot(j)
    <3>1. reserved'[j] = reserved[j] \/ \E a \in Attempts : guest[a].slot = j
      <4>1. ASSUME NEW i \in Slots, newWarmSlot(i) PROVE reserved'[j] = reserved[j]
        BY <2>2, <4>1 DEF newWarmSlot, WarmTypes
      <4>2. ASSUME NEW a \in Attempts, inject(a), guest[a].slot # j PROVE reserved'[j] = reserved[j]
        BY <4>2 DEF inject, WarmTypes
      <4>3. ASSUME NEW a \in Attempts, ClaimStep(a), ~inject(a) PROVE reserved' = reserved
        BY <4>3 DEF ClaimStep, Claim, injectFails, ClaimCloses, WaitOrCancel, vmVars
      <4> QED BY <4>1, <4>2, <4>3, Steps, SlotFrame, PoolFrame, LoopFrame
    <3>2. vm'[j] = vm[j] \/ vm'[j] \in Down
      <4>1. ASSUME NEW i \in Slots, SlotStep(i) PROVE vm'[j] = vm[j] \/ vm'[j] \in Down
        <5>1. CASE markExited(i)
          BY <2>0, <5>1 DEF markExited, WarmTypes, Down
        <5>2. CASE newWarmSlot(i)
          BY <2>2, <5>2 DEF newWarmSlot, WarmTypes
        <5>3. CASE watchIdle(i)
          BY <5>3 DEF watchIdle, vmVars
        <5>4. CASE exitedIdle(i) \/ ConfigureCloses(i) \/ Closes(i) \/ RecoverOrphans(i)
          <6>1. Downed(i)
            BY <5>4, CleanupDowns DEF exitedIdle, ConfigureCloses, Closes, RecoverOrphans
          <6> QED BY <6>1 DEF Downed
        <5> QED BY <4>1, <5>1, <5>2, <5>3, <5>4 DEF SlotStep
      <4>2. CASE LoopStep
        <5>1. CASE drain
          <6>1. Downed(rec.slot)
            BY <5>1, CleanupDowns DEF drain, RecOK
          <6> QED BY <6>1 DEF Downed
        <5>2. CASE publish
          <6>1. vm' = vm \/ Downed(rec.slot)
            BY <5>2, CleanupDowns DEF publish, RecOK
          <6> QED BY <6>1 DEF Downed
        <5>3. CASE reconcile \/ round \/ bootFails
          BY <5>3 DEF reconcile, round, bootFails, vmVars
        <5> QED BY <4>2, <5>1, <5>2, <5>3 DEF LoopStep
      <4>3. ASSUME NEW a \in Attempts, ClaimStep(a) PROVE vm'[j] = vm[j] \/ vm'[j] \in Down
        <5>1. CASE ClaimCloses(a) \/ WaitOrCancel(a)
          <6>1. Downed(guest[a].slot)
            BY <5>1, CleanupDowns DEF ClaimCloses, WaitOrCancel, GuestHeld
          <6> QED BY <6>1 DEF Downed
        <5>2. CASE ~(ClaimCloses(a) \/ WaitOrCancel(a))
          BY <4>3, <5>2 DEF ClaimStep, Claim, inject, injectFails, vmVars
        <5> QED BY <5>1, <5>2
      <4> QED BY <4>1, <4>2, <4>3, Steps, PoolFrame
    <3> QED BY <1>2, <2>0, <3>1, <3>2 DEF Kept
  <2> QED BY <2>1, <2>2
<1> QED BY <1>1, <1>2

(* The invariant is inductive.                                                 *)
LEMMA NextWarmInv == WarmInv /\ [WarmNext]_warmVars => WarmInv'
<1> SUFFICES ASSUME WarmInv, [WarmNext]_warmVars PROVE WarmInv'
  OBVIOUS
<1>1. CASE WarmNext
  <2> USE <1>1 DEF WarmInv
  <2>1. WarmTypes'
    BY NextWarmTypes
  <2>2. RecOK' /\ PoolOK'
    BY NextRecOK, NextPoolOK
  <2>3. GuestHeld'
    BY <2>1, NextGuestHeld
  <2>4. RightContract' /\ NoStrayVM'
    BY NextRightContract, NextNoStray
  <2> QED BY <2>1, <2>2, <2>3, <2>4
<1>2. CASE UNCHANGED warmVars
  <2> USE <1>2 DEF warmVars, profileVars, vmVars
  <2>1. WarmTypes' /\ RecOK' /\ PoolOK' /\ RightContract'
    BY DEF WarmInv, WarmTypes, RecOK, PoolOK, RightContract
  <2>2. GuestHeld' /\ NoStrayVM'
    BY DEF WarmInv, GuestHeld, Held, NoStrayVM, Kept
  <2> QED BY <2>1, <2>2 DEF WarmInv
<1> QED BY <1>1, <1>2

(* The invariant implies that the pool is sound.                               *)
LEMMA InvIsSound == WarmInv => PoolSound
<1> SUFFICES ASSUME WarmInv PROVE NothingAfterShutdown
  BY DEF WarmInv, PoolSound
<1> SUFFICES ASSUME poolClosed = "done", NEW i \in Slots, vm[i] = "up"
             PROVE  i \in obsolete \cup abandoned
  BY DEF NothingAfterShutdown
<1>0. "none" \notin Slots
  BY WarmPoolAssumption
<1>1. parked = {} /\ taken = {} /\ leaving = {} /\ rec.slot = "none"
  BY DEF WarmInv, PoolOK, RecOK
<1>2. Kept(i)
  BY DEF WarmInv, NoStrayVM, Down
<1>3. \A a \in Attempts : guest[a].slot # i
  BY <1>1 DEF WarmInv, GuestHeld, Held, Down
<1> QED BY <1>0, <1>1, <1>2, <1>3 DEF Kept

(* For every pool, every interleaving of readiness refreshes, boots, claims,   *)
(* exits and shutdown, and any failure of a boot, an injection or a cleanup,   *)
(* an Attempt only runs in a microVM booted under its contract, no microVM is  *)
(* left to nobody but by a failed Configure, and none appears after Shutdown   *)
(* (warm_pool.go).                                                             *)
THEOREM PoolIsSound == WarmSpec => []PoolSound
<1>1. WarmSpec => []WarmInv
  BY InitWarmInv, NextWarmInv, PTL DEF WarmSpec
<1>2. WarmInv => PoolSound
  BY InvIsSound
<1> QED BY <1>1, <1>2, PTL

(* A step that parks a microVM leaves the pool within its target.              *)
LEMMA NextJoins ==
  ASSUME WarmTypes, RecOK, PoolOK, WarmNext
  PROVE  parked' \subseteq parked \/ Cardinality(parked' \cup taken') <= target'
<1>1. CASE publish /\ Fits
  <2>1. /\ parked' \cup taken' = (parked \cup taken) \cup {rec.slot} /\ target' = target
        /\ Cardinality(parked \cup taken) < target
    BY <1>1 DEF publish, Fits, Owned
  <2>2. IsFiniteSet(parked \cup taken)
    BY FS_Union DEF WarmTypes
  <2>3. Cardinality(parked \cup taken) \in Nat
    BY <2>2, FS_CardinalityType
  <2>4. \/ Cardinality(parked' \cup taken') = Cardinality(parked \cup taken)
        \/ Cardinality(parked' \cup taken') = Cardinality(parked \cup taken) + 1
    BY <2>1, <2>2, FS_AddElement
  <2>5. target \in Nat
    BY DEF WarmTypes
  <2> QED BY <2>1, <2>3, <2>4, <2>5
<1>2. CASE ~(publish /\ Fits)
  BY <1>2, ParkedStep
<1> QED BY <1>1, <1>2

(* Whatever was configured, claimed or lost during a boot of up to fifteen     *)
(* minutes, the microVM joins the pool only within the target of that moment   *)
(* (reconcile, warm_pool.go).                                                  *)
THEOREM JoinsStayWithinTarget == WarmSpec => JoinsWithinTarget
<1>1. WarmInv /\ [WarmNext]_warmVars =>
        [parked' \subseteq parked \/ Cardinality(parked' \cup taken') <= target']_warmVars
  BY NextJoins DEF WarmInv
<1> QED BY <1>1, InitWarmInv, NextWarmInv, PTL DEF WarmSpec, JoinsWithinTarget

-----------------------------------------------------------------------------
(* Placement. PlacementSound and what an Agent's round carries: a Profile it   *)
(* copied is one that was registered, and the one it checks is in the copy.    *)

RoundOK(x) ==
  /\ x = [specs |-> x.specs, at |-> x.at, full |-> x.full]
  /\ x.specs \in [ProfileNames -> Known \union {NoReport}]
  /\ x.at # NoReport => x.at \in ProfileNames /\ x.specs[x.at] # NoReport
RoundsOK == refresh = [b \in Boxes |-> refresh[b]] /\ \A b \in Boxes : RoundOK(refresh[b])

PlacementInv == PlacementSound /\ RoundsOK

(* The same, of any tables.                                                    *)
On(w, b) == {i \in Works : w[i].st \in {"pending", "preparing", "running"} /\ w[i].on = b}
Counted(m, w) == \A b \in Boxes : m[b].usedSlots = Cardinality(On(w, b))
HandedOut(x) == x.kind = "attempt" /\ x.st \in {"pending", "preparing"} /\ x.on # NoBox /\ ~x.retiring
Pinned(pr, m, w) == \A i \in Works : HandedOut(w[i]) => pr[w[i].p].pin \ m[w[i].on].labels = {}
Apart(pr) ==
  \A p, q \in ProfileNames :
    pr[p].active /\ pr[q].active => ~scaleSetConflict(p, pr[p].labels, q, pr[q].labels)
WorkRows == WorkRow \union {NoWork, Ended}
TablesRight(pr, m, w) ==
  /\ pr \in [ProfileNames -> ProfileRow] /\ m \in [Boxes -> MachineRow] /\ w \in [Works -> WorkRows]
  /\ Counted(m, w) /\ Pinned(pr, m, w) /\ Apart(pr)
ReadinessRight(rd) == rd \in [Boxes -> [ProfileNames -> ReadinessRow \union {NoReport}]]
RefreshRight(rf) == rf = [b \in Boxes |-> rf[b]] /\ \A b \in Boxes : RoundOK(rf[b])

LEMMA PlacementInvIs ==
  /\ PlacementInv <=> TablesRight(profile, host, work) /\ ReadinessRight(readiness) /\ RefreshRight(refresh)
  /\ PlacementInv' <=> TablesRight(profile', host', work') /\ ReadinessRight(readiness') /\ RefreshRight(refresh')
<1>1. \A b \in Boxes : OnBox(b, PlacedNow) = On(work, b) /\ OnBox(b, PlacedNow)' = On(work', b)
  BY DEF OnBox, PlacedNow, On, LiveWork
<1>2. SlotsCounted <=> Counted(host, work)
  BY <1>1 DEF SlotsCounted, Counted
<1>3. SlotsCounted' <=> Counted(host', work')
  BY <1>1 DEF SlotsCounted, Counted
<1>4. (PinKept <=> Pinned(profile, host, work)) /\ (PinKept' <=> Pinned(profile', host', work'))
  BY DEF PinKept, Pinned, HandedOut, missingHostLabels
<1>5. (LabelsApart <=> Apart(profile)) /\ (LabelsApart' <=> Apart(profile'))
  BY DEF LabelsApart, Apart
<1>6. /\ PlacementTypeOK <=> /\ profile \in [ProfileNames -> ProfileRow] /\ host \in [Boxes -> MachineRow]
                             /\ work \in [Works -> WorkRows] /\ ReadinessRight(readiness)
      /\ PlacementTypeOK' <=> /\ profile' \in [ProfileNames -> ProfileRow] /\ host' \in [Boxes -> MachineRow]
                              /\ work' \in [Works -> WorkRows] /\ ReadinessRight(readiness')
  BY DEF PlacementTypeOK, WorkRows, ReadinessRight
<1>7. (RoundsOK <=> RefreshRight(refresh)) /\ (RoundsOK' <=> RefreshRight(refresh'))
  BY DEF RoundsOK, RefreshRight
<1> QED
  BY <1>2, <1>3, <1>4, <1>5, <1>6, <1>7 DEF PlacementInv, PlacementSound, TablesRight

LEMMA WorksFinite ==
  ASSUME NEW w, NEW b
  PROVE  IsFiniteSet(Works) /\ IsFiniteSet(On(w, b)) /\ Cardinality(On(w, b)) \in Nat
<1>1. IsFiniteSet(Works)
  BY PlacementAssumption, FS_Interval DEF Works
<1> QED
  BY <1>1, FS_Subset, FS_CardinalityType DEF On

LEMMA LargerOf ==
  ASSUME NEW a \in Int, NEW c \in Int
  PROVE  Max({a, c}) = IF a >= c THEN a ELSE c
<1>1. \E e \in {a, c} : \A d \in {a, c} : e >= d
  OBVIOUS
<1>2. Max({a, c}) \in {a, c} /\ \A d \in {a, c} : Max({a, c}) >= d
  BY <1>1 DEF Max
<1> QED
  BY <1>2

LEMMA SmallerOf ==
  ASSUME NEW a \in Int, NEW c \in Int
  PROVE  Min({a, c}) = IF a <= c THEN a ELSE c
<1>1. \E e \in {a, c} : \A d \in {a, c} : e <= d
  OBVIOUS
<1>2. Min({a, c}) \in {a, c} /\ \A d \in {a, c} : Min({a, c}) <= d
  BY <1>1 DEF Min
<1> QED
  BY <1>2

LEMMA SmallestOf ==
  ASSUME NEW a \in Int, NEW c \in Int, NEW e \in Int, NEW S \in SUBSET {a, c, e}, S # {}
  PROVE  Min(S) \in S
<1>1. \E f \in S : \A d \in S : f <= d
  <2>1. CASE a \in S /\ (c \in S => a <= c) /\ (e \in S => a <= e)
    <3>1. \A d \in S : a <= d
      BY <2>1
    <3> QED
      BY <2>1, <3>1
  <2>2. CASE c \in S /\ (a \in S => c <= a) /\ (e \in S => c <= e)
    <3>1. \A d \in S : c <= d
      BY <2>2
    <3> QED
      BY <2>2, <3>1
  <2>3. CASE e \in S /\ (a \in S => e <= a) /\ (c \in S => e <= c)
    <3>1. \A d \in S : e <= d
      BY <2>3
    <3> QED
      BY <2>3, <3>1
  <2>4. a \in S \/ c \in S \/ e \in S
    OBVIOUS
  <2> QED
    BY <2>1, <2>2, <2>3, <2>4
<1> QED
  BY <1>1 DEF Min

(* Recommended slots are a number of slots, at least one.                      *)
LEMMA SlotsRecommended ==
  ASSUME NEW cpus \in Nat, NEW report \in Benchmarks \union {NoReport}
  PROVE  benchmarkRecommendedSlots(resourceRecommendedSlots(cpus), report) \in Nat \ {0}
<1>1. PICK slots : slots = resourceRecommendedSlots(cpus)
  OBVIOUS
<1>2. slots \in Nat \ {0}
  <2>1. cpus \div CpusPerSlot \in Nat
    BY PlacementAssumption
  <2> QED
    BY <1>1, <2>1, LargerOf DEF resourceRecommendedSlots
<1>3. PICK measured : measured = {d \in {"cpu", "memory", "disk"} : report[d] # NoReport}
  OBVIOUS
<1>4. CASE report = NoReport \/ measured = {}
  BY <1>1, <1>2, <1>3, <1>4 DEF benchmarkRecommendedSlots
<1>5. CASE ~(report = NoReport \/ measured = {})
  <2>1. PICK n : n = normalizeBenchmark(report)
    OBVIOUS
  <2>2. report \in [{"cpu", "memory", "disk", "network"} -> Nat \union {NoReport}]
    BY <1>5, PlacementAssumption
  <2>3. \A d \in {"cpu", "memory", "disk"} : n[d] \in Int
    <3> TAKE d \in {"cpu", "memory", "disk"}
    <3>1. d \in DOMAIN report /\ (report[d] # NoReport => report[d] \in Nat)
      BY <2>2
    <3>2. CASE report[d] = NoReport
      BY <2>1, <3>1, <3>2 DEF normalizeBenchmark
    <3>3. CASE report[d] # NoReport
      <4>1. n[d] = Max({0, Min({100, report[d]})})
        BY <2>1, <3>1, <3>3 DEF normalizeBenchmark
      <4>2. Min({100, report[d]}) \in Int
        BY <3>1, <3>3, SmallerOf
      <4> QED
        BY <4>1, <4>2, LargerOf
    <3> QED
      BY <3>2, <3>3
  <2>4. PICK scores : scores = {n[d] : d \in measured}
    OBVIOUS
  <2>5. PICK weakest : weakest = Min(scores)
    OBVIOUS
  <2>6. weakest \in Int
    <3>1. scores \in SUBSET {n["cpu"], n["memory"], n["disk"]} /\ scores # {}
      BY <1>3, <1>5, <2>4
    <3>2. weakest \in scores
      BY <2>3, <2>5, <3>1, SmallestOf
    <3> QED
      BY <2>3, <3>1, <3>2
  <2>7. PICK share : share = (slots * (100 + 3 * weakest)) \div 400
    OBVIOUS
  <2>8. share \in Int
    <3>1. slots * (100 + 3 * weakest) \in Int
      BY <1>2, <2>6
    <3> QED
      BY <2>7, <3>1
  <2>9. benchmarkRecommendedSlots(slots, report) = Max({1, Min({slots, share})})
    BY <1>3, <1>5, <2>1, <2>4, <2>5, <2>7 DEF benchmarkRecommendedSlots
  <2>10. Min({slots, share}) \in Int
    BY <1>2, <2>8, SmallerOf
  <2>11. Max({1, Min({slots, share})}) \in Nat \ {0}
    BY <2>10, LargerOf
  <2> QED
    BY <1>1, <2>9, <2>11
<1> QED
  BY <1>4, <1>5

(* releaseMachineSlot frees what the work it is given had.                     *)
SlotsOf(m, m2, w, done) ==
  /\ m2 \in [Boxes -> MachineRow]
  /\ \A b \in Boxes : m2[b].labels = m[b].labels /\ m2[b].usedSlots = Cardinality(On(w, b) \ done)

LEMMA ReleaseFrees ==
  ASSUME NEW m \in [Boxes -> MachineRow], Counted(m, work), NEW done \in SUBSET Works,
         \A i \in done : LiveWork(i)
  PROVE  SlotsOf(m, releaseMachineSlot(m, done), work, done)
<1>1. PICK m2 : m2 = releaseMachineSlot(m, done)
  OBVIOUS
<1>2. ASSUME NEW b \in Boxes
      PROVE  m2[b] \in MachineRow /\ m2[b].labels = m[b].labels /\ m2[b].usedSlots = Cardinality(On(work, b) \ done)
  <2>1. PICK n : n = Cardinality({i \in done : work[i].on = b})
    OBVIOUS
  <2>2. {i \in done : work[i].on = b} = On(work, b) \cap done
    BY DEF On, LiveWork
  <2>3. IsFiniteSet(On(work, b)) /\ m[b].usedSlots = Cardinality(On(work, b)) /\ m[b] \in MachineRow
    BY WorksFinite DEF Counted
  <2>4. Cardinality(On(work, b) \ done) = m[b].usedSlots - n /\ Cardinality(On(work, b) \ done) \in Nat
    <3>1. IsFiniteSet(On(work, b) \ done)
          /\ Cardinality(On(work, b) \ done) = Cardinality(On(work, b)) - Cardinality(On(work, b) \cap done)
      BY <2>3, FS_Difference
    <3>2. Cardinality(On(work, b) \ done) \in Nat
      BY <3>1, FS_CardinalityType
    <3> QED
      BY <2>1, <2>2, <2>3, <3>1, <3>2
  <2>5. Max({0, m[b].usedSlots - n}) = m[b].usedSlots - n /\ m[b].usedSlots - n \in Nat
    BY <2>4, LargerOf
  <2>6. m2[b] = [m[b] EXCEPT !.usedSlots = m[b].usedSlots - n]
    BY <1>1, <2>1, <2>3, <2>5 DEF releaseMachineSlot, MachineRow
  <2> QED
    BY <2>3, <2>4, <2>5, <2>6 DEF MachineRow
<1>3. m2 \in [Boxes -> MachineRow]
  BY <1>1, <1>2 DEF releaseMachineSlot
<1> QED
  BY <1>1, <1>2, <1>3 DEF SlotsOf

LEMMA WorkRowKinds ==
  ASSUME NEW e \in WorkRows
  PROVE  /\ e.st \in {"none", "done"} => e.on = NoBox
         /\ e.st \notin {"none", "done"} => e \in WorkRow
BY DEF WorkRows, NoWork, Ended, WorkRow

(* Idle work off its pin goes back to the queue or is retired.                 *)
LEMMA RetireFits ==
  ASSUME TablesRight(profile, host, work), NEW pr \in [ProfileNames -> ProfileRow], Apart(pr),
         NEW m \in [Boxes -> MachineRow], \A b \in Boxes : m[b].usedSlots = host[b].usedSlots,
         NEW off \in SUBSET Works, retireIfOffPin(off, m),
         \A i \in off : work[i].st \in {"pending", "preparing"},
         \A i \in Works \ off : HandedOut(work[i]) => pr[work[i].p].pin \ m[work[i].on].labels = {}
  PROVE  TablesRight(pr, host', work')
<1>1. work \in [Works -> WorkRows] /\ Counted(m, work)
  BY DEF TablesRight, Counted
<1>2. PICK queued : queued = {i \in off : work[i].st = "pending"}
  OBVIOUS
<1>3. host' = releaseMachineSlot(m, queued)
      /\ work' = [i \in Works |-> IF i \in queued THEN [work[i] EXCEPT !.on = NoBox]
                                  ELSE IF i \in off THEN [work[i] EXCEPT !.retiring = TRUE] ELSE work[i]]
  BY <1>2 DEF retireIfOffPin
<1>4. SlotsOf(m, host', work, queued)
  <2>1. queued \in SUBSET Works /\ \A i \in queued : LiveWork(i)
    BY <1>2 DEF LiveWork
  <2> QED
    BY <1>1, <1>3, <2>1, ReleaseFrees
<1>5. /\ \A i \in queued : work'[i] \in WorkRow /\ work'[i].on = NoBox
      /\ \A i \in off \ queued : work'[i] \in WorkRow /\ work'[i].on = work[i].on /\ work'[i].st = work[i].st
                                   /\ work'[i].retiring
      /\ \A i \in Works \ off : work'[i] = work[i]
  <2>1. \A i \in off : work[i] \in WorkRow
    BY <1>1, WorkRowKinds
  <2>2. \A i \in queued : i \in off /\ work'[i] = [work[i] EXCEPT !.on = NoBox]
    BY <1>2, <1>3
  <2>3. \A i \in off \ queued : work'[i] = [work[i] EXCEPT !.retiring = TRUE]
    BY <1>3
  <2>4. ASSUME NEW i \in queued  PROVE work'[i] \in WorkRow /\ work'[i].on = NoBox
    <3>1. work[i] \in WorkRow /\ work'[i] = [work[i] EXCEPT !.on = NoBox]
      BY <2>1, <2>2
    <3> QED
      BY <3>1 DEF WorkRow
  <2>5. ASSUME NEW i \in off \ queued
        PROVE  work'[i] \in WorkRow /\ work'[i].on = work[i].on /\ work'[i].st = work[i].st /\ work'[i].retiring
    <3>1. work[i] \in WorkRow /\ work'[i] = [work[i] EXCEPT !.retiring = TRUE]
      BY <2>1, <2>3
    <3>2. work'[i] \in WorkRow
      BY <3>1 DEF WorkRow
    <3>3. work'[i].on = work[i].on /\ work'[i].st = work[i].st
      BY <3>1 DEF WorkRow
    <3>4. work'[i].retiring = TRUE
      BY <3>1 DEF WorkRow
    <3> QED
      BY <3>2, <3>3, <3>4
  <2>6. \A i \in Works \ off : work'[i] = work[i]
    BY <1>2, <1>3
  <2> QED
    BY <2>4, <2>5, <2>6
<1>6. work' \in [Works -> WorkRows]
  <2>1. \A i \in Works : work'[i] \in WorkRows
    BY <1>1, <1>5 DEF WorkRows
  <2> QED
    BY <1>3, <2>1
<1>7. ASSUME NEW b \in Boxes  PROVE On(work', b) = On(work, b) \ queued
  <2>1. b # NoBox
    BY PlacementAssumption
  <2>2. ASSUME NEW i \in Works  PROVE i \in On(work', b) <=> i \in On(work, b) \ queued
    BY <1>2, <1>5, <2>1 DEF On
  <2> QED
    BY <2>2 DEF On
<1>8. host' \in [Boxes -> MachineRow] /\ Counted(host', work')
  BY <1>4, <1>7 DEF SlotsOf, Counted
<1>9. Pinned(pr, host', work')
  <2> SUFFICES ASSUME NEW i \in Works, HandedOut(work'[i])
               PROVE  pr[work'[i].p].pin \ host'[work'[i].on].labels = {}
    BY DEF Pinned
  <2>1. i \notin off /\ work'[i] = work[i]
    BY <1>5 DEF HandedOut
  <2>2. work[i].on \in Boxes
    <3>1. work[i] \in WorkRow
      BY <1>1, <2>1, WorkRowKinds DEF HandedOut
    <3> QED
      BY <2>1, <3>1 DEF HandedOut, WorkRow
  <2>3. host'[work[i].on].labels = m[work[i].on].labels
    BY <1>4, <2>2 DEF SlotsOf
  <2> QED
    BY <2>1, <2>3
<1> QED
  BY <1>6, <1>8, <1>9 DEF TablesRight

LEMMA EndFits ==
  ASSUME TablesRight(profile, host, work), NEW i \in Works, LiveWork(i), EndWork(i)
  PROVE  TablesRight(profile, host', work')
<1>1. work \in [Works -> WorkRows] /\ Counted(host, work) /\ host \in [Boxes -> MachineRow]
      /\ profile \in [ProfileNames -> ProfileRow] /\ Apart(profile) /\ Pinned(profile, host, work)
  BY DEF TablesRight
<1>2. work' = [work EXCEPT ![i] = Ended] /\ host' = releaseMachineSlot(host, {i})
  BY DEF EndWork
<1>3. SlotsOf(host, host', work, {i})
  BY <1>1, <1>2, ReleaseFrees
<1>4. Ended \in WorkRows /\ Ended.st = "done" /\ Ended.on = NoBox
  BY DEF WorkRows, Ended, NoWork
<1>5. work' \in [Works -> WorkRows] /\ work'[i].st = "done" /\ \A k \in Works \ {i} : work'[k] = work[k]
  BY <1>1, <1>2, <1>4
<1>6. \A b \in Boxes : On(work', b) = On(work, b) \ {i}
  BY <1>5 DEF On
<1>7. host' \in [Boxes -> MachineRow] /\ Counted(host', work')
  BY <1>3, <1>6 DEF SlotsOf, Counted
<1>8. Pinned(profile, host', work')
  <2> SUFFICES ASSUME NEW k \in Works, HandedOut(work'[k])
               PROVE  profile[work'[k].p].pin \ host'[work'[k].on].labels = {}
    BY DEF Pinned
  <2>1. work'[k] = work[k]
    BY <1>5 DEF HandedOut
  <2>2. work[k].on \in Boxes
    <3>1. work[k] \in WorkRow
      BY <1>1, <2>1, WorkRowKinds DEF HandedOut
    <3> QED
      BY <2>1, <3>1 DEF HandedOut, WorkRow
  <2>3. host'[work[k].on].labels = host[work[k].on].labels
    BY <1>3, <2>2 DEF SlotsOf
  <2> QED
    BY <1>1, <2>1, <2>3 DEF Pinned
<1> QED
  BY <1>1, <1>5, <1>7, <1>8 DEF TablesRight

(* A pass places what waits on Workers that carry its Profile's labels.        *)
LEMMA AssignFits ==
  ASSUME TablesRight(profile, host, work), tryAssign
  PROVE  TablesRight(profile, host', work')
<1>1. work \in [Works -> WorkRows] /\ Counted(host, work) /\ host \in [Boxes -> MachineRow]
      /\ profile \in [ProfileNames -> ProfileRow] /\ Apart(profile) /\ Pinned(profile, host, work)
  BY DEF TablesRight
<1>2. PICK f \in [unassignedQueue -> Boxes \union {NoBox}] :
        /\ placeInOrder(f)
        /\ work' = [i \in Works |-> IF i \in unassignedQueue THEN [work[i] EXCEPT !.on = f[i]] ELSE work[i]]
        /\ host' = [b \in Boxes |-> [host[b] EXCEPT !.usedSlots =
                      @ + Cardinality({i \in unassignedQueue : f[i] = b})]]
  BY Zenon DEF tryAssign
<1>3. \A i \in unassignedQueue : i \in Works /\ work[i].st = "pending" /\ work[i].on = NoBox /\ work[i] \in WorkRow
  BY <1>1, WorkRowKinds DEF unassignedQueue
<1>4. ASSUME NEW i \in unassignedQueue, f[i] # NoBox
      PROVE  profile[work[i].p].pin \ host[f[i]].labels = {}
  <2>1. \E on : f[i] \in {b \in Boxes : isSchedulableReadiness(b, i) /\ Admits(b, i, on)}
    BY <1>2, <1>4 DEF placeInOrder
  <2>2. isSchedulableReadiness(f[i], i)
    BY <2>1
  <2> QED
    BY <2>2 DEF isSchedulableReadiness, missingHostLabels
<1>5. /\ \A i \in unassignedQueue :
           work'[i] \in WorkRow /\ work'[i].st = "pending" /\ work'[i].on = f[i] /\ work'[i].p = work[i].p
      /\ \A i \in Works \ unassignedQueue : work'[i] = work[i]
  <2>1. ASSUME NEW i \in unassignedQueue
        PROVE  work'[i] \in WorkRow /\ work'[i].st = "pending" /\ work'[i].on = f[i] /\ work'[i].p = work[i].p
    <3>1. work'[i] = [work[i] EXCEPT !.on = f[i]] /\ f[i] \in Boxes \union {NoBox}
      BY <1>2, <1>3
    <3> QED
      BY <1>3, <3>1 DEF WorkRow
  <2> QED
    BY <1>2, <2>1
<1>6. work' \in [Works -> WorkRows]
  <2>1. \A i \in Works : work'[i] \in WorkRows
    BY <1>1, <1>5 DEF WorkRows
  <2> QED
    BY <1>2, <2>1
<1>7. ASSUME NEW b \in Boxes
      PROVE  /\ host'[b] \in MachineRow /\ host'[b].labels = host[b].labels
             /\ host'[b].usedSlots = Cardinality(On(work', b))
  <2>1. PICK new : new = {i \in unassignedQueue : f[i] = b}
    OBVIOUS
  <2>2. On(work', b) = On(work, b) \cup new /\ On(work, b) \cap new = {}
    <3>1. b # NoBox
      BY PlacementAssumption
    <3>2. ASSUME NEW i \in Works  PROVE i \in On(work', b) <=> i \in On(work, b) \cup new
      BY <1>3, <1>5, <2>1, <3>1 DEF On
    <3>3. new \subseteq Works /\ On(work, b) \cap new = {}
      BY <1>3, <2>1, <3>1 DEF On
    <3> QED
      BY <3>2, <3>3 DEF On
  <2>3. IsFiniteSet(new) /\ Cardinality(new) \in Nat
    <3>1. new \in SUBSET Works /\ IsFiniteSet(Works)
      BY <1>3, <2>1, WorksFinite
    <3> QED
      BY <3>1, FS_Subset, FS_CardinalityType
  <2>4. Cardinality(On(work', b)) = Cardinality(On(work, b)) + Cardinality(new)
    <3>1. IsFiniteSet(On(work, b)) /\ Cardinality(On(work, b)) \in Nat
      BY WorksFinite
    <3>2. Cardinality(On(work, b) \cup new)
          = Cardinality(On(work, b)) + Cardinality(new) - Cardinality(On(work, b) \cap new)
      BY <2>3, <3>1, FS_Union
    <3>3. Cardinality({}) = 0
      BY FS_EmptySet
    <3>4. Cardinality(On(work, b) \cap new) = 0
      BY <2>2, <3>3
    <3>5. Cardinality(On(work, b) \cup new) = Cardinality(On(work, b)) + Cardinality(new)
      BY <2>3, <3>1, <3>2, <3>4
    <3> QED
      BY <2>2, <3>5
  <2>5. host[b] \in MachineRow /\ host[b].usedSlots = Cardinality(On(work, b))
    BY <1>1 DEF Counted
  <2>6. host'[b] = [host[b] EXCEPT !.usedSlots = host[b].usedSlots + Cardinality(new)]
    BY <1>2, <2>1, <2>5 DEF MachineRow
  <2> QED
    BY <2>3, <2>4, <2>5, <2>6 DEF MachineRow
<1>8. host' \in [Boxes -> MachineRow] /\ Counted(host', work')
  BY <1>2, <1>7 DEF Counted
<1>9. Pinned(profile, host', work')
  <2> SUFFICES ASSUME NEW k \in Works, HandedOut(work'[k])
               PROVE  profile[work'[k].p].pin \ host'[work'[k].on].labels = {}
    BY DEF Pinned
  <2>1. work'[k].on \in Boxes
    <3>1. work'[k] \in WorkRow
      BY <1>6, WorkRowKinds DEF HandedOut
    <3> QED
      BY <3>1 DEF HandedOut, WorkRow
  <2>2. host'[work'[k].on].labels = host[work'[k].on].labels
    BY <1>7, <2>1
  <2>3. CASE k \in unassignedQueue
    BY <1>4, <1>5, <2>2, <2>3 DEF HandedOut
  <2>4. CASE k \notin unassignedQueue
    BY <1>1, <1>5, <2>2, <2>4 DEF Pinned
  <2> QED
    BY <2>3, <2>4
<1> QED
  BY <1>1, <1>6, <1>8, <1>9 DEF TablesRight

(* What is registered, active or paused.                                       *)
LEMMA ProfileRowKinds ==
  ASSUME NEW r \in ProfileRow
  PROVE  /\ r.active \in BOOLEAN /\ (r.active => r \in Known)
         /\ r.pin \in SUBSET HostLabels
         /\ r \in Known => [r EXCEPT !.active = FALSE] \in ProfileRow
<1>1. Known \subseteq ProfileSpec
  BY PlacementAssumption DEF Known
<1>2. CASE r \in Known
  BY <1>1, <1>2 DEF ProfileRow, ProfileSpec
<1>3. CASE \E s \in Known : r = [s EXCEPT !.active = FALSE]
  <2>1. PICK s \in Known : r = [s EXCEPT !.active = FALSE]
    BY <1>3
  <2>2. s \in ProfileSpec
    BY <1>1, <2>1
  <2>3. r.active = FALSE /\ r.pin = s.pin /\ s.pin \in SUBSET HostLabels
    BY <2>1, <2>2 DEF ProfileSpec
  <2> QED
    BY <2>3 DEF ProfileRow
<1> QED
  BY <1>2, <1>3 DEF ProfileRow

LEMMA RegisterFits ==
  ASSUME TablesRight(profile, host, work), NEW p \in ProfileNames, NEW r \in Registrations, registerProfile(p, r)
  PROVE  TablesRight(profile', host', work')
<1>1. work \in [Works -> WorkRows] /\ Counted(host, work) /\ host \in [Boxes -> MachineRow]
      /\ profile \in [ProfileNames -> ProfileRow] /\ Apart(profile) /\ Pinned(profile, host, work)
  BY DEF TablesRight
<1>2. profile' = [profile EXCEPT ![p] = r] /\ introducedLabelConflicts(p, r.labels) = {}
  BY DEF registerProfile
<1>3. profile' \in [ProfileNames -> ProfileRow] /\ profile'[p] = r
      /\ \A q \in ProfileNames \ {p} : profile'[q] = profile[q]
  BY <1>1, <1>2 DEF ProfileRow, Known
<1>4. ASSUME NEW q \in ProfileNames \ {p}, profile[q].active
      PROVE  ~scaleSetConflict(p, r.labels, q, profile[q].labels)
  <2> SUFFICES ASSUME scaleSetConflict(p, r.labels, q, profile[q].labels)
               PROVE  FALSE
    OBVIOUS
  <2>1. q \in conflictsOf(p, r.labels)
    BY <1>4 DEF conflictsOf
  <2>2. profile[p].active /\ q \in conflictsOf(p, profile[p].labels)
    BY <1>2, <2>1 DEF introducedLabelConflicts
  <2>3. scaleSetConflict(p, profile[p].labels, q, profile[q].labels)
    BY <2>2 DEF conflictsOf
  <2> QED
    BY <1>1, <1>4, <2>2, <2>3 DEF Apart
<1>5. Apart(profile')
  <2> SUFFICES ASSUME NEW a \in ProfileNames, NEW c \in ProfileNames, profile'[a].active, profile'[c].active
               PROVE  ~scaleSetConflict(a, profile'[a].labels, c, profile'[c].labels)
    BY DEF Apart
  <2>1. CASE a = c
    BY <2>1 DEF scaleSetConflict
  <2>2. CASE a = p /\ c # p
    BY <1>3, <1>4, <2>2
  <2>3. CASE c = p /\ a # p
    <3>1. ~scaleSetConflict(p, r.labels, a, profile[a].labels)
      BY <1>3, <1>4, <2>3
    <3> QED
      BY <1>3, <2>3, <3>1 DEF scaleSetConflict
  <2>4. CASE a # p /\ c # p
    BY <1>1, <1>3, <2>4 DEF Apart
  <2> QED
    BY <2>1, <2>2, <2>3, <2>4
<1>6. CASE r.pin = profile[p].pin
  <2>1. work' = work /\ host' = host
    BY <1>6 DEF registerProfile
  <2>2. \A q \in ProfileNames : profile'[q].pin = profile[q].pin
    BY <1>3, <1>6
  <2>3. Pinned(profile', host', work')
    <3> SUFFICES ASSUME NEW i \in Works, HandedOut(work[i])
                 PROVE  profile'[work[i].p].pin \ host[work[i].on].labels = {}
      BY <2>1 DEF Pinned
    <3>1. work[i].p \in ProfileNames
      <4>1. work[i] \in WorkRow
        BY <1>1, WorkRowKinds DEF HandedOut
      <4> QED
        BY <4>1 DEF WorkRow
    <3> QED
      BY <1>1, <2>2, <3>1 DEF Pinned
  <2> QED
    BY <1>1, <1>3, <1>5, <2>1, <2>3 DEF TablesRight
<1>7. CASE r.pin # profile[p].pin
  <2>1. PICK off : off = {i \in Works : work[i].p = p /\ OffPin(i, r.pin, host)}
    OBVIOUS
  <2>2. retireIfOffPin(off, host)
    BY <1>7, <2>1 DEF registerProfile
  <2>3. off \in SUBSET Works /\ \A i \in off : work[i].st \in {"pending", "preparing"}
    BY <2>1 DEF OffPin
  <2>4. ASSUME NEW i \in Works \ off, HandedOut(work[i])
        PROVE  profile'[work[i].p].pin \ host[work[i].on].labels = {}
    <3>1. CASE work[i].p = p
      BY <1>3, <2>1, <2>4, <3>1 DEF OffPin, HandedOut, missingHostLabels
    <3>2. CASE work[i].p # p
      <4>1. work[i] \in WorkRow
        BY <1>1, <2>4, WorkRowKinds DEF HandedOut
      <4>2. work[i].p \in ProfileNames
        BY <4>1 DEF WorkRow
      <4> QED
        BY <1>1, <1>3, <2>4, <3>2, <4>2 DEF Pinned
    <3> QED
      BY <3>1, <3>2
  <2> QED
    BY <1>1, <1>3, <1>5, <2>2, <2>3, <2>4, RetireFits
<1> QED
  BY <1>6, <1>7

LEMMA PauseFits ==
  ASSUME TablesRight(profile, host, work), NEW p \in ProfileNames, pauseProfile(p)
  PROVE  TablesRight(profile', host', work')
<1>1. work \in [Works -> WorkRows] /\ Counted(host, work) /\ host \in [Boxes -> MachineRow]
      /\ profile \in [ProfileNames -> ProfileRow] /\ Apart(profile) /\ Pinned(profile, host, work)
  BY DEF TablesRight
<1>2. profile' = [profile EXCEPT ![p] = [profile[p] EXCEPT !.active = FALSE]]
      /\ profile[p].active /\ host' = host /\ work' = work
  BY DEF pauseProfile
<1>3. profile[p] \in Known /\ [profile[p] EXCEPT !.active = FALSE] \in ProfileRow
  BY <1>1, <1>2, ProfileRowKinds
<1>4. profile[p] \in ProfileSpec
  BY <1>3, PlacementAssumption DEF Known
<1>5. profile' \in [ProfileNames -> ProfileRow] /\ \A q \in ProfileNames \ {p} : profile'[q] = profile[q]
  BY <1>1, <1>2, <1>3
<1>6. profile'[p].active = FALSE /\ profile'[p].pin = profile[p].pin
  BY <1>1, <1>2, <1>4 DEF ProfileSpec
<1>7. Apart(profile')
  BY <1>1, <1>5, <1>6 DEF Apart
<1>8. Pinned(profile', host', work')
  <2> SUFFICES ASSUME NEW i \in Works, HandedOut(work[i])
               PROVE  profile'[work[i].p].pin \ host[work[i].on].labels = {}
    BY <1>2 DEF Pinned
  <2>1. work[i].p \in ProfileNames
    <3>1. work[i] \in WorkRow
      BY <1>1, WorkRowKinds DEF HandedOut
    <3> QED
      BY <3>1 DEF WorkRow
  <2>2. profile'[work[i].p].pin = profile[work[i].p].pin
    BY <1>5, <1>6, <2>1
  <2> QED
    BY <1>1, <2>2 DEF Pinned
<1> QED
  BY <1>1, <1>2, <1>5, <1>7, <1>8 DEF TablesRight

LEMMA LabelFits ==
  ASSUME TablesRight(profile, host, work), NEW b \in Boxes, NEW labels \in SUBSET HostLabels, setLabels(b, labels)
  PROVE  TablesRight(profile', host', work')
<1>1. work \in [Works -> WorkRows] /\ Counted(host, work) /\ host \in [Boxes -> MachineRow]
      /\ profile \in [ProfileNames -> ProfileRow] /\ Apart(profile) /\ Pinned(profile, host, work)
  BY DEF TablesRight
<1>2. PICK m : m = [host EXCEPT ![b].labels = labels]
  OBVIOUS
<1>3. PICK off : off = {i \in Works : work[i].on = b /\ OffPin(i, profile[work[i].p].pin, m)}
  OBVIOUS
<1>4. retireIfOffPin(off, m) /\ profile' = profile
  BY <1>2, <1>3 DEF setLabels
<1>5. m[b] = [host[b] EXCEPT !.labels = labels] /\ host[b] \in MachineRow /\ \A c \in Boxes \ {b} : m[c] = host[c]
  BY <1>1, <1>2
<1>6. m[b] \in MachineRow /\ m[b].usedSlots = host[b].usedSlots
  BY <1>5 DEF MachineRow
<1>7. m \in [Boxes -> MachineRow] /\ \A c \in Boxes : m[c].usedSlots = host[c].usedSlots
  BY <1>1, <1>2, <1>5, <1>6
<1>8. off \in SUBSET Works /\ \A i \in off : work[i].st \in {"pending", "preparing"}
  BY <1>3 DEF OffPin
<1>9. ASSUME NEW i \in Works \ off, HandedOut(work[i])
      PROVE  profile[work[i].p].pin \ m[work[i].on].labels = {}
  <2>1. CASE work[i].on = b
    BY <1>3, <1>9, <2>1 DEF OffPin, HandedOut, missingHostLabels
  <2>2. CASE work[i].on # b
    <3>1. work[i] \in WorkRow
      BY <1>1, <1>9, WorkRowKinds DEF HandedOut
    <3>2. work[i].on \in Boxes
      BY <1>9, <3>1 DEF WorkRow, HandedOut
    <3> QED
      BY <1>1, <1>5, <1>9, <2>2, <3>2 DEF Pinned
  <2> QED
    BY <2>1, <2>2
<1>10. TablesRight(profile, host', work')
  BY <1>1, <1>4, <1>7, <1>8, <1>9, RetireFits
<1> QED
  BY <1>4, <1>10

(* A change to one Worker's row that keeps its labels and its count.           *)
LEMMA RowFits ==
  ASSUME TablesRight(profile, host, work), NEW b \in Boxes, NEW row \in MachineRow,
         host' = [host EXCEPT ![b] = row], row.labels = host[b].labels, row.usedSlots = host[b].usedSlots
  PROVE  TablesRight(profile, host', work)
<1>1. work \in [Works -> WorkRows] /\ Counted(host, work) /\ host \in [Boxes -> MachineRow]
      /\ profile \in [ProfileNames -> ProfileRow] /\ Apart(profile) /\ Pinned(profile, host, work)
  BY DEF TablesRight
<1>2. host' \in [Boxes -> MachineRow]
      /\ \A c \in Boxes : host'[c].labels = host[c].labels /\ host'[c].usedSlots = host[c].usedSlots
  BY <1>1
<1>3. Counted(host', work)
  BY <1>1, <1>2 DEF Counted
<1>4. Pinned(profile, host', work)
  <2> SUFFICES ASSUME NEW i \in Works, HandedOut(work[i])
               PROVE  profile[work[i].p].pin \ host'[work[i].on].labels = {}
    BY DEF Pinned
  <2>1. work[i] \in WorkRow
    BY <1>1, WorkRowKinds DEF HandedOut
  <2>2. work[i].on \in Boxes
    BY <2>1 DEF WorkRow, HandedOut
  <2> QED
    BY <1>1, <1>2, <2>2 DEF Pinned
<1> QED
  BY <1>1, <1>2, <1>3, <1>4 DEF TablesRight

LEMMA RecommendFits ==
  ASSUME TablesRight(profile, host, work), NEW b \in Boxes, NEW report \in Benchmarks \union {NoReport},
         NEW kept \in Benchmarks \union {NoReport}, Recommend(b, report, kept)
  PROVE  TablesRight(profile, host', work)
<1>1. host \in [Boxes -> MachineRow]
  BY DEF TablesRight
<1>2. host[b] \in MachineRow /\ host[b].maxSlots \in Nat \ {0}
  BY <1>1 DEF MachineRow
<1>3. PICK slots : slots = benchmarkRecommendedSlots(resourceRecommendedSlots(BoxCpus[b]), report)
  OBVIOUS
<1>4. slots \in Nat \ {0}
  BY <1>3, PlacementAssumption, SlotsRecommended
<1>5. PICK n : n = IF host[b].fixed THEN host[b].maxSlots ELSE slots
  OBVIOUS
<1>6. PICK row : row = [host[b] EXCEPT !.bench = kept, !.maxSlots = n]
  OBVIOUS
<1>7. host' = [host EXCEPT ![b] = row]
  <2>1. host' = [host EXCEPT ![b].bench = kept, ![b].maxSlots = IF host[b].fixed THEN @ ELSE slots]
    BY <1>3 DEF Recommend
  <2> QED
    BY <1>1, <1>2, <1>5, <1>6, <2>1 DEF MachineRow
<1>8. n \in Nat \ {0}
  BY <1>2, <1>4, <1>5
<1>9. row \in MachineRow /\ row.labels = host[b].labels /\ row.usedSlots = host[b].usedSlots
  BY <1>2, <1>6, <1>8 DEF MachineRow
<1> QED
  BY <1>7, <1>9, RowFits

LEMMA OnlineFits ==
  ASSUME TablesRight(profile, host, work), NEW b \in Boxes, NEW v \in BOOLEAN,
         host' = [host EXCEPT ![b].online = v]
  PROVE  TablesRight(profile, host', work)
<1>1. host \in [Boxes -> MachineRow]
  BY DEF TablesRight
<1>2. PICK row : row = [host[b] EXCEPT !.online = v]
  OBVIOUS
<1>3. host' = [host EXCEPT ![b] = row]
  BY <1>2
<1>4. host[b] \in MachineRow
  BY <1>1
<1>5. row \in MachineRow /\ row.labels = host[b].labels /\ row.usedSlots = host[b].usedSlots
  BY <1>2, <1>4 DEF MachineRow
<1> QED
  BY <1>3, <1>5, RowFits

(* New work, and work that moves along where it is.                            *)
LEMMA WorkFits ==
  ASSUME TablesRight(profile, host, work), NEW i \in Works, NEW row \in WorkRows,
         work' = [work EXCEPT ![i] = row], row.on = work[i].on,
         (row.on # NoBox) => (row.st \in {"pending", "preparing", "running"} <=> LiveWork(i)),
         HandedOut(row) => HandedOut(work[i]) /\ row.p = work[i].p
  PROVE  TablesRight(profile, host, work')
<1>1. work \in [Works -> WorkRows] /\ Counted(host, work) /\ host \in [Boxes -> MachineRow]
      /\ profile \in [ProfileNames -> ProfileRow] /\ Apart(profile) /\ Pinned(profile, host, work)
  BY DEF TablesRight
<1>2. work' \in [Works -> WorkRows] /\ work'[i] = row /\ \A k \in Works \ {i} : work'[k] = work[k]
  BY <1>1
<1>3. ASSUME NEW b \in Boxes  PROVE On(work', b) = On(work, b)
  <2>1. b # NoBox
    BY PlacementAssumption
  <2>2. i \in On(work', b) <=> i \in On(work, b)
    BY <1>2, <2>1 DEF On, LiveWork
  <2>3. ASSUME NEW k \in Works  PROVE k \in On(work', b) <=> k \in On(work, b)
    BY <1>2, <2>2 DEF On
  <2> QED
    BY <2>3 DEF On
<1>4. Counted(host, work')
  BY <1>1, <1>3 DEF Counted
<1>5. Pinned(profile, host, work')
  <2> SUFFICES ASSUME NEW k \in Works, HandedOut(work'[k])
               PROVE  profile[work'[k].p].pin \ host[work'[k].on].labels = {}
    BY DEF Pinned
  <2>1. CASE k = i
    BY <1>1, <1>2, <2>1 DEF Pinned
  <2>2. CASE k # i
    BY <1>1, <1>2, <2>2 DEF Pinned
  <2> QED
    BY <2>1, <2>2
<1> QED
  BY <1>1, <1>2, <1>4, <1>5 DEF TablesRight

LEMMA CreateFits ==
  ASSUME TablesRight(profile, host, work), NEW p \in ProfileNames, NEW kind \in {"attempt", "experiment"},
         create(p, kind)
  PROVE  TablesRight(profile, host, work')
<1>1. work \in [Works -> WorkRows] /\ profile \in [ProfileNames -> ProfileRow]
  BY DEF TablesRight
<1>2. PICK i \in Works :
        /\ work[i].st = "none"
        /\ work' = [work EXCEPT ![i] =
             [kind |-> kind, st |-> "pending", p |-> p, contract |-> ContractOf(profile[p]),
              on |-> NoBox, retiring |-> FALSE]]
  BY DEF create
<1>3. PICK row : row = [kind |-> kind, st |-> "pending", p |-> p, contract |-> ContractOf(profile[p]),
                        on |-> NoBox, retiring |-> FALSE]
  OBVIOUS
<1>4. ContractOf(profile[p]) \in Agreed
  <2>1. profile[p] \in Known
    BY <1>1, ProfileRowKinds DEF create
  <2> QED
    BY <2>1 DEF Agreed
<1>5. row \in WorkRows /\ row.on = NoBox
  BY <1>3, <1>4 DEF WorkRows, WorkRow
<1>6. work[i].on = NoBox
  BY <1>1, <1>2, WorkRowKinds
<1>7. work' = [work EXCEPT ![i] = row] /\ ~HandedOut(row)
  BY <1>2, <1>3, <1>5 DEF HandedOut
<1> QED
  BY <1>5, <1>6, <1>7, WorkFits

LEMMA ClaimFits ==
  ASSUME TablesRight(profile, host, work), NEW i \in Works, claimWork(i)
  PROVE  TablesRight(profile, host, work')
<1>1. work \in [Works -> WorkRows]
  BY DEF TablesRight
<1>2. PICK row : row = [work[i] EXCEPT !.st = "preparing"]
  OBVIOUS
<1>3. work[i].st = "pending" /\ work' = [work EXCEPT ![i] = row]
  BY <1>2 DEF claimWork
<1>4. work[i] \in WorkRow
  BY <1>1, <1>3, WorkRowKinds
<1>5. row \in WorkRow /\ row.on = work[i].on /\ row.st = "preparing" /\ row.p = work[i].p /\ row.kind = work[i].kind
  BY <1>2, <1>4 DEF WorkRow
<1>6. row.retiring = work[i].retiring
  BY <1>2, <1>4 DEF WorkRow
<1>7. HandedOut(row) => HandedOut(work[i])
  BY <1>3, <1>5, <1>6 DEF HandedOut
<1>8. row \in WorkRows /\ LiveWork(i)
  BY <1>3, <1>5 DEF WorkRows, LiveWork
<1> QED
  BY <1>3, <1>5, <1>7, <1>8, WorkFits

LEMMA RunFits ==
  ASSUME TablesRight(profile, host, work), NEW i \in Works, markRunning(i)
  PROVE  TablesRight(profile, host, work')
<1>1. work \in [Works -> WorkRows]
  BY DEF TablesRight
<1>2. PICK row : row = [work[i] EXCEPT !.st = "running", !.retiring = FALSE]
  OBVIOUS
<1>3. work[i].st = "preparing" /\ work' = [work EXCEPT ![i] = row]
  BY <1>1, <1>2 DEF markRunning
<1>4. work[i] \in WorkRow
  BY <1>1, <1>3, WorkRowKinds
<1>5. row \in WorkRow /\ row.on = work[i].on /\ row.st = "running"
  BY <1>2, <1>4 DEF WorkRow
<1>6. ~HandedOut(row)
  BY <1>5 DEF HandedOut
<1>7. row \in WorkRows /\ LiveWork(i)
  BY <1>3, <1>5 DEF WorkRows, LiveWork
<1> QED
  BY <1>3, <1>5, <1>6, <1>7, WorkFits

(* The reconciler moves nothing to another Worker, and counts again.           *)
LEMMA ReconcileFits ==
  ASSUME TablesRight(profile, host, work), NEW late \in SUBSET Works, reconcileWork(late)
  PROVE  TablesRight(profile, host', work')
<1>1. work \in [Works -> WorkRows] /\ Counted(host, work) /\ host \in [Boxes -> MachineRow]
      /\ profile \in [ProfileNames -> ProfileRow] /\ Apart(profile) /\ Pinned(profile, host, work)
  BY DEF TablesRight
<1>2. work' = [i \in Works |-> IF Gone(i, late) THEN Ended
                               ELSE IF Lost(i) THEN [work[i] EXCEPT !.on = NoBox] ELSE work[i]]
      /\ host' = recount(work')
  BY DEF reconcileWork
<1>3. ASSUME NEW i \in Works
      PROVE  work'[i] \in WorkRows /\ (HandedOut(work'[i]) => work'[i] = work[i])
  <2>1. CASE Gone(i, late)
    <3>1. work'[i] = Ended
      BY <1>2, <2>1
    <3>2. Ended \in WorkRows /\ Ended.st = "done"
      BY DEF WorkRows, Ended, NoWork
    <3> QED
      BY <3>1, <3>2 DEF HandedOut
  <2>2. CASE ~Gone(i, late) /\ Lost(i)
    <3>1. work'[i] = [work[i] EXCEPT !.on = NoBox] /\ work[i].st = "pending"
      BY <1>2, <2>2 DEF Lost
    <3>2. work[i] \in WorkRow
      BY <1>1, <3>1, WorkRowKinds
    <3>3. work'[i] \in WorkRow /\ work'[i].on = NoBox
      BY <3>1, <3>2 DEF WorkRow
    <3> QED
      BY <3>3 DEF HandedOut, WorkRows
  <2>3. CASE ~Gone(i, late) /\ ~Lost(i)
    BY <1>1, <1>2, <2>3
  <2> QED
    BY <2>1, <2>2, <2>3
<1>4. work' \in [Works -> WorkRows]
  BY <1>2, <1>3
<1>5. ASSUME NEW b \in Boxes
      PROVE  /\ host'[b] \in MachineRow /\ host'[b].labels = host[b].labels
             /\ host'[b].usedSlots = Cardinality(On(work', b))
  <2>1. host'[b] = [host[b] EXCEPT !.usedSlots = Cardinality(On(work', b))]
    BY <1>2 DEF recount, On
  <2>2. Cardinality(On(work', b)) \in Nat /\ host[b] \in MachineRow
    BY <1>1, WorksFinite
  <2> QED
    BY <2>1, <2>2 DEF MachineRow
<1>6. host' \in [Boxes -> MachineRow] /\ Counted(host', work')
  <2>1. host' = [b \in Boxes |-> host'[b]]
    BY <1>2 DEF recount
  <2> QED
    BY <1>5, <2>1 DEF Counted
<1>7. Pinned(profile, host', work')
  <2> SUFFICES ASSUME NEW i \in Works, HandedOut(work'[i])
               PROVE  profile[work'[i].p].pin \ host'[work'[i].on].labels = {}
    BY DEF Pinned
  <2>1. work'[i] = work[i]
    BY <1>3
  <2>2. work[i] \in WorkRow
    BY <1>1, <2>1, WorkRowKinds DEF HandedOut
  <2>3. work[i].on \in Boxes
    BY <2>1, <2>2 DEF WorkRow, HandedOut
  <2> QED
    BY <1>1, <1>5, <2>1, <2>3 DEF Pinned
<1> QED
  BY <1>1, <1>4, <1>6, <1>7 DEF TablesRight

(* A report makes a row of the readiness table.                                *)
LEMMA ReportFits ==
  ASSUME ReadinessRight(readiness), NEW b \in Boxes, NEW p \in ProfileNames, NEW spec \in Known,
         NEW st \in {"preparing", "ready", "failed"}, NEW held, held # NoReport => held \in Nat,
         NEW room \in Room \union {0}, reportReadiness(b, p, spec, st, held, room)
  PROVE  ReadinessRight(readiness')
<1>1. PICK old : old = readiness[b][p]
  OBVIOUS
<1>2. PICK same \in BOOLEAN : same <=> sameContract(old, p)
  <2>1. sameContract(old, p) \in BOOLEAN
    BY DEF sameContract
  <2> QED
    BY <2>1
<1>3. same => old \in ReadinessRow
  BY <1>1, <1>2 DEF ReadinessRight, sameContract
<1>4. PICK prepared \in BOOLEAN : prepared <=> (st = "ready" \/ (same /\ old.prepared))
  OBVIOUS
<1>5. PICK state : state = IF st = "failed" /\ prepared THEN "degraded" ELSE st
  OBVIOUS
<1>6. PICK goal : goal = IF held # NoReport THEN spec.warm ELSE IF same THEN old.target ELSE 0
  OBVIOUS
<1>7. PICK warm : warm = IF held # NoReport THEN held ELSE IF same THEN old.held ELSE 0
  OBVIOUS
<1>8. spec.warm \in Nat /\ ContractOf(spec) \in Agreed /\ spec.egress \in {r.egress : r \in Known}
  BY PlacementAssumption DEF Known, Agreed, ProfileSpec
<1>9. goal \in Nat /\ warm \in Nat
  BY <1>3, <1>6, <1>7, <1>8 DEF ReadinessRow
<1>10. PICK row : row = [contract |-> ContractOf(spec), egress |-> spec.egress, fresh |-> TRUE, state |-> state,
                         prepared |-> prepared, room |-> room, target |-> goal, held |-> warm]
  OBVIOUS
<1>11. row \in ReadinessRow
  <2>1. state \in {"preparing", "ready", "degraded", "failed"}
    BY <1>5
  <2> QED
    BY <1>8, <1>9, <1>10, <2>1 DEF ReadinessRow
<1>12. readiness' = [readiness EXCEPT ![b][p] = row]
  <2>1. prepared = (st = "ready" \/ (sameContract(old, p) /\ old.prepared))
    <3>1. (same /\ old.prepared) \in BOOLEAN
      OBVIOUS
    <3> QED
      BY <1>2, <1>4, <3>1
  <2> QED
    BY <1>1, <1>2, <1>5, <1>6, <1>7, <1>10, <2>1 DEF reportReadiness
<1> QED
  BY <1>11, <1>12 DEF ReadinessRight

LEMMA StaleFits ==
  ASSUME ReadinessRight(readiness), NEW b \in Boxes, NEW p \in ProfileNames, Stale(b, p)
  PROVE  ReadinessRight(readiness')
<1>1. PICK row : row = [readiness[b][p] EXCEPT !.fresh = FALSE]
  OBVIOUS
<1>2. readiness[b][p] \in ReadinessRow
  BY DEF Stale, ReadinessRight
<1>3. row \in ReadinessRow
  BY <1>1, <1>2 DEF ReadinessRow
<1>4. readiness' = [readiness EXCEPT ![b][p] = row]
  BY <1>1 DEF Stale
<1> QED
  BY <1>3, <1>4 DEF ReadinessRight

LEMMA RoundFits ==
  ASSUME RefreshRight(refresh), NEW b \in Boxes, NEW x, RoundOK(x), refresh' = [refresh EXCEPT ![b] = x]
  PROVE  RefreshRight(refresh')
<1>1. refresh = [c \in Boxes |-> refresh[c]] /\ \A c \in Boxes : RoundOK(refresh[c])
  BY DEF RefreshRight
<1>2. refresh' = [c \in Boxes |-> refresh'[c]]
  BY <1>1
<1>3. refresh'[b] = x /\ \A c \in Boxes \ {b} : refresh'[c] = refresh[c]
  BY <1>1
<1>4. \A c \in Boxes : RoundOK(refresh'[c])
  BY <1>1, <1>3
<1> QED
  BY <1>2, <1>4 DEF RefreshRight

LEMMA NoRoundOK ==
  RoundOK(NoRound)
BY DEF RoundOK, NoRound

LEMMA EndRoundFits ==
  ASSUME RefreshRight(refresh), NEW b \in Boxes, EndRound(b)
  PROVE  RefreshRight(refresh')
BY NoRoundOK, RoundFits DEF EndRound

LEMMA RefreshFits ==
  ASSUME profile \in [ProfileNames -> ProfileRow], RefreshRight(refresh), NEW b \in Boxes, refreshProfiles(b)
  PROVE  RefreshRight(refresh')
<1>1. PICK visible : visible = {p \in ProfileNames : Discovers(b, p)}
  OBVIOUS
<1>2. PICK full : full = warmPoolCapacityError(b, visible)
  OBVIOUS
<1>3. PICK specs : specs = [p \in ProfileNames |-> IF p \in visible THEN profile[p] ELSE NoReport]
  OBVIOUS
<1>4. PICK x : x = [specs |-> specs, at |-> NoReport, full |-> full]
  OBVIOUS
<1>5. refresh' = [refresh EXCEPT ![b] = x]
  BY <1>1, <1>2, <1>3, <1>4 DEF refreshProfiles
<1>6. specs \in [ProfileNames -> Known \union {NoReport}]
  <2>1. \A p \in visible : profile[p] \in Known
    BY <1>1, ProfileRowKinds DEF Discovers
  <2> QED
    BY <1>3, <2>1
<1>7. RoundOK(x)
  BY <1>4, <1>6 DEF RoundOK
<1> QED
  BY <1>5, <1>7, RoundFits

LEMMA PreparingFits ==
  ASSUME ReadinessRight(readiness), RefreshRight(refresh), NEW b \in Boxes, NEW p \in ProfileNames,
         ReportPreparing(b, p)
  PROVE  ReadinessRight(readiness') /\ RefreshRight(refresh')
<1>1. PICK spec : spec = refresh[b].specs[p]
  OBVIOUS
<1>2. RoundOK(refresh[b])
  BY DEF RefreshRight
<1>3. spec \in Known /\ spec # NoReport
  BY <1>1, <1>2 DEF RoundOK, ReportPreparing
<1>4. CASE ReportRefused(b, p, spec, "preparing", NoReport)
  <2>1. EndRound(b) /\ readiness' = readiness
    BY <1>1, <1>4 DEF ReportPreparing
  <2> QED
    BY <2>1, EndRoundFits
<1>5. CASE ~ReportRefused(b, p, spec, "preparing", NoReport)
  <2>1. reportReadiness(b, p, spec, "preparing", NoReport, 0) /\ refresh' = [refresh EXCEPT ![b].at = p]
    BY <1>1, <1>5 DEF ReportPreparing
  <2>2. ReadinessRight(readiness')
    BY <1>3, <2>1, ReportFits
  <2>3. PICK x : x = [refresh[b] EXCEPT !.at = p]
    OBVIOUS
  <2>4. RoundOK(x)
    <3>1. refresh[b] = [specs |-> refresh[b].specs, at |-> refresh[b].at, full |-> refresh[b].full]
          /\ refresh[b].specs \in [ProfileNames -> Known \union {NoReport}]
      BY <1>2 DEF RoundOK
    <3>2. x = [specs |-> refresh[b].specs, at |-> p, full |-> refresh[b].full]
      BY <2>3, <3>1
    <3> QED
      BY <1>1, <1>3, <3>1, <3>2 DEF RoundOK
  <2> QED
    BY <2>1, <2>2, <2>3, <2>4, RoundFits
<1> QED
  BY <1>4, <1>5

LEMMA FoundIs ==
  ASSUME NEW b, NEW spec \in Known, NEW sound, NEW seen,
         NEW found \in prepareProfile(b, spec, sound, seen) \union {Found(FALSE, NoReport)}
  PROVE  found.st \in {"ready", "failed"} /\ (found.held # NoReport => found.held \in Nat)
<1>1. spec.warm \in Nat
  BY PlacementAssumption DEF Known, ProfileSpec
<1>2. \A ready, held : Found(ready, held).st \in {"ready", "failed"} /\ Found(ready, held).held = held
  BY DEF Found
<1>3. PICK ready, held : found = Found(ready, held) /\ (held # NoReport => held \in Nat)
  <2>1. CASE found = Found(FALSE, NoReport)
    BY <2>1
  <2>2. CASE found \in prepareDocker(b, spec, sound, seen)
    BY <2>2 DEF prepareDocker
  <2>3. CASE found \in prepareHyperV(sound)
    BY <2>3 DEF prepareHyperV
  <2>4. CASE found \in prepareFirecracker(spec, sound)
    <3>1. CASE sound
      BY <1>1, <2>4, <3>1 DEF prepareFirecracker
    <3>2. CASE ~sound
      <4>1. PICK held \in {NoReport} \union (0..spec.warm) : found = Found(FALSE, held)
        BY <2>4, <3>2 DEF prepareFirecracker
      <4>2. held # NoReport => held \in Nat
        BY <1>1, <4>1
      <4> QED
        BY <4>1, <4>2
    <3> QED
      BY <3>1, <3>2
  <2> QED
    BY <2>1, <2>2, <2>3, <2>4 DEF prepareProfile
<1> QED
  BY <1>2, <1>3

LEMMA PreparedFits ==
  ASSUME ReadinessRight(readiness), RefreshRight(refresh), NEW b \in Boxes, NEW sound \in BOOLEAN,
         NEW seen \in CpusSeen, NEW room \in Room, ReportPrepared(b, sound, seen, room)
  PROVE  ReadinessRight(readiness') /\ RefreshRight(refresh')
<1>1. PICK p : p = refresh[b].at
  OBVIOUS
<1>2. PICK spec : spec = refresh[b].specs[p]
  OBVIOUS
<1>3. PICK left : left = [refresh[b] EXCEPT !.specs[p] = NoReport, !.at = NoReport]
  OBVIOUS
<1>4. RoundOK(refresh[b])
  BY DEF RefreshRight
<1>5. p \in ProfileNames /\ spec \in Known
  BY <1>1, <1>2, <1>4 DEF RoundOK, ReportPrepared
<1>6. PICK found \in prepareProfile(b, spec, sound, seen) \union {Found(FALSE, NoReport)} :
        IF ReportRefused(b, p, spec, found.st, found.held) THEN EndRound(b) /\ readiness' = readiness
        ELSE /\ reportReadiness(b, p, spec, found.st, found.held, room)
             /\ refresh' = [refresh EXCEPT ![b] =
                  IF \A q \in ProfileNames : left.specs[q] = NoReport THEN NoRound ELSE left]
  BY <1>1, <1>2, <1>3 DEF ReportPrepared
<1>7. found.st \in {"preparing", "ready", "failed"} /\ (found.held # NoReport => found.held \in Nat)
  BY <1>5, <1>6, FoundIs
<1>8. CASE ReportRefused(b, p, spec, found.st, found.held)
  <2>1. EndRound(b) /\ readiness' = readiness
    BY <1>6, <1>8
  <2> QED
    BY <2>1, EndRoundFits
<1>9. CASE ~ReportRefused(b, p, spec, found.st, found.held)
  <2>1. PICK x : x = IF \A q \in ProfileNames : left.specs[q] = NoReport THEN NoRound ELSE left
    OBVIOUS
  <2>2. reportReadiness(b, p, spec, found.st, found.held, room) /\ refresh' = [refresh EXCEPT ![b] = x]
    BY <1>6, <1>9, <2>1
  <2>3. ReadinessRight(readiness')
    BY <1>5, <1>7, <2>2, ReportFits
  <2>4. RoundOK(left)
    <3>1. refresh[b] = [specs |-> refresh[b].specs, at |-> refresh[b].at, full |-> refresh[b].full]
          /\ refresh[b].specs \in [ProfileNames -> Known \union {NoReport}]
      BY <1>4 DEF RoundOK
    <3>2. left = [specs |-> [refresh[b].specs EXCEPT ![p] = NoReport], at |-> NoReport, full |-> refresh[b].full]
      BY <1>3, <3>1
    <3>3. [refresh[b].specs EXCEPT ![p] = NoReport] \in [ProfileNames -> Known \union {NoReport}]
      BY <3>1
    <3> QED
      BY <3>2, <3>3 DEF RoundOK
  <2>5. RoundOK(x)
    BY <2>1, <2>4, NoRoundOK
  <2> QED
    BY <2>2, <2>3, <2>5, RoundFits
<1> QED
  BY <1>8, <1>9

LEMMA PlacementInitFits ==
  ASSUME PlacementInit
  PROVE  PlacementInv
<1>1. \A b \in Boxes : host[b] \in MachineRow /\ host[b].usedSlots = 0
  <2> TAKE b \in Boxes
  <2>1. PICK n : n = resourceRecommendedSlots(BoxCpus[b])
    OBVIOUS
  <2>2. n \in Nat \ {0}
    <3>1. BoxCpus[b] \div CpusPerSlot \in Nat
      BY PlacementAssumption
    <3> QED
      BY <2>1, <3>1, LargerOf DEF resourceRecommendedSlots
  <2>3. host[b] = [labels |-> HostLabels, maxSlots |-> n, usedSlots |-> 0, bench |-> NoReport,
                   fixed |-> b \in FixedBoxes, online |-> TRUE]
    BY <2>1 DEF PlacementInit
  <2> QED
    BY <2>2, <2>3 DEF MachineRow
<1>2. host \in [Boxes -> MachineRow]
  <2>1. host = [b \in Boxes |-> host[b]]
    BY DEF PlacementInit
  <2> QED
    BY <1>1, <2>1
<1>3. NoWork \in WorkRows /\ NoWork.st = "none"
  BY DEF WorkRows, NoWork
<1>4. work \in [Works -> WorkRows] /\ \A i \in Works : work[i].st = "none"
  BY <1>3 DEF PlacementInit
<1>5. Counted(host, work)
  <2>1. \A b \in Boxes : On(work, b) = {}
    BY <1>4 DEF On
  <2>2. Cardinality({}) = 0
    BY FS_EmptySet
  <2> QED
    BY <1>1, <2>1, <2>2 DEF Counted
<1>6. Pinned(profile, host, work)
  BY <1>4 DEF Pinned, HandedOut
<1>7. profile \in [ProfileNames -> ProfileRow] /\ Apart(profile)
  BY PlacementAssumption DEF PlacementInit, ProfileRow, Known, Apart
<1>8. ReadinessRight(readiness)
  BY DEF PlacementInit, ReadinessRight
<1>9. RefreshRight(refresh)
  BY NoRoundOK DEF PlacementInit, RefreshRight
<1> QED
  BY <1>2, <1>4, <1>5, <1>6, <1>7, <1>8, <1>9, PlacementInvIs DEF TablesRight

LEMMA PlacementStep ==
  ASSUME PlacementInv, [PlacementNext]_placeVars
  PROVE  PlacementInv'
<1>1. TablesRight(profile, host, work) /\ ReadinessRight(readiness) /\ RefreshRight(refresh)
  BY PlacementInvIs
<1>2. profile \in [ProfileNames -> ProfileRow] /\ host \in [Boxes -> MachineRow]
  BY <1>1 DEF TablesRight
<1> SUFFICES TablesRight(profile', host', work') /\ ReadinessRight(readiness') /\ RefreshRight(refresh')
  BY PlacementInvIs
<1>3. ASSUME NEW p \in ProfileNames, NEW r \in Registrations, registerProfile(p, r)
      PROVE  TablesRight(profile', host', work') /\ ReadinessRight(readiness') /\ RefreshRight(refresh')
  BY <1>1, <1>3, RegisterFits DEF registerProfile
<1>4. ASSUME NEW p \in ProfileNames, pauseProfile(p)
      PROVE  TablesRight(profile', host', work') /\ ReadinessRight(readiness') /\ RefreshRight(refresh')
  BY <1>1, <1>4, PauseFits DEF pauseProfile
<1>5. ASSUME NEW b \in Boxes, NEW labels \in SUBSET HostLabels, setLabels(b, labels)
      PROVE  TablesRight(profile', host', work') /\ ReadinessRight(readiness') /\ RefreshRight(refresh')
  BY <1>1, <1>5, LabelFits DEF setLabels
<1>6. ASSUME NEW b \in Boxes, NEW report \in Benchmarks, reportBenchmark(b, report)
      PROVE  TablesRight(profile', host', work') /\ ReadinessRight(readiness') /\ RefreshRight(refresh')
  <2>1. Recommend(b, report, report) /\ UNCHANGED <<profile, readiness, work, refresh>>
    BY <1>6 DEF reportBenchmark
  <2> QED
    BY <1>1, <2>1, RecommendFits
<1>7. ASSUME NEW b \in Boxes, NEW ignored \in BOOLEAN, reportHostFacts(b, ignored)
      PROVE  TablesRight(profile', host', work') /\ ReadinessRight(readiness') /\ RefreshRight(refresh')
  <2>1. PICK report : report = IF ignored THEN NoReport ELSE host[b].bench
    OBVIOUS
  <2>2. Recommend(b, report, host[b].bench) /\ UNCHANGED <<profile, readiness, work, refresh>>
    BY <1>7, <2>1 DEF reportHostFacts
  <2>3. host[b].bench \in Benchmarks \union {NoReport} /\ report \in Benchmarks \union {NoReport}
    BY <1>2, <2>1 DEF MachineRow
  <2> QED
    BY <1>1, <2>2, <2>3, RecommendFits
<1>8. ASSUME NEW b \in Boxes, Silent(b) \/ hostHeartbeat(b)
      PROVE  TablesRight(profile', host', work') /\ ReadinessRight(readiness') /\ RefreshRight(refresh')
  <2>1. (\E v \in BOOLEAN : host' = [host EXCEPT ![b].online = v]) /\ UNCHANGED <<profile, readiness, work, refresh>>
    BY <1>8 DEF Silent, hostHeartbeat
  <2> QED
    BY <1>1, <2>1, OnlineFits
<1>9. ASSUME NEW b \in Boxes, RefreshFails(b)
      PROVE  TablesRight(profile', host', work') /\ ReadinessRight(readiness') /\ RefreshRight(refresh')
  BY <1>1, <1>9, EndRoundFits DEF RefreshFails
<1>10. ASSUME NEW b \in Boxes, refreshProfiles(b)
       PROVE  TablesRight(profile', host', work') /\ ReadinessRight(readiness') /\ RefreshRight(refresh')
  <2>1. UNCHANGED <<profile, host, readiness, work>>
    BY <1>10 DEF refreshProfiles
  <2> QED
    BY <1>1, <1>2, <1>10, <2>1, RefreshFits
<1>11. ASSUME NEW b \in Boxes, NEW p \in ProfileNames, ReportPreparing(b, p)
       PROVE  TablesRight(profile', host', work') /\ ReadinessRight(readiness') /\ RefreshRight(refresh')
  <2>1. UNCHANGED <<profile, host, work>>
    BY <1>11 DEF ReportPreparing
  <2> QED
    BY <1>1, <1>11, <2>1, PreparingFits
<1>12. ASSUME NEW b \in Boxes, NEW sound \in BOOLEAN, NEW seen \in CpusSeen, NEW room \in Room,
              ReportPrepared(b, sound, seen, room)
       PROVE  TablesRight(profile', host', work') /\ ReadinessRight(readiness') /\ RefreshRight(refresh')
  <2>1. UNCHANGED <<profile, host, work>>
    BY <1>12 DEF ReportPrepared
  <2> QED
    BY <1>1, <1>12, <2>1, PreparedFits
<1>13. ASSUME NEW b \in Boxes, NEW p \in ProfileNames, Stale(b, p)
       PROVE  TablesRight(profile', host', work') /\ ReadinessRight(readiness') /\ RefreshRight(refresh')
  <2>1. UNCHANGED <<profile, host, work, refresh>>
    BY <1>13 DEF Stale
  <2> QED
    BY <1>1, <1>13, <2>1, StaleFits
<1>14. ASSUME tryAssign
       PROVE  TablesRight(profile', host', work') /\ ReadinessRight(readiness') /\ RefreshRight(refresh')
  <2>1. UNCHANGED <<profile, readiness, refresh>>
    BY <1>14 DEF tryAssign
  <2> QED
    BY <1>1, <1>14, <2>1, AssignFits
<1>15. ASSUME NEW p \in ProfileNames, NEW kind \in {"attempt", "experiment"}, create(p, kind)
       PROVE  TablesRight(profile', host', work') /\ ReadinessRight(readiness') /\ RefreshRight(refresh')
  <2>1. UNCHANGED <<profile, host, readiness, refresh>>
    BY <1>15 DEF create, Restful
  <2> QED
    BY <1>1, <1>15, <2>1, CreateFits
<1>16. ASSUME NEW i \in Works, claimWork(i) \/ markRunning(i)
       PROVE  TablesRight(profile', host', work') /\ ReadinessRight(readiness') /\ RefreshRight(refresh')
  <2>1. UNCHANGED <<profile, host, readiness, refresh>>
    BY <1>16 DEF claimWork, markRunning, Restful
  <2> QED
    BY <1>1, <1>16, <2>1, ClaimFits, RunFits
<1>17. ASSUME NEW i \in Works, reportExperiment(i) \/ cancelExperiment(i) \/ AttemptEnds(i)
       PROVE  TablesRight(profile', host', work') /\ ReadinessRight(readiness') /\ RefreshRight(refresh')
  <2>1. LiveWork(i) /\ EndWork(i)
    BY <1>17 DEF reportExperiment, cancelExperiment, AttemptEnds, LiveWork
  <2>2. UNCHANGED <<profile, readiness, refresh>>
    BY <2>1 DEF EndWork, Restful
  <2> QED
    BY <1>1, <2>1, <2>2, EndFits
<1>18. ASSUME NEW late \in SUBSET Works, reconcileWork(late)
       PROVE  TablesRight(profile', host', work') /\ ReadinessRight(readiness') /\ RefreshRight(refresh')
  <2>1. UNCHANGED <<profile, readiness, refresh>>
    BY <1>18 DEF reconcileWork, Restful
  <2> QED
    BY <1>1, <1>18, <2>1, ReconcileFits
<1>19. CASE UNCHANGED placeVars
  BY <1>1, <1>19 DEF placeVars
<1> QED
  BY <1>3, <1>4, <1>5, <1>6, <1>7, <1>8, <1>9, <1>10, <1>11, <1>12, <1>13, <1>14, <1>15, <1>16, <1>17, <1>18, <1>19
     DEF PlacementNext, AgentRefreshes

(* PlacementSound, for any Workers, Profiles, registrations, benchmarks and    *)
(* amount of work: however creations, claims, ends, edits of Profiles and      *)
(* labels, passes of the scheduler and of the reconciler interleave, a Worker's*)
(* usedSlots is the number of live Attempts and Experiments on it, an idle     *)
(* Attempt is on a Worker that carries the labels its Profile is pinned to or  *)
(* is being retired, and no active Profile answers to another's name.          *)
THEOREM PlacementStaysSound == PlacementSpec => []PlacementSound
<1>1. PlacementInit => PlacementInv
  BY PlacementInitFits
<1>2. PlacementInv /\ [PlacementNext]_placeVars => PlacementInv'
  BY PlacementStep
<1>3. PlacementInv => PlacementSound
  BY DEF PlacementInv
<1> QED
  BY <1>1, <1>2, <1>3, PTL DEF PlacementSpec

-----------------------------------------------------------------------------
(* Where a pass may place. A row that says ready names what a preparation      *)
(* found; of what is no microVM the policy is public, in Profiles, rounds and  *)
(* rows alike, so that the policy such a row names is the Profile's.           *)

PublicEgress == [mode |-> "public", allowed |-> {}]
OpenUnlessVM(executor, egress) == executor # "firecracker" => egress = PublicEgress
ProfilesOpen(pr) == \A p \in ProfileNames : OpenUnlessVM(pr[p].executor, pr[p].egress)
RoundsOpen(rf) ==
  \A b \in Boxes, p \in ProfileNames :
    rf[b].specs[p] # NoReport => OpenUnlessVM(rf[b].specs[p].executor, rf[b].specs[p].egress)
RowProven(b, p, r, pv) ==
  /\ OpenUnlessVM(r.contract.executor, r.egress)
  /\ r.state = "ready" => <<b, p, r.contract, r.egress>> \in pv
RowsProven(rd, pv) ==
  \A b \in Boxes, p \in ProfileNames : rd[b][p] # NoReport => RowProven(b, p, rd[b][p], pv)

ProvenInv == ProfilesOpen(profile) /\ RoundsOpen(refresh) /\ RowsProven(readiness, proved)

LEMMA ValidIsOpen ==
  ASSUME NEW r \in Known, validRegistration(r)
  PROVE  OpenUnlessVM(r.executor, r.egress)
<1>1. r.egress \in [mode : EgressModes, allowed : SUBSET Destinations]
  BY PlacementAssumption DEF Known, ProfileSpec
<1>2. CASE r.executor # "firecracker"
  <2>1. r.egress.mode = "public" /\ r.egress.allowed = {}
    BY <1>2 DEF validRegistration, parseProfileEgress
  <2> QED
    BY <1>1, <2>1 DEF OpenUnlessVM, PublicEgress
<1> QED
  BY <1>2 DEF OpenUnlessVM

LEMMA ProvenInit ==
  ASSUME PlacementInit
  PROVE  ProvenInv
<1>1. ProfilesOpen(profile)
  <2> SUFFICES ASSUME NEW p \in ProfileNames  PROVE OpenUnlessVM(profile[p].executor, profile[p].egress)
    BY DEF ProfilesOpen
  <2>1. profile[p] \in Known /\ validRegistration(profile[p])
    BY PlacementAssumption DEF PlacementInit, Known
  <2> QED
    BY <2>1, ValidIsOpen
<1>2. RoundsOpen(refresh)
  BY DEF PlacementInit, RoundsOpen, NoRound
<1>3. RowsProven(readiness, proved)
  BY DEF PlacementInit, RowsProven
<1> QED
  BY <1>1, <1>2, <1>3 DEF ProvenInv

LEMMA RegisterOpen ==
  ASSUME profile \in [ProfileNames -> ProfileRow], ProfilesOpen(profile), NEW p \in ProfileNames,
         (\E r \in Registrations : registerProfile(p, r)) \/ pauseProfile(p)
  PROVE  ProfilesOpen(profile')
<1>1. CASE pauseProfile(p)
  <2>1. profile' = [profile EXCEPT ![p] = [profile[p] EXCEPT !.active = FALSE]] /\ profile[p] \in Known
    BY <1>1, ProfileRowKinds DEF pauseProfile
  <2>2. profile[p] \in ProfileSpec
    BY <2>1, PlacementAssumption DEF Known
  <2>3. profile'[p].executor = profile[p].executor /\ profile'[p].egress = profile[p].egress
        /\ \A q \in ProfileNames \ {p} : profile'[q] = profile[q]
    BY <2>1, <2>2 DEF ProfileSpec
  <2> QED
    BY <2>3 DEF ProfilesOpen
<1>2. CASE \E r \in Registrations : registerProfile(p, r)
  <2>1. PICK r \in Registrations : registerProfile(p, r)
    BY <1>2
  <2>2. profile' = [profile EXCEPT ![p] = r] /\ validRegistration(r) /\ r \in Known
    BY <2>1 DEF registerProfile, Known
  <2>3. OpenUnlessVM(r.executor, r.egress)
    BY <2>2, ValidIsOpen
  <2> QED
    BY <2>2, <2>3 DEF ProfilesOpen
<1> QED
  BY <1>1, <1>2

(* A round that loses entries, or ends, or starts from the Profiles.           *)
LEMMA RoundOpen ==
  ASSUME RefreshRight(refresh), RoundsOpen(refresh), NEW b \in Boxes, NEW x,
         \A p \in ProfileNames : x.specs[p] # NoReport => OpenUnlessVM(x.specs[p].executor, x.specs[p].egress),
         refresh' = [refresh EXCEPT ![b] = x]
  PROVE  RoundsOpen(refresh')
<1>1. refresh = [c \in Boxes |-> refresh[c]]
  BY DEF RefreshRight
<1>2. refresh'[b] = x /\ \A c \in Boxes \ {b} : refresh'[c] = refresh[c]
  BY <1>1
<1> QED
  BY <1>2 DEF RoundsOpen

LEMMA EndRoundOpen ==
  ASSUME RefreshRight(refresh), RoundsOpen(refresh), NEW b \in Boxes, EndRound(b)
  PROVE  RoundsOpen(refresh')
<1>1. \A p \in ProfileNames : NoRound.specs[p] = NoReport
  BY DEF NoRound
<1> QED
  BY <1>1, RoundOpen DEF EndRound

LEMMA RefreshOpen ==
  ASSUME RefreshRight(refresh), RoundsOpen(refresh), ProfilesOpen(profile), NEW b \in Boxes, refreshProfiles(b)
  PROVE  RoundsOpen(refresh')
<1>1. PICK visible : visible = {p \in ProfileNames : Discovers(b, p)}
  OBVIOUS
<1>2. PICK full : full = warmPoolCapacityError(b, visible)
  OBVIOUS
<1>3. PICK specs : specs = [p \in ProfileNames |-> IF p \in visible THEN profile[p] ELSE NoReport]
  OBVIOUS
<1>4. PICK x : x = [specs |-> specs, at |-> NoReport, full |-> full]
  OBVIOUS
<1>5. refresh' = [refresh EXCEPT ![b] = x]
  BY <1>1, <1>2, <1>3, <1>4 DEF refreshProfiles
<1>6. \A p \in ProfileNames : x.specs[p] = NoReport \/ x.specs[p] = profile[p]
  BY <1>3, <1>4
<1> QED
  BY <1>5, <1>6, RoundOpen DEF ProfilesOpen

(* A report's row says what the report says.                                   *)
LEMMA ReportProven ==
  ASSUME ReadinessRight(readiness), NEW pv, RowsProven(readiness, pv), NEW b \in Boxes, NEW p \in ProfileNames,
         NEW spec, NEW st \in {"preparing", "ready", "failed"}, NEW held, NEW room,
         OpenUnlessVM(spec.executor, spec.egress),
         st = "ready" => <<b, p, ContractOf(spec), spec.egress>> \in pv,
         reportReadiness(b, p, spec, st, held, room)
  PROVE  RowsProven(readiness', pv)
<1>1. PICK row : /\ readiness' = [readiness EXCEPT ![b][p] = row]
                 /\ row.contract = ContractOf(spec) /\ row.egress = spec.egress
                 /\ row.state = "ready" => st = "ready"
  <2>1. PICK prepared, goal, warm :
          readiness' = [readiness EXCEPT ![b][p] =
            [contract |-> ContractOf(spec), egress |-> spec.egress, fresh |-> TRUE,
             state |-> IF st = "failed" /\ prepared THEN "degraded" ELSE st,
             prepared |-> prepared, room |-> room, target |-> goal, held |-> warm]]
    BY Zenon DEF reportReadiness
  <2>2. PICK row : row = [contract |-> ContractOf(spec), egress |-> spec.egress, fresh |-> TRUE,
                          state |-> IF st = "failed" /\ prepared THEN "degraded" ELSE st,
                          prepared |-> prepared, room |-> room, target |-> goal, held |-> warm]
    OBVIOUS
  <2>3. row.contract = ContractOf(spec) /\ row.egress = spec.egress /\ (row.state = "ready" => st = "ready")
    BY <2>2
  <2>4. readiness' = [readiness EXCEPT ![b][p] = row]
    BY <2>1, <2>2, Zenon
  <2> QED
    BY <2>3, <2>4
<1>2. ContractOf(spec).executor = spec.executor
  BY DEF ContractOf
<1>3. RowProven(b, p, row, pv)
  BY <1>1, <1>2 DEF RowProven
<1>4. \A c \in Boxes, q \in ProfileNames :
        readiness'[c][q] = IF c = b /\ q = p THEN row ELSE readiness[c][q]
  BY <1>1 DEF ReadinessRight
<1> QED
  BY <1>3, <1>4 DEF RowsProven

LEMMA StaleProven ==
  ASSUME ReadinessRight(readiness), RowsProven(readiness, proved), NEW b \in Boxes, NEW p \in ProfileNames,
         Stale(b, p)
  PROVE  RowsProven(readiness', proved)
<1>1. PICK row : row = [readiness[b][p] EXCEPT !.fresh = FALSE]
  OBVIOUS
<1>2. readiness[b][p] \in ReadinessRow /\ readiness[b][p] # NoReport
  BY DEF Stale, ReadinessRight
<1>3. /\ row.contract = readiness[b][p].contract /\ row.egress = readiness[b][p].egress
      /\ row.state = readiness[b][p].state
  BY <1>1, <1>2 DEF ReadinessRow
<1>4. RowProven(b, p, row, proved)
  BY <1>2, <1>3 DEF RowsProven, RowProven
<1>5. readiness' = [readiness EXCEPT ![b][p] = row]
  BY <1>1 DEF Stale
<1>6. \A c \in Boxes, q \in ProfileNames :
        readiness'[c][q] = IF c = b /\ q = p THEN row ELSE readiness[c][q]
  BY <1>5 DEF ReadinessRight
<1> QED
  BY <1>4, <1>6 DEF RowsProven

LEMMA PreparingProven ==
  ASSUME ReadinessRight(readiness), RefreshRight(refresh), RoundsOpen(refresh), RowsProven(readiness, proved),
         NEW b \in Boxes, NEW p \in ProfileNames, ReportPreparing(b, p)
  PROVE  RoundsOpen(refresh') /\ RowsProven(readiness', proved)
<1>1. PICK spec : spec = refresh[b].specs[p]
  OBVIOUS
<1>2. OpenUnlessVM(spec.executor, spec.egress)
  BY <1>1 DEF RoundsOpen, ReportPreparing
<1>3. CASE ReportRefused(b, p, spec, "preparing", NoReport)
  <2>1. EndRound(b) /\ readiness' = readiness
    BY <1>1, <1>3 DEF ReportPreparing
  <2> QED
    BY <2>1, EndRoundOpen
<1>4. CASE ~ReportRefused(b, p, spec, "preparing", NoReport)
  <2>1. reportReadiness(b, p, spec, "preparing", NoReport, 0) /\ refresh' = [refresh EXCEPT ![b].at = p]
    BY <1>1, <1>4 DEF ReportPreparing
  <2>2. PICK x : x = [refresh[b] EXCEPT !.at = p]
    OBVIOUS
  <2>3. x.specs = refresh[b].specs
    <3>1. refresh[b] = [specs |-> refresh[b].specs, at |-> refresh[b].at, full |-> refresh[b].full]
      BY DEF RefreshRight, RoundOK
    <3> QED
      BY <2>2, <3>1
  <2>4. \A q \in ProfileNames : x.specs[q] # NoReport => OpenUnlessVM(x.specs[q].executor, x.specs[q].egress)
    BY <2>3 DEF RoundsOpen
  <2>5. RoundsOpen(refresh')
    BY <2>1, <2>2, <2>4, RoundOpen
  <2>6. RowsProven(readiness', proved)
    BY <1>2, <2>1, ReportProven
  <2> QED
    BY <2>5, <2>6
<1> QED
  BY <1>3, <1>4

(* Only a sound host with the right CPUs is found ready.                       *)
LEMMA FoundReady ==
  ASSUME NEW b, NEW spec \in Known, NEW sound \in BOOLEAN, NEW seen,
         NEW found \in prepareProfile(b, spec, sound, seen), found.st = "ready"
  PROVE  sound /\ (spec.executor = "docker" => seen = spec.vcpus)
<1>1. \A ready, held : Found(ready, held).st = "ready" => ready
  BY DEF Found
<1>2. CASE spec.executor = "docker"
  <2>1. found = Found(spec.vcpus <= BoxCpus[b] /\ sound /\ jobResourceVisibility(spec, seen), NoReport)
    BY <1>2 DEF prepareProfile, prepareDocker
  <2> QED
    BY <1>1, <2>1 DEF jobResourceVisibility
<1>3. CASE spec.executor = "firecracker"
  <2>1. found \in prepareFirecracker(spec, sound)
    BY <1>3 DEF prepareProfile
  <2>2. CASE ~sound
    <3>1. PICK held : found = Found(FALSE, held)
      BY <2>1, <2>2 DEF prepareFirecracker
    <3> QED
      BY <1>1, <3>1
  <2> QED
    BY <1>3, <2>2
<1>4. CASE spec.executor \notin {"docker", "firecracker"}
  <2>1. found = Found(sound, NoReport)
    BY <1>4 DEF prepareProfile, prepareHyperV
  <2> QED
    BY <1>1, <1>4, <2>1
<1> QED
  BY <1>2, <1>3, <1>4

LEMMA PreparedProven ==
  ASSUME ReadinessRight(readiness), RefreshRight(refresh), RoundsOpen(refresh), RowsProven(readiness, proved),
         NEW b \in Boxes, NEW sound \in BOOLEAN, NEW seen \in CpusSeen, NEW room \in Room,
         ReportPrepared(b, sound, seen, room)
  PROVE  RoundsOpen(refresh') /\ RowsProven(readiness', proved')
<1>1. PICK p : p = refresh[b].at
  OBVIOUS
<1>2. PICK spec : spec = refresh[b].specs[p]
  OBVIOUS
<1>3. PICK left : left = [refresh[b] EXCEPT !.specs[p] = NoReport, !.at = NoReport]
  OBVIOUS
<1>4. PICK blocked \in BOOLEAN : blocked <=> (refresh[b].full /\ spec.warm > 0)
  OBVIOUS
<1>5. RoundOK(refresh[b])
  BY DEF RefreshRight
<1>6. p \in ProfileNames /\ spec \in Known /\ spec # NoReport
  BY <1>1, <1>2, <1>5 DEF RoundOK, ReportPrepared
<1>7. OpenUnlessVM(spec.executor, spec.egress)
  BY <1>2, <1>6 DEF RoundsOpen
<1>8. /\ proved \subseteq proved'
      /\ sound /\ (spec.executor = "docker" => seen = spec.vcpus) /\ ~blocked
         => <<b, p, ContractOf(spec), spec.egress>> \in proved'
  BY <1>1, <1>2, <1>4 DEF ReportPrepared
<1>9. RowsProven(readiness, proved')
  BY <1>8 DEF RowsProven, RowProven
<1>10. PICK found \in IF blocked THEN {Found(FALSE, NoReport)} ELSE prepareProfile(b, spec, sound, seen) :
         IF ReportRefused(b, p, spec, found.st, found.held) THEN EndRound(b) /\ readiness' = readiness
         ELSE /\ reportReadiness(b, p, spec, found.st, found.held, room)
              /\ refresh' = [refresh EXCEPT ![b] =
                   IF \A q \in ProfileNames : left.specs[q] = NoReport THEN NoRound ELSE left]
  BY <1>1, <1>2, <1>3, <1>4 DEF ReportPrepared
<1>11. found.st \in {"preparing", "ready", "failed"}
  <2>1. found \in prepareProfile(b, spec, sound, seen) \union {Found(FALSE, NoReport)}
    BY <1>10
  <2> QED
    BY <1>6, <2>1, FoundIs
<1>12. found.st = "ready" => <<b, p, ContractOf(spec), spec.egress>> \in proved'
  <2>1. CASE blocked
    <3>1. found = Found(FALSE, NoReport)
      BY <1>10, <2>1
    <3> QED
      BY <3>1 DEF Found
  <2>2. CASE ~blocked
    BY <1>6, <1>8, <1>10, <2>2, FoundReady
  <2> QED
    BY <2>1, <2>2
<1>13. CASE ReportRefused(b, p, spec, found.st, found.held)
  <2>1. EndRound(b) /\ readiness' = readiness
    BY <1>10, <1>13
  <2> QED
    BY <1>9, <2>1, EndRoundOpen
<1>14. CASE ~ReportRefused(b, p, spec, found.st, found.held)
  <2>1. PICK x : x = IF \A q \in ProfileNames : left.specs[q] = NoReport THEN NoRound ELSE left
    OBVIOUS
  <2>2. reportReadiness(b, p, spec, found.st, found.held, room) /\ refresh' = [refresh EXCEPT ![b] = x]
    BY <1>10, <1>14, <2>1
  <2>3. RowsProven(readiness', proved')
    BY <1>6, <1>7, <1>9, <1>11, <1>12, <2>2, ReportProven
  <2>4. \A q \in ProfileNames : x.specs[q] = NoReport \/ x.specs[q] = refresh[b].specs[q]
    <3>1. refresh[b] = [specs |-> refresh[b].specs, at |-> refresh[b].at, full |-> refresh[b].full]
          /\ refresh[b].specs \in [ProfileNames -> Known \union {NoReport}]
      BY <1>5 DEF RoundOK
    <3>2. left = [specs |-> [refresh[b].specs EXCEPT ![p] = NoReport], at |-> NoReport, full |-> refresh[b].full]
      BY <1>3, <3>1
    <3>3. \A q \in ProfileNames : left.specs[q] = NoReport \/ left.specs[q] = refresh[b].specs[q]
      BY <3>1, <3>2
    <3>4. \A q \in ProfileNames : NoRound.specs[q] = NoReport
      BY DEF NoRound
    <3> QED
      BY <2>1, <3>3, <3>4
  <2>5. \A q \in ProfileNames : x.specs[q] # NoReport => OpenUnlessVM(x.specs[q].executor, x.specs[q].egress)
    BY <2>4 DEF RoundsOpen
  <2> QED
    BY <2>2, <2>3, <2>5, RoundOpen
<1> QED
  BY <1>13, <1>14

LEMMA ProvenStep ==
  ASSUME PlacementInv, ProvenInv, [PlacementNext]_placeVars
  PROVE  ProvenInv'
<1>1. TablesRight(profile, host, work) /\ ReadinessRight(readiness) /\ RefreshRight(refresh)
  BY PlacementInvIs
<1>2. profile \in [ProfileNames -> ProfileRow]
  BY <1>1 DEF TablesRight
<1>3. ProfilesOpen(profile) /\ RoundsOpen(refresh) /\ RowsProven(readiness, proved)
  BY DEF ProvenInv
<1> SUFFICES ProfilesOpen(profile') /\ RoundsOpen(refresh') /\ RowsProven(readiness', proved')
  BY DEF ProvenInv, ProfilesOpen, RoundsOpen, RowsProven
<1>4. ASSUME NEW p \in ProfileNames, (\E r \in Registrations : registerProfile(p, r)) \/ pauseProfile(p)
      PROVE  ProfilesOpen(profile') /\ RoundsOpen(refresh') /\ RowsProven(readiness', proved')
  <2>1. UNCHANGED <<readiness, refresh, proved>>
    BY <1>4 DEF registerProfile, pauseProfile
  <2> QED
    BY <1>2, <1>3, <1>4, <2>1, RegisterOpen
<1>5. ASSUME NEW b \in Boxes, RefreshFails(b)
      PROVE  ProfilesOpen(profile') /\ RoundsOpen(refresh') /\ RowsProven(readiness', proved')
  <2>1. EndRound(b) /\ UNCHANGED <<profile, readiness, proved>>
    BY <1>5 DEF RefreshFails
  <2> QED
    BY <1>1, <1>3, <2>1, EndRoundOpen
<1>6. ASSUME NEW b \in Boxes, refreshProfiles(b)
      PROVE  ProfilesOpen(profile') /\ RoundsOpen(refresh') /\ RowsProven(readiness', proved')
  <2>1. UNCHANGED <<profile, readiness, proved>>
    BY <1>6 DEF refreshProfiles
  <2> QED
    BY <1>1, <1>3, <1>6, <2>1, RefreshOpen
<1>7. ASSUME NEW b \in Boxes, NEW p \in ProfileNames, ReportPreparing(b, p)
      PROVE  ProfilesOpen(profile') /\ RoundsOpen(refresh') /\ RowsProven(readiness', proved')
  <2>1. UNCHANGED <<profile, proved>>
    BY <1>7 DEF ReportPreparing
  <2> QED
    BY <1>1, <1>3, <1>7, <2>1, PreparingProven
<1>8. ASSUME NEW b \in Boxes, NEW sound \in BOOLEAN, NEW seen \in CpusSeen, NEW room \in Room,
             ReportPrepared(b, sound, seen, room)
      PROVE  ProfilesOpen(profile') /\ RoundsOpen(refresh') /\ RowsProven(readiness', proved')
  <2>1. UNCHANGED profile
    BY <1>8 DEF ReportPrepared
  <2> QED
    BY <1>1, <1>3, <1>8, <2>1, PreparedProven
<1>9. ASSUME NEW b \in Boxes, NEW p \in ProfileNames, Stale(b, p)
      PROVE  ProfilesOpen(profile') /\ RoundsOpen(refresh') /\ RowsProven(readiness', proved')
  <2>1. UNCHANGED <<profile, refresh, proved>>
    BY <1>9 DEF Stale
  <2> QED
    BY <1>1, <1>3, <1>9, <2>1, StaleProven
<1>10. ASSUME UNCHANGED <<profile, refresh, readiness, proved>>
       PROVE  ProfilesOpen(profile') /\ RoundsOpen(refresh') /\ RowsProven(readiness', proved')
  BY <1>3, <1>10
<1>11. ASSUME NEW b \in Boxes,
              \/ \E labels \in SUBSET HostLabels : setLabels(b, labels)
              \/ \E report \in Benchmarks : reportBenchmark(b, report)
              \/ \E ignored \in BOOLEAN : reportHostFacts(b, ignored)
              \/ Silent(b) \/ hostHeartbeat(b)
       PROVE  UNCHANGED <<profile, refresh, readiness, proved>>
  BY <1>11 DEF setLabels, reportBenchmark, reportHostFacts, Silent, hostHeartbeat
<1>12. tryAssign => UNCHANGED <<profile, refresh, readiness, proved>>
  BY DEF tryAssign
<1>13. ASSUME \/ \E p \in ProfileNames, kind \in {"attempt", "experiment"} : create(p, kind)
              \/ \E i \in Works : \/ claimWork(i) \/ markRunning(i)
                                  \/ reportExperiment(i) \/ cancelExperiment(i) \/ AttemptEnds(i)
              \/ \E late \in SUBSET Works : reconcileWork(late)
       PROVE  Restful
  BY <1>13 DEF create, claimWork, markRunning, reportExperiment, cancelExperiment, AttemptEnds, EndWork, reconcileWork
<1>14. Restful => UNCHANGED <<profile, refresh, readiness, proved>>
  BY DEF Restful
<1>15. CASE UNCHANGED placeVars
  BY <1>10, <1>15 DEF placeVars
<1>16. CASE PlacementNext
  BY <1>4, <1>5, <1>6, <1>7, <1>8, <1>9, <1>10, <1>11, <1>12, <1>13, <1>14, <1>16 DEF PlacementNext, AgentRefreshes
<1> QED
  BY <1>15, <1>16

(* Nothing but a pass gives live work that has no Worker one.                  *)
LEMMA OnlyPassesPlace ==
  ASSUME TablesRight(profile, host, work), PlacementNext, ~tryAssign,
         NEW i \in Works, NEW b \in Boxes, GoesTo(i, b)
  PROVE  FALSE
<1>1. work \in [Works -> WorkRows] /\ b # NoBox
  BY PlacementAssumption DEF TablesRight
<1>2. LiveWork(i) /\ work[i].on = NoBox /\ work'[i].on = b /\ work'[i] # work[i]
  BY <1>1 DEF GoesTo
<1>3. work[i] \in WorkRow
  BY <1>1, <1>2, WorkRowKinds DEF LiveWork
<1>4. ASSUME NEW off, NEW m, retireIfOffPin(off, m)  PROVE FALSE
  <2>1. \/ work'[i] = [work[i] EXCEPT !.on = NoBox] \/ work'[i] = [work[i] EXCEPT !.retiring = TRUE]
        \/ work'[i] = work[i]
    BY <1>4 DEF retireIfOffPin
  <2>2. [work[i] EXCEPT !.on = NoBox].on = NoBox /\ [work[i] EXCEPT !.retiring = TRUE].on = NoBox
    BY <1>2, <1>3 DEF WorkRow
  <2> QED
    BY <1>1, <1>2, <2>1, <2>2
<1>5. ASSUME NEW p \in ProfileNames, NEW r \in Registrations, registerProfile(p, r)  PROVE FALSE
  BY <1>2, <1>4, <1>5 DEF registerProfile
<1>6. ASSUME NEW c \in Boxes, NEW labels \in SUBSET HostLabels, setLabels(c, labels)  PROVE FALSE
  BY <1>4, <1>6 DEF setLabels
<1>7. ASSUME NEW p \in ProfileNames, NEW kind \in {"attempt", "experiment"}, create(p, kind)  PROVE FALSE
  <2>1. PICK k \in Works : work[k].st = "none" /\ \E row : work' = [work EXCEPT ![k] = row]
    BY <1>7 DEF create
  <2>2. k # i
    BY <1>2, <2>1 DEF LiveWork
  <2> QED
    BY <1>1, <1>2, <2>1, <2>2
<1>8. ASSUME NEW k \in Works, claimWork(k) \/ markRunning(k)  PROVE FALSE
  <2>1. \E st : \/ work' = [work EXCEPT ![k].st = st]
                \/ work' = [work EXCEPT ![k].st = st, ![k].retiring = FALSE]
    BY <1>8 DEF claimWork, markRunning
  <2>2. k = i
    BY <1>1, <1>2, <2>1
  <2>3. work'[i].on = work[i].on
    BY <1>1, <1>3, <2>1, <2>2 DEF WorkRow
  <2> QED
    BY <1>1, <1>2, <2>3
<1>9. ASSUME NEW k \in Works, reportExperiment(k) \/ cancelExperiment(k) \/ AttemptEnds(k)  PROVE FALSE
  <2>1. work' = [work EXCEPT ![k] = Ended]
    BY <1>9 DEF reportExperiment, cancelExperiment, AttemptEnds, EndWork
  <2>2. Ended.on = NoBox
    BY DEF Ended, NoWork
  <2> QED
    BY <1>1, <1>2, <2>1, <2>2
<1>10. ASSUME NEW late \in SUBSET Works, reconcileWork(late)  PROVE FALSE
  <2>1. work'[i] = Ended \/ work'[i] = [work[i] EXCEPT !.on = NoBox] \/ work'[i] = work[i]
    BY <1>10 DEF reconcileWork
  <2>2. Ended.on = NoBox /\ [work[i] EXCEPT !.on = NoBox].on = NoBox
    BY <1>3 DEF Ended, NoWork, WorkRow
  <2> QED
    BY <1>1, <1>2, <2>1, <2>2
<1>11. ASSUME \/ \E p \in ProfileNames : pauseProfile(p)
              \/ \E c \in Boxes, report \in Benchmarks : reportBenchmark(c, report)
              \/ \E c \in Boxes, ignored \in BOOLEAN : reportHostFacts(c, ignored)
              \/ \E c \in Boxes : Silent(c) \/ hostHeartbeat(c) \/ RefreshFails(c) \/ AgentRefreshes(c)
              \/ \E c \in Boxes, p \in ProfileNames : Stale(c, p)
       PROVE  work' = work
  <2>1. ASSUME NEW c \in Boxes, AgentRefreshes(c)  PROVE work' = work
    <3>1. refreshProfiles(c) => work' = work
      BY DEF refreshProfiles
    <3>2. \A p \in ProfileNames : ReportPreparing(c, p) => work' = work
      BY DEF ReportPreparing
    <3>3. \A sound \in BOOLEAN, seen \in CpusSeen, room \in Room : ReportPrepared(c, sound, seen, room) => work' = work
      BY DEF ReportPrepared
    <3> QED
      BY <2>1, <3>1, <3>2, <3>3 DEF AgentRefreshes
  <2>2. \A c \in Boxes : Silent(c) \/ hostHeartbeat(c) \/ RefreshFails(c) => work' = work
    BY DEF Silent, hostHeartbeat, RefreshFails
  <2>3. \A c \in Boxes, p \in ProfileNames : Stale(c, p) => work' = work
    BY DEF Stale
  <2>4. \A p \in ProfileNames : pauseProfile(p) => work' = work
    BY DEF pauseProfile
  <2>5. \A c \in Boxes, report \in Benchmarks : reportBenchmark(c, report) => work' = work
    BY DEF reportBenchmark
  <2>6. \A c \in Boxes, ignored \in BOOLEAN : reportHostFacts(c, ignored) => work' = work
    BY DEF reportHostFacts
  <2> QED
    BY <1>11, <2>1, <2>2, <2>3, <2>4, <2>5, <2>6
<1> QED
  BY <1>2, <1>5, <1>6, <1>7, <1>8, <1>9, <1>10, <1>11 DEF PlacementNext

LEMMA PassesPlaceProven ==
  ASSUME TablesRight(profile, host, work), ReadinessRight(readiness), ProvenInv, tryAssign
  PROVE  PlacedProven
<1> SUFFICES ASSUME NEW i \in Works, NEW b \in Boxes, GoesTo(i, b)
             PROVE  <<b, work[i].p, work[i].contract, profile[work[i].p].egress>> \in proved
  BY DEF PlacedProven
<1>1. work \in [Works -> WorkRows] /\ b # NoBox
  BY PlacementAssumption DEF TablesRight
<1>2. LiveWork(i) /\ work[i].on = NoBox /\ work'[i].on = b
  BY DEF GoesTo
<1>3. work[i] \in WorkRow
  BY <1>1, <1>2, WorkRowKinds DEF LiveWork
<1>4. PICK f \in [unassignedQueue -> Boxes \union {NoBox}] :
        /\ placeInOrder(f)
        /\ work' = [k \in Works |-> IF k \in unassignedQueue THEN [work[k] EXCEPT !.on = f[k]] ELSE work[k]]
  BY Zenon DEF tryAssign
<1>5. i \in unassignedQueue
  BY <1>1, <1>2, <1>4
<1>6. f[i] = b
  <2>1. work'[i] = [work[i] EXCEPT !.on = f[i]]
    BY <1>4, <1>5
  <2> QED
    BY <1>2, <1>3, <2>1 DEF WorkRow
<1>7. isSchedulableReadiness(b, i)
  <2>1. \E on : f[i] \in {c \in Boxes : isSchedulableReadiness(c, i) /\ Admits(c, i, on)}
    BY <1>1, <1>4, <1>5, <1>6 DEF placeInOrder
  <2> QED
    BY <1>6, <2>1
<1>8. work[i].p \in ProfileNames
  BY <1>3 DEF WorkRow
<1>9. PICK p \in ProfileNames : p = work[i].p
  BY <1>8
<1>10. PICK r : r = readiness[b][p]
  OBVIOUS
<1>11. /\ r # NoReport /\ r.state = "ready" /\ r.contract = work[i].contract
       /\ ~readinessAdmissionError(r.contract, r.egress, profile[p].egress)
  BY <1>7, <1>9, <1>10 DEF isSchedulableReadiness
<1>12. OpenUnlessVM(r.contract.executor, r.egress) /\ <<b, p, r.contract, r.egress>> \in proved
  BY <1>10, <1>11 DEF ProvenInv, RowsProven, RowProven
<1>13. ContractOf(profile[p]) = r.contract /\ OpenUnlessVM(profile[p].executor, profile[p].egress)
  BY <1>5, <1>9, <1>11 DEF unassignedQueue, matchesActiveProfile, ProvenInv, ProfilesOpen
<1>14. r.contract.executor = profile[p].executor
  BY <1>13 DEF ContractOf
<1>15. r.egress = profile[p].egress
  BY <1>11, <1>12, <1>13, <1>14 DEF readinessAdmissionError, OpenUnlessVM
<1> QED
  BY <1>9, <1>11, <1>12, <1>15

(* PlacedProven, for any Workers, Profiles, registrations and amount of work:  *)
(* however stale a row a pass reads, whatever registrations, reports and passes*)
(* interleave, work is only placed on a Worker whose own preparation found the *)
(* work's contract ready under the egress policy its Profile has at that       *)
(* moment.                                                                     *)
THEOREM PassesPlaceWhatIsProven == PlacementSpec => [][PlacedProven]_placeVars
<1>1. PlacementInit => PlacementInv /\ ProvenInv
  BY PlacementInitFits, ProvenInit
<1>2. PlacementInv /\ ProvenInv /\ [PlacementNext]_placeVars => PlacementInv' /\ ProvenInv'
  BY PlacementStep, ProvenStep
<1>3. PlacementInv /\ ProvenInv /\ [PlacementNext]_placeVars => [PlacedProven]_placeVars
  <2> SUFFICES ASSUME PlacementInv, ProvenInv, PlacementNext
               PROVE  PlacedProven \/ UNCHANGED placeVars
    OBVIOUS
  <2>1. TablesRight(profile, host, work) /\ ReadinessRight(readiness)
    BY PlacementInvIs
  <2>2. CASE tryAssign
    BY <2>1, <2>2, PassesPlaceProven
  <2>3. CASE ~tryAssign
    BY <2>1, <2>3, OnlyPassesPlace DEF PlacedProven
  <2> QED
    BY <2>2, <2>3
<1> QED
  BY <1>1, <1>2, <1>3, PTL DEF PlacementSpec
=============================================================================
