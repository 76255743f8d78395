------------------------------- MODULE WarmPool -------------------------------
(* The warm pool of one Profile on a Firecracker Worker                        *)
(* (runtime/internal/firecracker/warm_pool.go), the parked microVMs it owns    *)
(* (firecrackerWarmSlot and machineLease in runtime_linux.go) and the runtime  *)
(* API handlers that claim and end them (runtimeapi/api.go). Handlers, the     *)
(* reconcile loop and the goroutine that watches each microVM interleave; what *)
(* is done under warmPoolManager.mu is one step.                               *)
EXTENDS Naturals, FiniteSets

CONSTANTS
  Slots,         \* microVM ids
  Contracts,     \* image, size and egress policy of the Profile (sameWarmProfile)
  MaxTarget,     \* the largest warm pool
  Attempts,      \* the Attempts that start on this Worker
  Mishaps,       \* what fails: "boot", "exit", "inject", "close"
  MaxMishaps,    \* how often
  MaxChanges     \* how often the Profile is changed or removed

ASSUME WarmPoolAssumption ==
  /\ MaxTarget \in Nat /\ MaxMishaps \in Nat /\ MaxChanges \in Nat
  /\ "none" \notin Slots \cup Contracts

VARIABLES
  contract,   \* warmPoolState.profile, "none" when the Profile has no state
  target,     \* its WarmPool
  parked,     \* warmPoolState.idle
  taken,      \* warmPoolState.claimed
  lastErr,    \* warmPoolState.lastErr is set
  poolClosed, \* "no", "closing" while Shutdown runs, "done" once it returned
  vm,         \* "none", "up", "exited", or how its cleanup went: "clean", "dirty"
  reserved,   \* firecrackerWarmSlot.claimed
  bootedAs,   \* the contract a microVM was booted under
  rec,        \* the reconcile loop: [at, slot, as]
  wanted,     \* a call of reconcile waits for reconcileMu
  obsolete,   \* microVMs Configure took out of the pool and is closing
  leaving,    \* microVMs Remove and Shutdown took out of the pool
  abandoned,  \* microVMs nobody will close any more
  guest,      \* an Attempt: [at, slot, as]
  mishaps, changes

profileVars == <<contract, target, parked, taken, lastErr>>
vmVars == <<vm, reserved, bootedAs>>
warmVars == <<profileVars, poolClosed, vmVars, rec, wanted, obsolete, leaving,
              abandoned, guest, mishaps, changes>>

Off == [at |-> "off", slot |-> "none", as |-> "none"]
Owned == Cardinality(parked \cup taken)
Down == {"clean", "dirty"}

(* The id is nobody's any more; the code never uses one twice.                 *)
Unused(i) ==
  /\ vm[i] \in Down \cup {"none"}
  /\ i \notin parked \cup taken \cup obsolete \cup leaving
  /\ rec.slot # i
  /\ \A a \in Attempts : guest[a].slot # i

WarmInit ==
  /\ contract = "none" /\ target = 0
  /\ parked = {} /\ taken = {}
  /\ lastErr = FALSE
  /\ poolClosed = "no"
  /\ vm = [i \in Slots |-> "none"]
  /\ reserved = [i \in Slots |-> FALSE]
  /\ bootedAs = [i \in Slots |-> "none"]
  /\ rec = Off /\ wanted = FALSE
  /\ obsolete = {} /\ leaving = {} /\ abandoned = {}
  /\ guest = [a \in Attempts |-> Off]
  /\ mishaps = 0 /\ changes = 0

Mishap(kind) == kind \in Mishaps /\ mishaps < MaxMishaps /\ mishaps' = mishaps + 1

-----------------------------------------------------------------------------
(* machineLease.cleanup runs once, whoever calls it first, and answers every   *)
(* later call with what the first one came to.                                 *)
cleanup(i, how) ==
  \/ /\ vm[i] \in Down /\ how = vm[i]
     /\ UNCHANGED <<vm, mishaps>>
  \/ /\ vm[i] \notin Down /\ how = "clean"
     /\ vm' = [vm EXCEPT ![i] = how]
     /\ UNCHANGED mishaps
  \/ /\ vm[i] \notin Down /\ how = "dirty"
     /\ vm' = [vm EXCEPT ![i] = how]
     /\ Mishap("close")

(* The guest powers off or its VMM dies. markExited and reserveClaim exclude   *)
(* each other: a parked microVM then cleans up after itself, a claimed one     *)
(* leaves it to whoever waits for the Attempt.                                 *)
markExited(i) ==
  /\ vm[i] = "up"
  /\ \/ reserved[i] /\ UNCHANGED mishaps
     \/ ~reserved[i] /\ Mishap("exit")
  /\ vm' = [vm EXCEPT ![i] = "exited"]
  /\ UNCHANGED <<profileVars, poolClosed, reserved, bootedAs, rec, wanted, obsolete,
                 leaving, abandoned, guest, changes>>

exitedIdle(i) ==
  /\ vm[i] = "exited" /\ ~reserved[i]
  /\ \E how \in Down : cleanup(i, how)
  /\ UNCHANGED <<profileVars, poolClosed, reserved, bootedAs, rec, wanted, obsolete,
                 leaving, abandoned, guest, changes>>

watchIdle(i) ==
  /\ i \in parked /\ vm[i] \in Down
  /\ parked' = parked \ {i}
  /\ lastErr' = TRUE
  /\ wanted' = TRUE
  /\ UNCHANGED <<contract, target, taken, poolClosed, vmVars, rec, obsolete,
                 leaving, abandoned, guest, mishaps, changes>>

-----------------------------------------------------------------------------
(* Configure: the Agent prepares a Profile, at every readiness refresh. A      *)
(* changed contract is refused while a microVM is claimed, and replaces the    *)
(* parked ones otherwise; the last part of Configure is a reconcile.           *)
Refuses(c) == contract \notin {"none", c} /\ taken # {}
Configure(c, n) ==
  /\ poolClosed = "no" /\ obsolete = {}
  /\ n > 0
  /\ IF c = contract /\ n = target
     THEN UNCHANGED changes
     ELSE changes < MaxChanges /\ changes' = changes + 1
  /\ IF Refuses(c)
     THEN lastErr' = TRUE /\ UNCHANGED <<contract, target, parked, obsolete, wanted>>
     ELSE /\ contract' = c
          /\ target' = n
          /\ lastErr' = FALSE
          /\ IF contract \in {"none", c}
             THEN wanted' = TRUE /\ UNCHANGED <<parked, obsolete>>
             ELSE /\ parked' = {}
                  /\ obsolete' = parked
                  /\ wanted' = (wanted \/ parked = {})
  /\ UNCHANGED <<taken, poolClosed, vmVars, rec, leaving, abandoned, guest,
                 mishaps>>

(* Configure closes what it replaced, one after the other, and returns at the  *)
(* first that fails.                                                           *)
ConfigureCloses(i) ==
  /\ i \in obsolete
  /\ \E how \in Down :
       /\ cleanup(i, how)
       /\ IF how = "clean"
          THEN /\ obsolete' = obsolete \ {i}
               /\ wanted' = (wanted \/ obsolete' = {})
               /\ UNCHANGED abandoned
          ELSE /\ obsolete' = {}
               /\ abandoned' = abandoned \cup (obsolete \ {i})
               /\ UNCHANGED wanted
  /\ UNCHANGED <<profileVars, poolClosed, reserved, bootedAs, rec, leaving, guest,
                 changes>>

(* Remove, also from Configure with no warm pool: the state stays while a      *)
(* microVM is claimed.                                                         *)
Remove ==
  /\ contract # "none"
  /\ changes < MaxChanges /\ changes' = changes + 1
  /\ target' = 0
  /\ parked' = {}
  /\ leaving' = leaving \cup parked
  /\ contract' = IF taken = {} THEN "none" ELSE contract
  /\ lastErr' = IF taken = {} THEN FALSE ELSE lastErr
  /\ UNCHANGED <<taken, poolClosed, vmVars, rec, wanted, obsolete, abandoned, guest,
                 mishaps>>

Shutdown ==
  /\ poolClosed = "no"
  /\ poolClosed' = "closing"
  /\ changes < MaxChanges /\ changes' = changes + 1
  /\ leaving' = leaving \cup parked \cup taken
  /\ parked' = {} /\ taken' = {}
  /\ contract' = "none" /\ target' = 0 /\ lastErr' = FALSE
  /\ UNCHANGED <<vmVars, rec, wanted, obsolete, abandoned, guest, mishaps>>

(* Remove and Shutdown close the rest whatever fails; Shutdown first waits for *)
(* reconcileMu.                                                                *)
Closes(i) ==
  /\ i \in leaving
  /\ poolClosed = "closing" => rec.at = "off"
  /\ \E how \in Down : cleanup(i, how)
  /\ leaving' = leaving \ {i}
  /\ UNCHANGED <<profileVars, poolClosed, reserved, bootedAs, rec, wanted, obsolete,
                 abandoned, guest, changes>>

(* Mutant of ShutdownReturns: it does not wait for a boot under way.           *)
ShutdownHurries ==
  /\ poolClosed = "closing" /\ leaving = {}
  /\ poolClosed' = "done"
  /\ UNCHANGED <<profileVars, vmVars, rec, wanted, obsolete, leaving, abandoned,
                 guest, mishaps, changes>>

ShutdownReturns ==
  /\ poolClosed = "closing" /\ rec.at = "off" /\ leaving = {}
  /\ poolClosed' = "done"
  /\ UNCHANGED <<profileVars, vmVars, rec, wanted, obsolete, leaving, abandoned,
                 guest, mishaps, changes>>

-----------------------------------------------------------------------------
(* reconcile, one round at a time under reconcileMu.                           *)
Looping == rec' = [Off EXCEPT !.at = "loop"]
reconcile ==
  /\ rec.at = "off" /\ wanted
  /\ Looping /\ wanted' = FALSE
  /\ UNCHANGED <<profileVars, poolClosed, vmVars, obsolete, leaving, abandoned,
                 guest, mishaps, changes>>

round ==
  /\ rec.at = "loop"
  /\ \/ \* nothing to do, or no parked microVM to give up
        /\ contract = "none" \/ Owned = target \/ (Owned > target /\ parked = {})
        /\ lastErr' = (contract # "none" /\ Owned > target)
        /\ rec' = Off
        /\ UNCHANGED parked
     \/ /\ contract # "none" /\ Owned > target
        /\ \E i \in parked : /\ parked' = parked \ {i}
                             /\ rec' = [at |-> "drain", slot |-> i, as |-> "none"]
        /\ UNCHANGED lastErr
     \/ /\ contract # "none" /\ Owned < target
        /\ rec' = [at |-> "boot", slot |-> "none", as |-> contract]
        /\ UNCHANGED <<parked, lastErr>>
  /\ UNCHANGED <<contract, target, taken, poolClosed, vmVars, wanted, obsolete,
                 leaving, abandoned, guest, mishaps, changes>>

drain ==
  /\ rec.at = "drain"
  /\ \E how \in Down : /\ cleanup(rec.slot, how)
                       /\ IF how = "clean" THEN Looping ELSE rec' = Off
  /\ UNCHANGED <<profileVars, poolClosed, reserved, bootedAs, wanted, obsolete,
                 leaving, abandoned, guest, changes>>

(* newWarmSlot: the guest boots, in up to fifteen minutes, or fails and is     *)
(* torn down.                                                                  *)
newWarmSlot(i) ==
  /\ rec.at = "boot" /\ Unused(i)
  /\ vm' = [vm EXCEPT ![i] = "up"]
  /\ reserved' = [reserved EXCEPT ![i] = FALSE]
  /\ bootedAs' = [bootedAs EXCEPT ![i] = rec.as]
  /\ rec' = [rec EXCEPT !.at = "publish", !.slot = i]
  /\ UNCHANGED <<profileVars, poolClosed, wanted, obsolete, leaving, abandoned, guest,
                 mishaps, changes>>

bootFails ==
  /\ rec.at = "boot"
  /\ Mishap("boot") \/ (poolClosed # "no" /\ UNCHANGED mishaps)
  /\ lastErr' = (contract # "none")
  /\ rec' = Off
  /\ UNCHANGED <<contract, target, parked, taken, poolClosed, vmVars, wanted,
                 obsolete, leaving, abandoned, guest, changes>>

(* What the pool is after the boot decides whether the microVM joins it.       *)
(* Mutants of Fits: the Profile changed during the boot; its target did; one   *)
(* too few.                                                                    *)
FitsAnyContract == contract # "none" /\ Owned < target
FitsAnyTarget == contract = rec.as
FitsBelow == contract = rec.as /\ Owned + 1 < target
Fits == contract = rec.as /\ Owned < target
(* Mutant of publish: a microVM that does not fit is forgotten.                *)
publishOrForget ==
  /\ rec.at = "publish"
  /\ parked' = IF Fits THEN parked \cup {rec.slot} ELSE parked
  /\ lastErr' = (~Fits /\ lastErr)
  /\ Looping
  /\ UNCHANGED <<contract, target, taken, poolClosed, vmVars, wanted, obsolete,
                 leaving, abandoned, guest, mishaps, changes>>

publish ==
  /\ rec.at = "publish"
  /\ IF Fits
     THEN /\ parked' = parked \cup {rec.slot}
          /\ lastErr' = FALSE
          /\ UNCHANGED <<vm, mishaps>>
     ELSE /\ \E how \in Down : cleanup(rec.slot, how)
          /\ UNCHANGED <<parked, lastErr>>
  /\ Looping
  /\ UNCHANGED <<contract, target, taken, poolClosed, reserved, bootedAs, wanted,
                 obsolete, leaving, abandoned, guest, changes>>

-----------------------------------------------------------------------------
(* Claim, for an Attempt of this Profile under the contract its controller     *)
(* asked for: a healthy pool hands out a microVM, an empty or absent one lets  *)
(* the Attempt boot cold, and any other answer fails the Attempt.              *)
Healthy == ~lastErr /\ Owned = target
Claim(a, c) ==
  /\ guest[a].at = "off"
  /\ \/ /\ target = 0 \/ (Healthy /\ c = contract /\ parked = {})
        /\ guest' = [guest EXCEPT ![a].at = "cold"]
        /\ UNCHANGED <<parked, taken>>
     \/ /\ target # 0 /\ ~(Healthy /\ c = contract)
        /\ guest' = [guest EXCEPT ![a].at = "refused"]
        /\ UNCHANGED <<parked, taken>>
     \/ /\ target # 0 /\ Healthy /\ c = contract
        /\ \E i \in parked :
             /\ parked' = parked \ {i}
             /\ taken' = taken \cup {i}
             /\ guest' = [guest EXCEPT ![a] = [at |-> "injecting", slot |-> i, as |-> c]]
  /\ UNCHANGED <<contract, target, lastErr, poolClosed, vmVars, rec, wanted,
                 obsolete, leaving, abandoned, mishaps, changes>>

(* release: the slot leaves the pool it is still claimed in, and the state of  *)
(* a removed Profile goes with its last slot.                                  *)
releaseSlot(i) ==
  /\ taken' = taken \ {i}
  /\ contract' = IF contract # "none" /\ target = 0 /\ parked = {} /\ taken' = {}
                 THEN "none" ELSE contract
  /\ wanted' = TRUE

End(a, how) == guest' = [guest EXCEPT ![a] = [Off EXCEPT !.at = how]]

(* firecrackerWarmSlot.Claim writes the metadata that starts the job, unless   *)
(* the microVM is gone; then, or when the write fails, Claim closes it.        *)
inject(a) ==
  /\ guest[a].at = "injecting"
  /\ LET i == guest[a].slot IN
     /\ vm[i] = "up"
     /\ reserved' = [reserved EXCEPT ![i] = TRUE]
     /\ \/ /\ guest' = [guest EXCEPT ![a].at = "running"]
           /\ UNCHANGED mishaps
        \/ /\ Mishap("inject")
           /\ guest' = [guest EXCEPT ![a].at = "closing"]
  /\ UNCHANGED <<profileVars, poolClosed, vm, bootedAs, rec, wanted, obsolete,
                 leaving, abandoned, changes>>

injectFails(a) ==
  /\ guest[a].at = "injecting" /\ vm[guest[a].slot] # "up"
  /\ guest' = [guest EXCEPT ![a].at = "closing"]
  /\ UNCHANGED <<profileVars, poolClosed, vmVars, rec, wanted, obsolete, leaving,
                 abandoned, mishaps, changes>>

ClaimCloses(a) ==
  /\ guest[a].at = "closing"
  /\ \E how \in Down :
       /\ cleanup(guest[a].slot, how)
       /\ IF how = "clean"
          THEN releaseSlot(guest[a].slot) /\ UNCHANGED lastErr
          ELSE /\ lastErr' = (lastErr \/ contract # "none")
               /\ UNCHANGED <<contract, taken, wanted>>
  /\ End(a, "refused")
  /\ UNCHANGED <<target, parked, poolClosed, reserved, bootedAs, rec, obsolete,
                 leaving, abandoned, changes>>

(* execute waits for the microVM to exit and cleans up, or cancels at the job  *)
(* timeout or when the caller is gone; either way the slot is released.        *)
WaitOrCancel(a) ==
  /\ guest[a].at = "running"
  /\ \E how \in Down : cleanup(guest[a].slot, how)
  /\ releaseSlot(guest[a].slot)
  /\ End(a, "over")
  /\ UNCHANGED <<target, parked, lastErr, poolClosed, reserved, bootedAs, rec,
                 obsolete, leaving, abandoned, changes>>

(* The Agent's recovery names the live Attempts; a slot claimed for another is *)
(* closed, and released if that worked.                                        *)
RecoverOrphans(i) ==
  /\ i \in taken
  /\ \E how \in Down :
       /\ cleanup(i, how)
       /\ IF how = "clean" THEN releaseSlot(i) ELSE UNCHANGED <<contract, taken, wanted>>
  /\ UNCHANGED <<target, parked, lastErr, poolClosed, reserved, bootedAs, rec,
                 obsolete, leaving, abandoned, guest, changes>>

-----------------------------------------------------------------------------
WarmNext ==
  \/ \E i \in Slots : \/ markExited(i) \/ exitedIdle(i) \/ watchIdle(i)
                      \/ ConfigureCloses(i) \/ Closes(i)
                      \/ newWarmSlot(i) \/ RecoverOrphans(i)
  \/ \E c \in Contracts, n \in 1..MaxTarget : Configure(c, n)
  \/ Remove \/ Shutdown \/ ShutdownReturns
  \/ reconcile \/ round \/ drain \/ bootFails \/ publish
  \/ \E a \in Attempts : \/ \E c \in Contracts : Claim(a, c)
                         \/ inject(a) \/ injectFails(a)
                         \/ ClaimCloses(a) \/ WaitOrCancel(a)

WarmSpec == WarmInit /\ [][WarmNext]_warmVars

(* Goroutines go on, a boot and a job end within their timeouts, and the Agent *)
(* prepares the Profile it has again.                                          *)
WarmFairness ==
  /\ \A i \in Slots : /\ WF_warmVars(exitedIdle(i)) /\ WF_warmVars(watchIdle(i))
                      /\ WF_warmVars(ConfigureCloses(i)) /\ WF_warmVars(Closes(i))
  /\ WF_warmVars(reconcile \/ round \/ drain \/ publish \/ \E i \in Slots : newWarmSlot(i))
  /\ WF_warmVars(ShutdownReturns)
  /\ WF_warmVars(contract # "none" /\ target > 0 /\ Configure(contract, target))
  /\ \A a \in Attempts :
       WF_warmVars(inject(a) \/ injectFails(a) \/ ClaimCloses(a) \/ WaitOrCancel(a))

WarmFairSpec == WarmSpec /\ WarmFairness

-----------------------------------------------------------------------------
(* Every parked microVM was booted under the pool's contract, and an Attempt   *)
(* only ever runs in one booted under the contract it asked for, whatever      *)
(* changed while the microVM booted (reconcile, sameWarmProfile).              *)
RightContract ==
  /\ \A i \in parked : bootedAs[i] = contract
  /\ \A a \in Attempts : guest[a].at \in {"injecting", "running"}
                           => bootedAs[guest[a].slot] = guest[a].as

(* A microVM joins the pool only if the pool, claimed ones included, is not    *)
(* over its target then (reconcile).                                           *)
JoinsWithinTarget == [][parked' \subseteq parked \/ Cardinality(parked' \cup taken') <= target']_warmVars

(* Every microVM that holds resources is in the pool, or somebody is about to  *)
(* clean it up, except those a failed Configure left behind.                   *)
Kept(i) ==
  \/ i \in parked \cup taken \cup obsolete \cup leaving \cup abandoned
  \/ rec.slot = i
  \/ \E a \in Attempts : guest[a].slot = i
NoStrayVM ==
  \A i \in Slots : \/ vm[i] \in Down \cup {"none"}
                   \/ Kept(i)
                   \/ vm[i] = "exited" /\ ~reserved[i]

(* Once Shutdown has returned no microVM of the pool appears any more, not     *)
(* even one that was booting (Shutdown, reconcileMu).                          *)
NothingAfterShutdown ==
  poolClosed = "done" =>
    \A i \in Slots : vm[i] = "up" => i \in obsolete \cup abandoned

(* The pool has only microVMs that fit, and every microVM is somebody's.       *)
PoolSound == RightContract /\ NoStrayVM /\ NothingAfterShutdown

(* The pool is filled, whatever exited, failed to boot or was claimed.         *)
PoolSettled == contract = "none" \/ Owned >= target
=============================================================================
