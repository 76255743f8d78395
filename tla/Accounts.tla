------------------------------ MODULE Accounts ------------------------------
(* Who may use the dashboard: the bootstrap secret and its lockout, sign-up   *)
(* grants, roles, removal, and the accounts a Hub import brings               *)
(* (packages/backend/convex/bootstrap.ts, bootstrapPolicy.ts, auth.ts,        *)
(* infra/access.ts, infra/policy.ts, admin.ts, infra/hubImport.ts).           *)
(*                                                                            *)
(* People are their email addresses. Every mutation is one serializable       *)
(* transaction. Time is counted in base lockouts (30 s).                      *)
EXTENDS Naturals, FiniteSets

CONSTANTS
  People,            \* email addresses
  HubRole,           \* the Hub's accounts: a role for some of the people
  Grants,            \* sign-up grants that may be issued
  Nobody,            \* no account, no grant
  Allowance,         \* FAILURE_ALLOWANCE
  MaxLockout,        \* MAX_LOCKOUT_MS, in base lockouts
  MaxGuesses,        \* secrets presented
  MaxPast,           \* the longest time that matters
  MaxChanges         \* changes of roles and accounts

ASSUME AccountsAssumption ==
  /\ DOMAIN HubRole \subseteq People
  /\ \A p \in DOMAIN HubRole : HubRole[p] \in {"owner", "admin", "operator", "viewer"}
  /\ {Allowance, MaxLockout, MaxGuesses, MaxPast, MaxChanges} \subseteq Nat
  /\ Nobody \notin [role : {"none", "owner", "admin", "operator", "viewer"}, hub : BOOLEAN]
  /\ \A n \in 0 .. MaxGuesses : 2^n \in Nat   \* the provers know no powers

VARIABLES
  user,        \* per person: the account's role, and whether it has a Hub id
  grant,       \* per grant: its kind, role, and whether it still opens the door
  throttle,    \* failures in a row and the time the lockout ends
  clock, lastGuess,   \* now, and when the last wrong secret was looked at
  gone,        \* tombstones: Hub accounts removed in Convex
  left,        \* history: Hub accounts removed, and not invited since
  ownerCut,    \* history: an owner was deleted with the deployment's own key
  guesses, changes

accountVars == <<user, grant, throttle, clock, lastGuess, gone, left, ownerCut, guesses, changes>>

Roles == {"owner", "admin", "operator", "viewer"}
RANK == [viewer |-> 0, operator |-> 1, admin |-> 2, owner |-> 3]

(* An account from before roles existed has none, which reads as owner.       *)
EffectiveRole(p) == IF user[p].role = "none" THEN "owner" ELSE user[p].role
Accounts == {p \in People : user[p] # Nobody}
Owners == {p \in Accounts : EffectiveRole(p) = "owner"}
MayAssignRole(actor, from, to) == RANK[actor] >= RANK[from] /\ RANK[actor] >= RANK[to]
IsDashboardAdmin(p) == RANK[EffectiveRole(p)] >= RANK["admin"]

(* An empty deployment, or one whose only account is from before roles.       *)
AccountsInit ==
  /\ \E first \in SUBSET People :
       /\ Cardinality(first) < 2
       /\ user = [p \in People |-> IF p \in first THEN [role |-> "none", hub |-> FALSE] ELSE Nobody]
  /\ grant = [g \in Grants |-> Nobody]
  /\ throttle = [failures |-> 0, lockedUntil |-> 0]
  /\ clock = 0 /\ lastGuess = 0
  /\ gone = {} /\ left = {} /\ ownerCut = FALSE
  /\ guesses = 0 /\ changes = 0

-----------------------------------------------------------------------------
(* The bootstrap secret.                                                      *)

Min2(a, b) == IF a < b THEN a ELSE b
Lockout(failures) == IF failures > Allowance THEN Min2(2^(failures - Allowance - 1), MaxLockout) ELSE 0

FlatLockout(t, now) ==   \* a mutant: the lockout never starts
  [failures |-> t.failures + 1, lockedUntil |-> 0]

NextThrottleAfterFailure(t, now) ==
  LET failures == t.failures + 1 IN
  [failures |-> failures,
   lockedUntil |-> IF failures > Allowance THEN now + Lockout(failures) ELSE 0]

Locked == throttle.lockedUntil > clock

ClaimWrong ==
  /\ guesses < MaxGuesses /\ guesses' = guesses + 1
  /\ ~Locked
  /\ throttle' = NextThrottleAfterFailure(throttle, clock)
  /\ lastGuess' = clock
  /\ UNCHANGED <<user, grant, clock, gone, left, ownerCut, changes>>

ClaimRight(g) ==
  /\ guesses < MaxGuesses /\ guesses' = guesses + 1
  /\ ~Locked
  /\ throttle' = [failures |-> 0, lockedUntil |-> 0]
  /\ grant[g] = Nobody
  /\ grant' = IF Accounts # {} THEN grant
              ELSE [grant EXCEPT ![g] = [kind |-> "bootstrap", role |-> "owner", live |-> TRUE]]
  /\ UNCHANGED <<user, clock, lastGuess, gone, left, ownerCut, changes>>

Wait ==
  /\ clock < MaxPast /\ clock' = clock + 1
  /\ UNCHANGED <<user, grant, throttle, lastGuess, gone, left, ownerCut, guesses, changes>>

-----------------------------------------------------------------------------
(* Grants and accounts.                                                       *)

Changed ==
  /\ changes < MaxChanges /\ changes' = changes + 1
  /\ UNCHANGED <<throttle, clock, lastGuess, guesses>>

Invite(by, g, role) ==
  /\ Changed
  /\ by \in Accounts /\ IsDashboardAdmin(by) /\ MayAssignRole(EffectiveRole(by), role, role)
  /\ grant[g] = Nobody
  /\ grant' = [grant EXCEPT ![g] = [kind |-> "invite", role |-> role, live |-> TRUE]]
  /\ UNCHANGED <<user, gone, left, ownerCut>>

GrantExpires(g) ==
  /\ grant[g] # Nobody /\ grant[g].live
  /\ grant' = [grant EXCEPT ![g].live = FALSE]
  /\ UNCHANGED <<user, throttle, clock, lastGuess, gone, left, ownerCut, guesses, changes>>

(* The first account is the owner, whatever role was asked for.               *)
RoleOfNew(role) == IF Accounts = {} THEN "owner" ELSE role

(* A grant is used once; a bootstrap grant only for the first account.        *)
SignUp(p, g) ==
  /\ Changed
  /\ grant[g] # Nobody /\ grant[g].live /\ user[p] = Nobody
  /\ grant[g].kind = "bootstrap" => Accounts = {}
  /\ grant' = [grant EXCEPT ![g].live = FALSE]
  /\ user' = [user EXCEPT ![p] = [role |-> RoleOfNew(grant[g].role), hub |-> FALSE]]
  /\ left' = left \ {p}
  /\ UNCHANGED <<gone, ownerCut>>

AnyOwner(target) == TRUE   \* a mutant: nobody counts the owners

AnotherOwnerExists(target) == Owners \ {target} # {}

SetUserRole(by, target, role) ==
  /\ Changed
  /\ by \in Accounts /\ IsDashboardAdmin(by) /\ target \in Accounts
  /\ MayAssignRole(EffectiveRole(by), EffectiveRole(target), role)
  /\ (target \in Owners /\ role # "owner") => AnotherOwnerExists(target)
  /\ user' = [user EXCEPT ![target].role = role]
  /\ UNCHANGED <<grant, gone, left, ownerCut>>

(* What a removal leaves behind: a tombstone for an account the Hub also has. *)
NoTombstone(p) == gone   \* a mutant

Tombstones(p) == IF user[p].hub THEN gone \cup {p} ELSE gone

Forget(p) ==
  /\ user' = [user EXCEPT ![p] = Nobody]
  /\ gone' = Tombstones(p)
  /\ left' = IF user[p].hub THEN left \cup {p} ELSE left

RemoveUser(by, target) ==
  /\ Changed
  /\ by \in Accounts /\ IsDashboardAdmin(by) /\ target \in Accounts /\ by # target
  /\ RANK[EffectiveRole(by)] >= RANK[EffectiveRole(target)]
  /\ target \in Owners => AnotherOwnerExists(target)
  /\ Forget(target)
  /\ UNCHANGED <<grant, ownerCut>>

(* The deployment's own clean-up asks nobody.                                 *)
DeleteUser(target) ==
  /\ Changed /\ target \in Accounts
  /\ Forget(target)
  /\ ownerCut' = (ownerCut \/ target \in Owners)
  /\ UNCHANGED grant

(* One person, one account: a dashboard account of that address is joined,    *)
(* with the higher of the two roles; an account is copied once.               *)
HigherRole(a, b) == IF RANK[a] > RANK[b] THEN a ELSE b
DecideUser(p) ==
  IF p \in gone THEN user[p]
  ELSE IF user[p] = Nobody THEN [role |-> RoleOfNew(HubRole[p]), hub |-> TRUE]
  ELSE IF user[p].hub THEN user[p]
  ELSE [role |-> HigherRole(HubRole[p], EffectiveRole(p)), hub |-> TRUE]

(* Owners first, so that the rule of the first account changes nobody's role. *)
ImportUser(p) ==
  /\ p \in DOMAIN HubRole /\ DecideUser(p) # user[p]
  /\ \A q \in DOMAIN HubRole \ {p} :
       (HubRole[q] = "owner" /\ HubRole[p] # "owner") => DecideUser(q) = user[q]
  /\ user' = [user EXCEPT ![p] = DecideUser(p)]
  /\ UNCHANGED <<grant, throttle, clock, lastGuess, gone, left, ownerCut, guesses, changes>>

AccountsNext ==
  \/ ClaimWrong \/ Wait
  \/ \E g \in Grants : ClaimRight(g) \/ GrantExpires(g)
  \/ \E by \in People, g \in Grants, r \in Roles : Invite(by, g, r)
  \/ \E p \in People, g \in Grants : SignUp(p, g)
  \/ \E by, p \in People, r \in Roles : SetUserRole(by, p, r)
  \/ \E by, p \in People : RemoveUser(by, p)
  \/ \E p \in People : DeleteUser(p) \/ ImportUser(p)

AccountsSpec == AccountsInit /\ [][AccountsNext]_accountVars

-----------------------------------------------------------------------------
(* Once there is an account there is an owner, whatever sequence of sign-ups, *)
(* demotions, removals and imports led here; only the deployment's own key    *)
(* can take the last one away (access.ts insertUser, assertNotLastOwner).     *)
OwnerRemains == (Accounts # {} /\ ~ownerCut) => Owners # {}

(* An account the Hub also has, once removed, is not brought back with its    *)
(* Hub password by any later import; it takes a new invitation.               *)
RemovedStaysOut == \A p \in left : user[p] = Nobody

(* The deployment keeps an owner, and whoever was put out stays out.          *)
AccountsSafe == OwnerRemains /\ RemovedStaysOut

(* Guessing the bootstrap secret gets slower: beyond the allowance, a wrong   *)
(* secret is looked at only after the lockout of the one before it, which     *)
(* doubles up to its cap.                                                     *)
GuessesSpaced ==
  (throttle'.failures > throttle.failures /\ throttle.failures > Allowance)
    => clock >= lastGuess + Lockout(throttle.failures)
=============================================================================
