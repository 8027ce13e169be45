---------------------------- MODULE KingAutoLock ----------------------------
(***************************************************************************)
(* Where the force-locked slice of a King's CLAIM goes: the per-recipient  *)
(* selection MineCore stores (a selected lock, and the lock the route      *)
(* itself created and pinned) and the veCLAIM locks it routes into.        *)
(*                                                                         *)
(* The locks are VeClaimNFT's and the Furnace enters them; MineCore only   *)
(* reads ownerOf/getLockInfo and calls Furnace.enterWithClaimFor.  Their   *)
(* lifecycle is kept as far as the route can tell locks apart: whose they  *)
(* are, whether they are listed, and whether they are perpetual (autoMax), *)
(* full (at least KING_FORCE_LOCK_MIN_DURATION left), short, or expired.   *)
(* A lock never changes hands: a transfer can only go to the Furnace,      *)
(* which burns it.                                                         *)
(***************************************************************************)
EXTENDS MineCoreHelper

CONSTANTS
  Accounts,    \* kings, their delegates and payout recipients
  MaxLocks,    \* bound: number of veNFTs ever minted
  Sessions     \* live DelegationHub sessions, <<user, delegate, permission>>

NoLock == 0
LockIds == 1 .. MaxLocks
Permissions == {"TAKEOVER_FOR", "ROUTE_REIGN_CLAIM_TO_CALLER",
                "SET_REIGN_ETH_RECIPIENT", "SET_REIGN_ETH_RECIPIENT_TO_CALLER_ONLY",
                "SET_REIGN_CLAIM_RECIPIENT", "SET_REIGN_CLAIM_RECIPIENT_TO_USER_ONLY",
                "SET_KING_AUTO_LOCK_CONFIG_FOR"}

ASSUME LockAssumption ==
  /\ NoOne \notin Accounts
  /\ MaxLocks \in Nat
  /\ Sessions \subseteq Accounts \X Accounts \X Permissions
  /\ \A s \in Sessions : s[1] # s[2]

isAuthorized(user, delegate, perm) == <<user, delegate, perm>> \in Sessions

VARIABLES
  kingAutoLockConfig,   \* per recipient: the selected and the pinned lock
  locks,                \* external: VeClaimNFT
  nextTokenId           \* external: VeClaimNFT, ids are never reused

lockVars == <<kingAutoLockConfig, locks, nextTokenId>>

Terms == {"autoMax", "full", "short", "expired"}
Lock == [owner : Accounts \cup {NoOne}, term : Terms, listed : BOOLEAN,
         routed : BOOLEAN]                 \* history: minted by MineCore's route

LockTypeOK ==
  /\ kingAutoLockConfig \in
       [Accounts -> [targetTokenId : LockIds \cup {NoLock},
                     pinnedTokenId : LockIds \cup {NoLock}]]
  /\ locks \in [LockIds -> Lock]
  /\ nextTokenId \in 1 .. MaxLocks + 1

LockInit ==
  /\ kingAutoLockConfig =
       [a \in Accounts |-> [targetTokenId |-> NoLock, pinnedTokenId |-> NoLock]]
  /\ locks = [t \in LockIds |-> [owner |-> NoOne, term |-> "expired", listed |-> FALSE,
                                 routed |-> FALSE]]
  /\ nextTokenId = 1

Mint(owner, term, byRoute) ==
  /\ nextTokenId \in LockIds
  /\ locks' = [locks EXCEPT ![nextTokenId] =
                 [owner |-> owner, term |-> term, listed |-> FALSE, routed |-> byRoute]]
  /\ nextTokenId' = nextTokenId + 1

-----------------------------------------------------------------------------
(* MineCoreHelper._resolveExistingToken: can a settlement for a use lock t? *)
Resolves(t, a) ==
  /\ t \in LockIds
  /\ locks[t].owner = a
  /\ ~locks[t].listed
  /\ locks[t].term \in {"autoMax", "full"}

(* The lock a settlement for a tops up, or NoLock when it has to mint one:
   the selected lock if there is a selection, otherwise the pinned one. *)
Destination(a) ==
  LET cfg == kingAutoLockConfig[a]
      t   == IF cfg.targetTokenId # NoLock THEN cfg.targetTokenId ELSE cfg.pinnedTokenId
  IN  IF Resolves(t, a) THEN t ELSE NoLock

SetPin(a, t) == kingAutoLockConfig' = [kingAutoLockConfig EXCEPT ![a].pinnedTokenId = t]

(* A pin that no longer resolves is dropped, but only if it was consulted. *)
PinAfterResolve(a) ==
  LET cfg == kingAutoLockConfig[a]
  IN  IF cfg.targetTokenId = NoLock /\ Destination(a) = NoLock
      THEN NoLock ELSE cfg.pinnedTokenId

(* Mutant: the first lock is minted but never pinned. *)
RouteClaimToLockUnpinned(a) ==
  IF Destination(a) # NoLock
  THEN UNCHANGED lockVars
  ELSE Mint(a, "autoMax", TRUE) /\ SetPin(a, PinAfterResolve(a))

(* Mutant: the id pinned is read after the mint has moved the counter. *)
RouteClaimToLockPinsCounter(a) ==
  IF Destination(a) # NoLock
  THEN UNCHANGED lockVars
  ELSE /\ Mint(a, "autoMax", TRUE)
       /\ SetPin(a, nextTokenId + 1)

(* _routeClaimToLock when Furnace.enterWithClaimFor succeeds. *)
RouteClaimToLock(a) ==
  IF Destination(a) # NoLock
  THEN UNCHANGED lockVars
  ELSE /\ Mint(a, "autoMax", TRUE)
       /\ SetPin(a, IF PinAfterResolve(a) = NoLock THEN nextTokenId ELSE PinAfterResolve(a))

(* ... and when it fails: before the destination is resolved (gas is short),
   or after (the Furnace reverts: paused, too small, minVeOut not met). *)
RouteClaimFails(a) ==
  /\ \/ UNCHANGED kingAutoLockConfig
     \/ SetPin(a, PinAfterResolve(a))
  /\ UNCHANGED <<locks, nextTokenId>>

-----------------------------------------------------------------------------
MayConfigure(caller, user) ==
  \/ caller = user
  \/ isAuthorized(user, caller, "SET_KING_AUTO_LOCK_CONFIG_FOR")

(* setKingAutoLockConfig[ForUser] with enabled = false forgets everything. *)
DisableKingAutoLock(caller, user) ==
  /\ MayConfigure(caller, user)
  /\ kingAutoLockConfig' = [kingAutoLockConfig EXCEPT
       ![user] = [targetTokenId |-> NoLock, pinnedTokenId |-> NoLock]]
  /\ UNCHANGED <<locks, nextTokenId>>

(* Mutant: the selection takes the place of the pin. *)
SelectAndPinKingLock(caller, user, t) ==
  /\ MayConfigure(caller, user)
  /\ t \in LockIds => locks[t].owner = user
  /\ kingAutoLockConfig' = [kingAutoLockConfig EXCEPT ![user] =
       [targetTokenId |-> t, pinnedTokenId |-> t]]
  /\ UNCHANGED <<locks, nextTokenId>>

(* ... with a lock to route into: validateKingAutoLockExistingTarget wants it
   owned, unlisted and unexpired, but not long enough for a settlement. *)
SelectKingLock(caller, user, t) ==
  /\ MayConfigure(caller, user)
  /\ \/ t = NoLock
     \/ /\ t \in LockIds
        /\ locks[t].owner = user
        /\ ~locks[t].listed
        /\ locks[t].term # "expired"
  /\ kingAutoLockConfig' = [kingAutoLockConfig EXCEPT ![user].targetTokenId = t]
  /\ UNCHANGED <<locks, nextTokenId>>

-----------------------------------------------------------------------------
(* VeClaimNFT as the route sees it. *)
SetLock(t, lock) ==
  /\ locks' = [locks EXCEPT ![t] = lock]
  /\ UNCHANGED <<kingAutoLockConfig, nextTokenId>>

UserCreatesLock(a, term) ==
  /\ Mint(a, term, FALSE)
  /\ UNCHANGED kingAutoLockConfig

(* Time passes for a lock that decays. *)
AgeLock(t) ==
  /\ locks[t].owner # NoOne
  /\ \/ locks[t].term = "full"  /\ SetLock(t, [locks[t] EXCEPT !.term = "short"])
     \/ locks[t].term = "short" /\ SetLock(t, [locks[t] EXCEPT !.term = "expired"])

(* Furnace.extendWithBonus, all the way to the maximum. *)
ExtendLock(t) ==
  /\ locks[t].owner # NoOne /\ ~locks[t].listed /\ locks[t].term = "short"
  /\ SetLock(t, [locks[t] EXCEPT !.term = "full"])

(* setAutoMax: turning it off leaves a full lock. *)
ToggleAutoMax(t) ==
  /\ locks[t].owner # NoOne /\ ~locks[t].listed /\ locks[t].term # "expired"
  /\ SetLock(t, [locks[t] EXCEPT !.term = IF @ = "autoMax" THEN "full" ELSE "autoMax"])

(* setListed: an expired lock can be delisted but not listed. *)
ToggleListed(t) ==
  /\ locks[t].owner # NoOne
  /\ locks[t].listed \/ locks[t].term # "expired"
  /\ SetLock(t, [locks[t] EXCEPT !.listed = ~@])

(* Unlocked, merged into another lock, or sold to the Furnace: deleted. *)
BurnLock(t) ==
  /\ locks[t].owner # NoOne /\ ~locks[t].listed
  /\ SetLock(t, [locks[t] EXCEPT !.owner = NoOne, !.term = "expired"])

LockSteps ==
  \/ \E caller, user \in Accounts : DisableKingAutoLock(caller, user)
  \/ \E caller, user \in Accounts, t \in LockIds \cup {NoLock} :
       SelectKingLock(caller, user, t)
  \/ \E a \in Accounts, term \in Terms \ {"expired"} : UserCreatesLock(a, term)
  \/ \E t \in LockIds : AgeLock(t)
  \/ \E t \in LockIds : ExtendLock(t)
  \/ \E t \in LockIds : ToggleAutoMax(t)
  \/ \E t \in LockIds : ToggleListed(t)
  \/ \E t \in LockIds : BurnLock(t)

(* The route on its own: settlements and withdrawals for anyone at any time. *)
LockNext ==
  \/ \E a \in Accounts : RouteClaimToLock(a)
  \/ \E a \in Accounts : RouteClaimFails(a)
  \/ LockSteps

LockSpec == LockInit /\ [][LockNext]_lockVars

-----------------------------------------------------------------------------
RouteMinted(t) ==
  /\ locks[t].owner = NoOne /\ nextTokenId = t
  /\ locks'[t].owner # NoOne /\ locks'[t].routed

(***************************************************************************)
(* "An active King never accumulates new veNFTs": without a selection, a   *)
(* settlement mints a lock only when the pinned one cannot take the CLAIM, *)
(* and the lock it mints is the one that settlements reuse from then on.   *)
(***************************************************************************)
DefaultRouteReusesItsLock ==
  [][\A t \in LockIds : RouteMinted(t) =>
       LET a == locks'[t].owner
       IN  kingAutoLockConfig[a].targetTokenId = NoLock =>
             /\ ~Resolves(kingAutoLockConfig[a].pinnedTokenId, a)
             /\ kingAutoLockConfig'[a].pinnedTokenId = t]_lockVars

(***************************************************************************)
(* What MineCore documents for a selection that becomes unusable: the      *)
(* route falls back to the pinned lock, and only then to a fresh one.      *)
(***************************************************************************)
UnusableSelectionFallsBackToPin ==
  [][\A t \in LockIds : RouteMinted(t) =>
       LET a == locks'[t].owner
       IN  ~Resolves(kingAutoLockConfig[a].pinnedTokenId, a)]_lockVars

(***************************************************************************)
(* A pin is only ever a lock the route minted for that recipient: whatever *)
(* users select, list, sell or merge, no settlement adopts another lock as *)
(* the default destination.                                                *)
(***************************************************************************)
PinsAreRouteLocks ==
  \A a \in Accounts :
    LET t == kingAutoLockConfig[a].pinnedTokenId
    IN  t # NoLock => t < nextTokenId /\ locks[t].routed /\ locks[t].owner \in {a, NoOne}
=============================================================================
