------------------------ MODULE ShareholderRoyalties ------------------------
(***************************************************************************)
(* ShareholderRoyalties: takeover ETH shared among the holders of ve locks *)
(* in proportion to their weight at the moment it arrives.                 *)
(*                                                                         *)
(* Nobody is paid when ETH arrives.  A flush divides the pending ETH by    *)
(* the total weight and adds the quotient to a cumulative index, and the   *)
(* quotient times the time to a second one, with which a user's rewards    *)
(* are reconstructed from the locks held when the user is next             *)
(* checkpointed: a lock of slope s and end e earned                        *)
(*     s * (e * Delta index - Delta timeWeightedIndex)                     *)
(* from the flushes before e.  Where the indices stood at e is looked up   *)
(* in a history of checkpoints: an array, frozen when full, followed by a  *)
(* ring that evicts its oldest entry.  Every lock mutator checkpoints its  *)
(* user first (and afterwards reports the earliest end the user still      *)
(* holds, which is what eviction must respect).                            *)
(*                                                                         *)
(* An action is a transaction, with all its calls between VeClaimNFT, this *)
(* contract and the Furnace; one that reverts takes no step.  The wiring   *)
(* is canonical.  Compounding by keepers is not part of this module.       *)
(***************************************************************************)
EXTENDS VeLocks, Integers, Sequences

CONSTANTS
  SHAREHOLDER_ACC,             \* scale of the index
  MAX_REWARD_CHECKPOINTS, MAX_OVERFLOW_CHECKPOINTS,
  MIN_VE_FLUSH,
  UINT40_MAX,                  \* type(uint40).max, later than any time
  Drifts,                      \* by how much VeClaimNFT's rounded total may exceed the locks' weights
  Freshness,                   \* whether the bounded ve checkpoint can catch up: a subset of BOOLEAN
  Allocations,                 \* ETH amounts of takeovers
  Raises,                      \* values the operator may force the watermark to
  ForcedEth,                   \* untracked ETH forced upon the contract
  MaxTime, MaxTakeovers, MaxLockChanges   \* bounds

ASSUME RoyaltiesAssumption ==
  /\ SHAREHOLDER_ACC \in Nat \ {0}
  /\ MAX_REWARD_CHECKPOINTS \in Nat \ {0} /\ MAX_OVERFLOW_CHECKPOINTS \in Nat \ {0}
  /\ MIN_VE_FLUSH \in Nat
  /\ UINT40_MAX \in Nat /\ UINT40_MAX > MaxTime + MAX_LOCK_DURATION
  /\ Drifts \subseteq Nat /\ Freshness \subseteq BOOLEAN
  /\ Allocations \subseteq Nat \ {0} /\ ForcedEth \subseteq Nat \ {0}
  /\ Raises \subseteq Nat
  /\ MaxTime \in Nat /\ MaxTakeovers \in Nat /\ MaxLockChanges \in Nat

VARIABLES
  \* the ETH buckets
  pendingShareholderETH, indexedEthOwed, totalCrystallisedStored, claimableEthStored,
  ethBalance,                  \* address(this).balance
  \* the cumulative indices and their history
  ethPerVe, ethPerVeTimeWeighted,
  rewardCheckpoints, overflowCheckpoints, overflowRingHead,
  \* where each user was last checkpointed
  userEthPerVePaid, userTimeWeightedEthPerVePaid, userLastRewardTs, userRewardRemainder,
  \* the earliest ends observed
  userObservedMin, oldestObserved,
  \* history: the flushes that indexed something, what the locks of a user earned
  \* since its last checkpoint, credit lost to the clamp, ETH forced upon us
  flushes, earned, clipped, ethSurplus,
  takeovers, lockChanges       \* counted for the bounds

bucketVars  == <<pendingShareholderETH, indexedEthOwed, totalCrystallisedStored,
                 claimableEthStored, ethBalance>>
indexVars   == <<ethPerVe, ethPerVeTimeWeighted, rewardCheckpoints, overflowCheckpoints,
                 overflowRingHead, flushes>>
userVars    == <<userEthPerVePaid, userTimeWeightedEthPerVePaid, userLastRewardTs,
                 userRewardRemainder, earned, clipped>>
observedVars == <<userObservedMin, oldestObserved>>
counters     == <<takeovers, lockChanges>>
vars == <<now, locks, bucketVars, indexVars, userVars, observedVars, counters, ethSurplus>>

Checkpoint == [timestamp : Nat, ethPerVe : Nat, timeWeighted : Nat]
Zero == [u \in Users |-> 0]

(* Amounts, indices and remainders stay what unsigned storage can hold: no    *)
(* credit takes more than was indexed, and no remainder reaches a whole wei.  *)
RoyaltiesTypeOK ==
  /\ LocksTypeOK
  /\ pendingShareholderETH \in Nat /\ indexedEthOwed \in Nat
  /\ totalCrystallisedStored \in Nat /\ claimableEthStored \in [Users -> Nat]
  /\ ethBalance \in Nat /\ ethSurplus \in Nat
  /\ ethPerVe \in Nat /\ ethPerVeTimeWeighted \in Nat
  /\ rewardCheckpoints \in Seq(Checkpoint) /\ Len(rewardCheckpoints) <= MAX_REWARD_CHECKPOINTS
  /\ overflowCheckpoints \in Seq(Checkpoint) /\ Len(overflowCheckpoints) <= MAX_OVERFLOW_CHECKPOINTS
  /\ overflowRingHead \in 0 .. MAX_OVERFLOW_CHECKPOINTS - 1
  /\ userEthPerVePaid \in [Users -> Nat] /\ userTimeWeightedEthPerVePaid \in [Users -> Nat]
  /\ userLastRewardTs \in [Users -> Nat]
  /\ userRewardRemainder \in [Users -> 0 .. SHAREHOLDER_ACC - 1]
  /\ userObservedMin \in [Users -> Nat] /\ oldestObserved \in Nat
  /\ takeovers \in Nat /\ lockChanges \in Nat /\ flushes \in Nat /\ clipped \in Nat /\ earned \in [Users -> Nat]

Init ==
  /\ now = 0 /\ locks = [t \in Tokens |-> NoLock]
  /\ pendingShareholderETH = 0 /\ indexedEthOwed = 0 /\ totalCrystallisedStored = 0
  /\ claimableEthStored = Zero /\ ethBalance = 0 /\ ethSurplus = 0
  /\ ethPerVe = 0 /\ ethPerVeTimeWeighted = 0
  /\ rewardCheckpoints = <<>> /\ overflowCheckpoints = <<>> /\ overflowRingHead = 0
  /\ userEthPerVePaid = Zero /\ userTimeWeightedEthPerVePaid = Zero
  /\ userLastRewardTs = Zero /\ userRewardRemainder = Zero
  /\ userObservedMin = Zero /\ oldestObserved = UINT40_MAX
  /\ takeovers = 0 /\ lockChanges = 0 /\ flushes = 0 /\ earned = Zero /\ clipped = 0

-----------------------------------------------------------------------------
(* The history of checkpoints.  Once the array is full, entries go to the  *)
(* ring; once the ring is full, its head, the oldest entry, may go when it *)
(* lies more than the longest lock in the past and before every lock end   *)
(* observed.                                                               *)

ArrayFull == Len(rewardCheckpoints) = MAX_REWARD_CHECKPOINTS
RingFull  == Len(overflowCheckpoints) = MAX_OVERFLOW_CHECKPOINTS
Oldest    == overflowRingHead + 1     \* sequences start at 1

LastWritten == IF overflowRingHead = 0 THEN Len(overflowCheckpoints) ELSE overflowRingHead

(* Mutant: a logical index is taken for a physical one. *)
RingHistoryUnrotated == overflowCheckpoints

(* The ring's entries, oldest first. *)
RingHistory ==
  [k \in DOMAIN overflowCheckpoints |->
     overflowCheckpoints[((k - 1 + overflowRingHead) % Len(overflowCheckpoints)) + 1]]
History == rewardCheckpoints \o RingHistory

latestRewardTimestamp ==
  CASE overflowCheckpoints # <<>> -> overflowCheckpoints[LastWritten].timestamp
    [] overflowCheckpoints = <<>> /\ rewardCheckpoints # <<>>
         -> rewardCheckpoints[Len(rewardCheckpoints)].timestamp
    [] OTHER -> 0

getRewardPrefixBefore(ts) ==
  LET before == {k \in DOMAIN History : History[k].timestamp < ts}
  IN  IF before = {} THEN [timestamp |-> 0, ethPerVe |-> 0, timeWeighted |-> 0]
                     ELSE History[Max(before)]

mayEvictHead ==
  /\ overflowCheckpoints[Oldest].timestamp < oldestObserved
  /\ overflowCheckpoints[Oldest].timestamp + MAX_LOCK_DURATION < now

WrittenThisBlock ==
  overflowCheckpoints # <<>> /\ overflowCheckpoints[LastWritten].timestamp = now

canStoreRewardCheckpoint == ~ ArrayFull \/ ~ RingFull \/ WrittenThisBlock \/ mayEvictHead

StoreInArray(cp) ==
  /\ rewardCheckpoints' =
       IF rewardCheckpoints # <<>> /\ rewardCheckpoints[Len(rewardCheckpoints)].timestamp = now
       THEN [rewardCheckpoints EXCEPT ![Len(rewardCheckpoints)] = cp]
       ELSE Append(rewardCheckpoints, cp)
  /\ UNCHANGED <<overflowCheckpoints, overflowRingHead>>

StoreInRing(cp) ==
  /\ \/ /\ WrittenThisBlock
        /\ overflowCheckpoints' = [overflowCheckpoints EXCEPT ![LastWritten] = cp]
        /\ UNCHANGED overflowRingHead
     \/ /\ ~ WrittenThisBlock /\ ~ RingFull
        /\ overflowCheckpoints' = Append(overflowCheckpoints, cp)
        /\ UNCHANGED overflowRingHead
     \/ /\ ~ WrittenThisBlock /\ RingFull /\ mayEvictHead
        /\ overflowCheckpoints' = [overflowCheckpoints EXCEPT ![Oldest] = cp]
        /\ overflowRingHead' = (overflowRingHead + 1) % MAX_OVERFLOW_CHECKPOINTS
  /\ UNCHANGED rewardCheckpoints

storeRewardCheckpoint(cp) == IF ArrayFull THEN StoreInRing(cp) ELSE StoreInArray(cp)

-----------------------------------------------------------------------------
(* Indexing.  pending is what waits to be shared, weight the total VeClaimNFT *)
(* reports.  What cannot be indexed yet stays pending.                        *)

CanIndex(pending, weight, bypassMinVeFlush, fresh) ==
  /\ fresh                                  \* ve.globalLastTs() == block.timestamp
  /\ weight \in Nat \ {0}
  /\ bypassMinVeFlush \/ weight > (MIN_VE_FLUSH - 1) * SHAREHOLDER_WEIGHT_SCALE
  /\ canStoreRewardCheckpoint
  /\ (pending * SHAREHOLDER_ACC) \div weight > 0

(* Mutant: what is too little to distribute is forgotten. *)
IndexDroppingDust(pending, weight) ==
  LET delta       == (pending * SHAREHOLDER_ACC) \div weight
      distributed == (delta * weight) \div SHAREHOLDER_ACC
  IN  /\ ethPerVe' = ethPerVe + delta
      /\ ethPerVeTimeWeighted' = ethPerVeTimeWeighted + delta * now
      /\ storeRewardCheckpoint([timestamp |-> now, ethPerVe |-> ethPerVe + delta,
                                timeWeighted |-> ethPerVeTimeWeighted + delta * now])
      /\ pendingShareholderETH' = 0
      /\ indexedEthOwed' = indexedEthOwed + distributed
      /\ flushes' = flushes + 1
      /\ earned' = [u \in Users |-> earned[u] + UserWeight(u) * delta]

(* What the round-down of distributed leaves behind stays pending. *)
Index(pending, weight) ==
  LET delta       == (pending * SHAREHOLDER_ACC) \div weight
      distributed == (delta * weight) \div SHAREHOLDER_ACC
  IN  /\ ethPerVe' = ethPerVe + delta
      /\ ethPerVeTimeWeighted' = ethPerVeTimeWeighted + delta * now
      /\ storeRewardCheckpoint([timestamp |-> now, ethPerVe |-> ethPerVe + delta,
                                timeWeighted |-> ethPerVeTimeWeighted + delta * now])
      /\ pendingShareholderETH' = pending - distributed
      /\ indexedEthOwed' = indexedEthOwed + distributed
      /\ flushes' = flushes + 1
      /\ earned' = [u \in Users |-> earned[u] + UserWeight(u) * delta]

flushPending(pending, bypassMinVeFlush) ==
  \E drift \in Drifts, fresh \in Freshness :
    LET weight == LiveWeight + drift
    IN  IF CanIndex(pending, weight, bypassMinVeFlush, fresh)
        THEN Index(pending, weight)
        ELSE /\ pendingShareholderETH' = pending
             /\ UNCHANGED <<indexVars, indexedEthOwed, earned>>

Unpaid == <<userEthPerVePaid, userTimeWeightedEthPerVePaid, userLastRewardTs,
            userRewardRemainder, clipped>>

(* onTakeover, and addPendingShareholderETH when MineCore retries. *)
OnTakeover(value) ==
  /\ takeovers < MaxTakeovers
  /\ takeovers' = takeovers + 1
  /\ ethBalance' = ethBalance + value
  /\ flushPending(pendingShareholderETH + value, TRUE)
  /\ UNCHANGED <<now, locks, totalCrystallisedStored, claimableEthStored, ethSurplus, Unpaid,
                 observedVars, lockChanges>>

FlushPendingShareholderETH ==
  /\ pendingShareholderETH > 0
  /\ flushPending(pendingShareholderETH, FALSE)
  /\ UNCHANGED <<now, locks, totalCrystallisedStored, claimableEthStored, ethBalance, ethSurplus,
                 Unpaid, observedVars, counters>>

-----------------------------------------------------------------------------
(* Reconstructing rewards.  A lock's reward is in units of 1/ACC wei.      *)

UpToDate(u) == ethPerVe = userEthPerVePaid[u]

(* Mutant: an expired lock is credited up to today's indices. *)
computeLockAccrualToDate(u, l) ==
  LET delta == ethPerVe - userEthPerVePaid[u]
  IN  CASE l.autoMax -> l.amount * SHAREHOLDER_WEIGHT_SCALE * delta
        [] ~ l.autoMax /\ l.lockEnd > userLastRewardTs[u]
             -> slopeScaled(l.amount)
                  * (l.lockEnd * delta - (ethPerVeTimeWeighted - userTimeWeightedEthPerVePaid[u]))
        [] ~ l.autoMax /\ l.lockEnd <= userLastRewardTs[u] -> 0

computeLockAccrual(u, l) ==
  LET paid   == userEthPerVePaid[u]
      prefix == getRewardPrefixBefore(l.lockEnd)
  IN  CASE l.autoMax -> l.amount * SHAREHOLDER_WEIGHT_SCALE * (ethPerVe - paid)
        [] ~ l.autoMax /\ l.lockEnd > userLastRewardTs[u] /\ prefix.ethPerVe > paid
             -> slopeScaled(l.amount)
                  * (l.lockEnd * (prefix.ethPerVe - paid)
                       - (prefix.timeWeighted - userTimeWeightedEthPerVePaid[u]))
        [] ~ l.autoMax /\ (l.lockEnd <= userLastRewardTs[u] \/ prefix.ethPerVe <= paid) -> 0

computePendingAccrual(u) ==
  IF UpToDate(u) THEN 0
  ELSE Total([t \in Held(u) |-> computeLockAccrual(u, locks[t])], Held(u))

(* The accrual carries the remainder of the previous checkpoint and leaves *)
(* its own; the credit is clamped to what flushes have set aside.          *)

(* Mutant: a fraction of a wei is rounded up, in the user's favour. *)
WholeAccruedUp(u) ==
  (userRewardRemainder[u] + computePendingAccrual(u) + SHAREHOLDER_ACC - 1) \div SHAREHOLDER_ACC

WholeAccrued(u) == (userRewardRemainder[u] + computePendingAccrual(u)) \div SHAREHOLDER_ACC

Credit(u) == IF WholeAccrued(u) > indexedEthOwed THEN indexedEthOwed ELSE WholeAccrued(u)
Entitled(u) == claimableEthStored[u] + Credit(u)

CrystallisedAfter(u, payout) == totalCrystallisedStored + Credit(u) - payout

(* checkpointUser, after which payout of the stored reward leaves. *)
Crystallise(u, payout) ==
  /\ computePendingAccrual(u) \in Nat       \* the code reverts on a negative accrual
  /\ userRewardRemainder' = [userRewardRemainder EXCEPT
        ![u] = (@ + computePendingAccrual(u)) % SHAREHOLDER_ACC]
  /\ userEthPerVePaid' = [userEthPerVePaid EXCEPT ![u] = ethPerVe]
  /\ userTimeWeightedEthPerVePaid' = [userTimeWeightedEthPerVePaid EXCEPT ![u] = ethPerVeTimeWeighted]
  /\ userLastRewardTs' = IF UpToDate(u) THEN userLastRewardTs
                         ELSE [userLastRewardTs EXCEPT ![u] = latestRewardTimestamp]
  /\ earned' = [earned EXCEPT ![u] = 0]
  /\ clipped' = clipped + (WholeAccrued(u) - Credit(u))
  /\ indexedEthOwed' = indexedEthOwed - Credit(u)
  /\ claimableEthStored' = [claimableEthStored EXCEPT ![u] = Entitled(u) - payout]
  /\ totalCrystallisedStored' = CrystallisedAfter(u, payout)
  /\ ethBalance' = ethBalance - payout
  /\ UNCHANGED <<pendingShareholderETH, indexVars, takeovers, ethSurplus>>

-----------------------------------------------------------------------------
(* The watermark: the earliest end of a decaying lock seen.                *)

ObservedMin(table, u) ==
  Min({UINT40_MAX} \cup
      {table[t].lockEnd : t \in {x \in Tokens : IsDecaying(table[x]) /\ table[x].owner = u}})

Narrowed(mark, end) == IF end < mark THEN end ELSE mark

(* checkpointUser looks at the locks it reads anyway, and on the cheap path *)
(* only if it has not recorded an end for this user yet.                    *)
Observes(u) == ~ UpToDate(u) \/ userObservedMin[u] \in {0, UINT40_MAX}
ObservedByCheckpoint(u) ==
  IF Observes(u) THEN Narrowed(oldestObserved, ObservedMin(locks, u)) ELSE oldestObserved

ObserveAtCheckpoint(u) ==
  /\ oldestObserved' = ObservedByCheckpoint(u)
  /\ userObservedMin' = IF Observes(u) THEN [userObservedMin EXCEPT ![u] = ObservedMin(locks, u)]
                        ELSE userObservedMin

(* Mutant: the user's minimum is refreshed, the watermark not narrowed. *)
ObserveAfterChangeUserOnly(u) ==
  /\ userObservedMin' = [userObservedMin EXCEPT ![u] = ObservedMin(locks', u)]
  /\ oldestObserved' = ObservedByCheckpoint(u)

(* pinUserObservedMin after the checkpoint and the change of locks. *)
ObserveAfterChange(u) ==
  /\ userObservedMin' = [userObservedMin EXCEPT ![u] = ObservedMin(locks', u)]
  /\ oldestObserved' = Narrowed(ObservedByCheckpoint(u), ObservedMin(locks', u))

CheckpointUser(u) ==
  /\ Crystallise(u, 0)
  /\ ObserveAtCheckpoint(u)
  /\ UNCHANGED <<now, locks, lockChanges>>

PinUserObservedMin(u) ==
  /\ userObservedMin' = [userObservedMin EXCEPT ![u] = ObservedMin(locks, u)]
  /\ oldestObserved' = Narrowed(oldestObserved, ObservedMin(locks, u))
  /\ UNCHANGED <<now, locks, bucketVars, indexVars, userVars, counters, ethSurplus>>

(* recomputeGlobalWatermark.  The owner is responsible for candidates that *)
(* cover every holder of a decaying lock.                                  *)
RecomputeGlobalWatermark(candidates, exhaustive) ==
  /\ \A u \in Users \ candidates : ObservedMin(locks, u) = UINT40_MAX
  /\ userObservedMin' = [u \in Users |-> IF u \in candidates THEN ObservedMin(locks, u)
                                        ELSE userObservedMin[u]]
  /\ LET lowest == Min({UINT40_MAX} \cup {ObservedMin(locks, u) : u \in candidates})
     IN  oldestObserved' = IF lowest > oldestObserved /\ (lowest < UINT40_MAX \/ exhaustive)
                           THEN lowest ELSE oldestObserved
  /\ UNCHANGED <<now, locks, bucketVars, indexVars, userVars, counters, ethSurplus>>

(* forceSetOldestObservedNonAutoMaxLockEnd, used as documented: when analysis *)
(* has shown the higher floor to be safe.                                     *)
ForceSetOldestObserved(end) ==
  /\ end > oldestObserved
  /\ \A u \in Users : end <= ObservedMin(locks, u)
  /\ oldestObserved' = end
  /\ UNCHANGED <<now, locks, bucketVars, indexVars, userVars, userObservedMin, counters, ethSurplus>>

-----------------------------------------------------------------------------
(* Claims, and the lock mutators with what they do here.                   *)

(* Every claimShareholder variant that pays ETH. *)
Claim(u) ==
  /\ Entitled(u) > 0
  /\ Crystallise(u, Entitled(u))
  /\ ObserveAtCheckpoint(u)
  /\ UNCHANGED <<now, locks, lockChanges>>

AroundLockChange(u, payout) ==
  /\ lockChanges < MaxLockChanges
  /\ lockChanges' = lockChanges + 1
  /\ Crystallise(u, payout)
  /\ ObserveAfterChange(u)
  /\ UNCHANGED now

FurnaceEntry(u) ==
  \/ \E t \in Tokens, a \in LockAmounts, autoMax \in BOOLEAN,
        d \in MIN_LOCK_DURATION .. MAX_LOCK_DURATION : CreateLock(u, t, a, d, autoMax)
  \/ \E t \in Held(u), a \in TopUps : AddToLock(t, a)

EnterFurnace(u) == FurnaceEntry(u) /\ AroundLockChange(u, 0)

(* A claim in mode LOCK_FURNACE: the Furnace buys CLAIM and enters it. *)
ClaimToLock(u) ==
  /\ Entitled(u) > 0
  /\ FurnaceEntry(u)
  /\ AroundLockChange(u, Entitled(u))

ChangeLock(u) ==
  /\ \/ \E t \in Held(u), e \in 0 .. MaxTime + MAX_LOCK_DURATION : ExtendLock(t, e)
     \/ \E t \in Held(u), enabled \in BOOLEAN : SetAutoMax(t, enabled)
     \/ \E from, into \in Held(u) : MergeLocks(from, into)
  /\ AroundLockChange(u, 0)

LeaveLock(u) ==
  /\ \E t \in Held(u) : Unlock(t) \/ SellLock(t)
  /\ AroundLockChange(u, 0)

-----------------------------------------------------------------------------
ForceEth(value) ==
  /\ ethSurplus = 0
  /\ ethSurplus' = value /\ ethBalance' = ethBalance + value
  /\ UNCHANGED <<now, locks, pendingShareholderETH, indexedEthOwed, totalCrystallisedStored,
                 claimableEthStored, indexVars, userVars, observedVars, counters>>

(* The owner sweeps what none of the three buckets claims. *)
SweepDust ==
  LET dust == ethBalance - (pendingShareholderETH + indexedEthOwed + totalCrystallisedStored)
  IN  /\ dust > 0
      /\ ethBalance' = ethBalance - dust
      /\ ethSurplus' = ethSurplus - dust
      /\ UNCHANGED <<now, locks, pendingShareholderETH, indexedEthOwed, totalCrystallisedStored,
                     claimableEthStored, indexVars, userVars, observedVars, counters>>

Tick ==
  /\ now < MaxTime /\ now' = now + 1
  /\ UNCHANGED <<locks, bucketVars, indexVars, userVars, observedVars, counters, ethSurplus>>

Next ==
  \/ Tick
  \/ \E v \in Allocations : OnTakeover(v)
  \/ FlushPendingShareholderETH
  \/ \E u \in Users : \/ CheckpointUser(u) \/ PinUserObservedMin(u)
                      \/ Claim(u) \/ ClaimToLock(u)
                      \/ EnterFurnace(u) \/ ChangeLock(u) \/ LeaveLock(u)
  \/ \E c \in SUBSET Users, exhaustive \in BOOLEAN : RecomputeGlobalWatermark(c, exhaustive)
  \/ \E e \in Raises : ForceSetOldestObserved(e)
  \/ \E v \in ForcedEth : ForceEth(v)
  \/ SweepDust

Spec == Init /\ [][Next]_vars

-----------------------------------------------------------------------------
(* The three buckets are disjoint shares of the balance, to the wei, and the *)
(* crystallised one is the sum of what users were credited: neither a flush, *)
(* a clamped checkpoint, a claim nor a sweep pays from another's bucket      *)
(* (ShareholderRoyalties.sol, "Disjoint-buckets invariant").                 *)
BucketsPartitionBalance ==
  /\ ethBalance = pendingShareholderETH + indexedEthOwed + totalCrystallisedStored + ethSurplus
  /\ totalCrystallisedStored = Total(claimableEthStored, Users)

(* Reconstruction is exact: what a checkpoint would compute from cumulative  *)
(* indices and the locks held then is what those locks earned flush by flush *)
(* since the last checkpoint, however locks were entered, extended, merged,  *)
(* switched, expired or sold in between.  Once checkpoints are evicted, this *)
(* is still so for unexpired locks, which never need an evicted one, and for *)
(* expired locks whose end a checkpoint of the full ring precedes; the       *)
(* others get no more than they earned, and never a negative amount, which   *)
(* would make every checkpoint of their owner revert.                        *)
Reconstructible(t) ==
  Expired(t) /\ RingFull => RingHistory[1].timestamp < locks[t].lockEnd
AccrualIsExact ==
  \A u \in Users :
    /\ computePendingAccrual(u) \in 0..earned[u]
    /\ (\A t \in Held(u) : Reconstructible(t)) => computePendingAccrual(u) = earned[u]

(* What the eviction floor promises (ShareholderRoyalties.sol, at             *)
(* _oldestObservedNonAutoMaxLockEnd): no checkpoint is pruned that a delayed  *)
(* claim on an observed lock would need, so the claim is not under-credited.  *)
DelayedClaimsKeepTheirPrefix == \A u \in Users : earned[u] <= computePendingAccrual(u)

(* Users' rewards, credited late and clamped, are covered by the ETH set     *)
(* aside for them but for less than one wei per flush; the clamp of          *)
(* checkpointUser therefore takes at most N-1 wei in N flushes, from all     *)
(* users together (what its comment claims of one checkpoint), and never     *)
(* lets the pool go below nothing.                                           *)
IndexedCoversAccrual ==
  /\ Total([u \in Users |-> earned[u] + userRewardRemainder[u]], Users)
       <= indexedEthOwed * SHAREHOLDER_ACC + flushes * (SHAREHOLDER_ACC - 1)
  /\ indexedEthOwed >= 0
  /\ clipped <= IF flushes = 0 THEN 0 ELSE flushes - 1

(* The watermark is never above the end of a decaying lock somebody holds,   *)
(* whichever way the lock came about and however the operator raised it.     *)
WatermarkCoversLocks ==
  \A t \in Tokens : IsDecaying(locks[t]) => oldestObserved <= locks[t].lockEnd

(* The checkpoint history is in the order of time, array and wrapped ring    *)
(* together, and ends where the indices stand: what the binary search and    *)
(* the "last written" shortcut rely on.                                      *)
HistoryIsOrdered ==
  /\ \A j, k \in DOMAIN History : j < k =>
       /\ History[j].timestamp <= History[k].timestamp
       /\ History[j].ethPerVe < History[k].ethPerVe
  /\ History # <<>> => /\ latestRewardTimestamp = History[Len(History)].timestamp
                       /\ ethPerVe = History[Len(History)].ethPerVe
                       /\ ethPerVeTimeWeighted = History[Len(History)].timeWeighted
=============================================================================
